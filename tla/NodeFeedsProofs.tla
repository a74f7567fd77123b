--------------------------- MODULE NodeFeedsProofs -----------------------------
(* Machine-checked proofs about the broker feeds of the Node backend: NodeFeeds, *)
(* for any number of feeds, callers and probers, any threshold, cooldowns and    *)
(* ladder, and BrokerStream, for any set of sockets.                             *)
EXTENDS NodeFeeds, BrokerStream, TLAPS

--------------------------------------------------------------------------------
(* NodeFeeds: type correctness, the probe slots and the logins.                  *)
(*                                                                               *)
(* One invariant carries all three.  Every action that goes on to another feed   *)
(* does so through Walk, with the breakers as the call before left them; Walk    *)
(* and ensureConnected have a lemma each, and the actions cite them.             *)

Entry == [state : {"CLOSED", "OPEN", "HALF_OPEN"}, failures : 0..Threshold,
          cooldown : Cooldown..CooldownMax, left : 0..CooldownMax, probing : BOOLEAN]
AuthState == [flight : Login \cup {NoLogin}, failures : 0..Len(Ladder), wait : Nat]
CallState == [pc : {"idle", "login", "run", "dropped", "relogin", "rerun", "failed"},
              can : SUBSET Feed, at : Feed \cup {0}, on : Login \cup {NoLogin},
              claim : BOOLEAN, code : FeedErrorCode]

SlotOK(e) == e.probing <=> e.state = "HALF_OPEN"
Holds(a, f) == call[a].pc # "idle" /\ call[a].at = f /\ call[a].claim
Placed ==
  \A a \in Actor : /\ call[a].pc # "idle" => call[a].at \in Feed
                   /\ call[a].pc = "idle" => call[a].on = NoLogin

(* OneLogin in two parts: of the logins, and of a call that waits for one.       *)
Flights ==
  \A l \in Login :
    login[l] # 0 => auth[login[l]].flight = l \/ l \in forgotten \/ l \in beside
WaitsForIt(c) == c.on # NoLogin => auth[c.at].flight = c.on \/ c.on \in forgotten

Inv == TypeOK /\ Placed /\ SlotHasAHolder /\ OneLogin

LEMMA OneLoginParts ==
  /\ OneLogin <=> Flights /\ \A a \in Actor : WaitsForIt(call[a])
  /\ OneLogin' <=> Flights' /\ \A a \in Actor : WaitsForIt(call[a])'
BY DEF OneLogin, Flights, WaitsForIt

(* Where no flight of a feed is replaced by another, a call that waits as before  *)
(* waits for the one login still.                                               *)
LEMMA WaitsOn ==
  ASSUME Placed, NEW o \in Actor, WaitsForIt(call[o]), call'[o] = call[o],
         forgotten \subseteq forgotten',
         \A f \in Feed : auth[f].flight = NoLogin \/ auth'[f].flight = auth[f].flight
  PROVE  WaitsForIt(call[o])'
BY DEF Placed, WaitsForIt

--------------------------------------------------------------------------------
(* breaker.ts: what each operation leaves is an entry, and both records free the *)
(* probe slot.                                                                  *)
LEMMA ClaimedIsAnEntry ==
  ASSUME NEW e \in Entry, SlotOK(e)
  PROVE  /\ Claimed(e) \in Entry
         /\ SlotOK(Claimed(e))
         /\ Claimed(e).probing => e.state # "CLOSED"
BY DEF Claimed, Entry, SlotOK

LEMMA SuccessIsAnEntry ==
  ASSUME NEW e \in Entry
  PROVE  recordSuccess(e) \in Entry /\ SlotOK(recordSuccess(e)) /\ ~recordSuccess(e).probing
<1>1. /\ 0 \in 0..Threshold /\ 0 \in 0..CooldownMax
      /\ Cooldown \in Cooldown..CooldownMax
  BY NodeFeedsAssumption
<1>2. recordSuccess(e) = [state |-> "CLOSED", failures |-> 0, cooldown |-> Cooldown,
                          left |-> 0, probing |-> FALSE]
  <2> DEFINE d == [e EXCEPT !.probing = FALSE, !.failures = 0]
  <2>1. d \in Entry /\ d.failures = 0 /\ d.probing = FALSE
    BY <1>1 DEF Entry
  <2>2. recordSuccess(e) = [d EXCEPT !.cooldown = Cooldown, !.state = "CLOSED", !.left = 0]
    BY DEF recordSuccess
  <2> HIDE DEF d
  <2> QED BY <2>1, <2>2 DEF Entry
<1> QED BY <1>1, <1>2 DEF Entry, SlotOK

LEMMA FailureIsAnEntry ==
  ASSUME NEW e \in Entry, SlotOK(e)
  PROVE  recordFailure(e) \in Entry /\ SlotOK(recordFailure(e)) /\ ~recordFailure(e).probing
<1>1. Doubled(e.cooldown) \in Cooldown..CooldownMax
  BY NodeFeedsAssumption DEF Doubled, Entry
<1>2. Counted(e.failures) \in 0..Threshold
  BY NodeFeedsAssumption DEF Counted, Entry
<1>3. Doubled(e.cooldown) \in 0..CooldownMax /\ e.cooldown \in 0..CooldownMax
  BY <1>1, NodeFeedsAssumption DEF Entry
<1>4. Threshold \in 0..Threshold
  BY NodeFeedsAssumption
<1>5. CASE e.state = "HALF_OPEN"
  <2>1. recordFailure(e) = [state |-> "OPEN", failures |-> e.failures,
                            cooldown |-> Doubled(e.cooldown), left |-> Doubled(e.cooldown),
                            probing |-> FALSE]
    BY <1>5 DEF recordFailure, Entry
  <2> QED BY <1>1, <1>3, <2>1 DEF Entry, SlotOK
<1>6. CASE e.state # "HALF_OPEN" /\ Counted(e.failures) = Threshold
  <2>1. recordFailure(e) = [state |-> "OPEN", failures |-> Threshold,
                            cooldown |-> e.cooldown, left |-> e.cooldown,
                            probing |-> FALSE]
    BY <1>6 DEF recordFailure, Entry, SlotOK
  <2> QED BY <1>3, <1>4, <2>1 DEF Entry, SlotOK
<1>7. CASE e.state # "HALF_OPEN" /\ Counted(e.failures) # Threshold
  <2>1. recordFailure(e) = [e EXCEPT !.failures = Counted(e.failures)]
    BY <1>7 DEF recordFailure
  <2> QED BY <1>2, <1>7, <2>1 DEF Entry, SlotOK
<1> QED BY <1>5, <1>6, <1>7

(* ensureConnected keeps the logins single, and the call it goes on with is on   *)
(* the same feed with the same claim.                                           *)
LEMMA ConnectingIsSound ==
  ASSUME TypeOK, Placed, OneLogin, NEW a \in Actor, NEW c \in CallState,
         c.pc \in {"run", "rerun"}, c.at \in Feed, WaitsForIt(c),
         ensureConnected(a, c), forgotten' = forgotten, beside' = beside
  PROVE  /\ auth' \in [Feed -> AuthState]
         /\ login' \in [Login -> Feed \cup {0}]
         /\ OneLogin'
         /\ \E d \in CallState : /\ call' = [call EXCEPT ![a] = d]
                                 /\ d.pc # "idle" /\ d.at = c.at /\ d.claim = c.claim
<1> USE NodeFeedsAssumption
<1>0. /\ auth \in [Feed -> AuthState] /\ login \in [Login -> Feed \cup {0}]
      /\ call \in [Actor -> CallState] /\ Flights /\ \A o \in Actor : WaitsForIt(call[o])
  BY OneLoginParts DEF TypeOK, AuthState, CallState
<1>a. ASSUME NEW d, call' = [call EXCEPT ![a] = d], WaitsForIt(d)', Flights',
             \A f \in Feed : auth[f].flight = NoLogin \/ auth'[f].flight = auth[f].flight
      PROVE  OneLogin'
  <2>1. ASSUME NEW o \in Actor PROVE WaitsForIt(call[o])'
    <3>1. CASE o = a
      <4>1. call'[o] = d
        BY <1>0, <1>a, <3>1
      <4> QED BY <1>a, <4>1 DEF WaitsForIt
    <3>2. CASE o # a
      <4>1. call'[o] = call[o] /\ WaitsForIt(call[o])
        BY <1>0, <1>a, <3>2
      <4> QED BY <1>a, <4>1, WaitsOn
    <3> QED BY <3>1, <3>2
  <2> QED BY <1>a, <2>1, OneLoginParts
<1>1. CASE Connected(a, c)
  <2>1. auth' = [auth EXCEPT ![c.at].failures = 0, ![c.at].wait = 0] /\ login' = login
    BY <1>1 DEF Connected
  <2>2. auth' \in [Feed -> AuthState]
    <3>1. [auth[c.at] EXCEPT !.failures = 0, !.wait = 0] \in AuthState
      <4>1. 0 \in 0..Len(Ladder) /\ auth[c.at] \in AuthState
        BY <1>0
      <4> QED BY <4>1 DEF AuthState
    <3>2. auth' = [auth EXCEPT ![c.at] = [auth[c.at] EXCEPT !.failures = 0, !.wait = 0]]
      BY <1>0, <2>1 DEF AuthState
    <3> QED BY <1>0, <3>1, <3>2
  <2>3. \A f \in Feed : auth'[f].flight = auth[f].flight
    BY <1>0, <2>1 DEF AuthState
  <2>4. call' = [call EXCEPT ![a] = c] /\ c.pc # "idle"
    BY <1>1 DEF Connected, Put
  <2>5. Flights' /\ WaitsForIt(c)'
    BY <1>0, <2>1, <2>3 DEF Flights, WaitsForIt, Feed
  <2>6. OneLogin'
    BY <1>a, <2>3, <2>4, <2>5
  <2> QED BY <1>0, <2>1, <2>2, <2>4, <2>6
<1>2. CASE Refused(a, c)
  <2> DEFINE d == [c EXCEPT !.pc = "failed", !.code = "AUTH"]
  <2>1. d \in CallState /\ d.on = c.on /\ d.at = c.at /\ d.pc # "idle" /\ d.claim = c.claim
    BY DEF CallState, FeedErrorCode
  <2>2. call' = [call EXCEPT ![a] = d] /\ auth' = auth /\ login' = login
    BY <1>2 DEF Refused, Put
  <2> HIDE DEF d
  <2>3. Flights' /\ WaitsForIt(d)'
    BY <1>0, <2>1, <2>2 DEF Flights, WaitsForIt
  <2>4. OneLogin'
    BY <1>a, <2>2, <2>3
  <2> QED BY <1>0, <2>1, <2>2, <2>4
<1>3. CASE Share(a, c)
  <2>1. PICK d \in CallState :
          /\ call' = [call EXCEPT ![a] = d] /\ d.pc # "idle" /\ d.at = c.at
          /\ d.claim = c.claim /\ d.on = auth[c.at].flight
    <3> DEFINE e == [c EXCEPT !.pc = Waiting(c.pc), !.on = auth[c.at].flight]
    <3>1. /\ e \in CallState /\ e.pc # "idle" /\ e.at = c.at /\ e.claim = c.claim
          /\ e.on = auth[c.at].flight
      BY <1>0 DEF CallState, AuthState, Waiting
    <3>2. call' = [call EXCEPT ![a] = e]
      BY <1>3 DEF Share, Put
    <3> HIDE DEF e
    <3> QED BY <3>1, <3>2
  <2>2. auth' = auth /\ login' = login
    BY <1>3 DEF Share
  <2>3. Flights' /\ WaitsForIt(d)'
    BY <1>0, <2>1, <2>2 DEF Flights, WaitsForIt
  <2>4. OneLogin'
    BY <1>a, <2>1, <2>2, <2>3
  <2> QED BY <1>0, <2>1, <2>2, <2>4
<1>4. CASE Connect(a, c)
  <2>1. PICK l \in Login :
          /\ login' = [login EXCEPT ![l] = c.at]
          /\ auth' = [auth EXCEPT ![c.at].flight = l]
          /\ Put(a, [c EXCEPT !.pc = Waiting(c.pc), !.on = l])
    BY <1>4 DEF Connect, Starts
  <2> DEFINE d == [c EXCEPT !.pc = Waiting(c.pc), !.on = l]
  <2>2. auth' \in [Feed -> AuthState] /\ login' \in [Login -> Feed \cup {0}]
    BY <1>0, <2>1 DEF AuthState
  <2>3. /\ auth[c.at].flight = NoLogin /\ auth'[c.at].flight = l
        /\ \A f \in Feed : f # c.at => auth'[f] = auth[f]
    BY <1>0, <1>4, <2>1 DEF Connect, AuthState
  <2>4. Flights'
    <3> SUFFICES ASSUME NEW m \in Login, login'[m] # 0
                 PROVE  auth'[login'[m]].flight = m \/ m \in forgotten \/ m \in beside
      BY DEF Flights
    <3>1. CASE m = l
      BY <1>0, <2>1, <2>3, <3>1
    <3>2. CASE m # l
      <4>1. login'[m] = login[m] /\ login[m] \in Feed
        BY <1>0, <2>1, <3>2
      <4>2. auth[login[m]].flight = m \/ m \in forgotten \/ m \in beside
        BY <1>0, <4>1 DEF Flights
      <4> QED BY <2>3, <4>1, <4>2
    <3> QED BY <3>1, <3>2
  <2>5. d \in CallState /\ d.pc # "idle" /\ d.at = c.at /\ d.claim = c.claim /\ d.on = l
    BY DEF CallState, Waiting
  <2>6. call' = [call EXCEPT ![a] = d]
    BY <2>1 DEF Put
  <2> HIDE DEF d
  <2>7. WaitsForIt(d)'
    BY <2>3, <2>5 DEF WaitsForIt
  <2>8. OneLogin'
    BY <1>a, <2>3, <2>4, <2>6, <2>7
  <2> QED BY <2>2, <2>5, <2>6, <2>8
<1> QED BY <1>1, <1>2, <1>3, <1>4 DEF ensureConnected

--------------------------------------------------------------------------------
(* Walk: given breakers b whose taken slots all have a holder other than the     *)
(* actor that walks, what it leaves is sound.                                   *)
LEMMA WalkIsSound ==
  ASSUME TypeOK, Placed, OneLogin, NEW a \in Actor, NEW can \in SUBSET Feed, NEW i \in Nat,
         NEW b \in [Feed -> Entry],
         \A f \in Feed : SlotOK(b[f]),
         \A f \in Feed : b[f].probing => \E o \in Actor : o # a /\ Holds(o, f),
         Walk(a, can, i, b), forgotten' = forgotten, beside' = beside
  PROVE  /\ breaker' \in [Feed -> Entry] /\ auth' \in [Feed -> AuthState]
         /\ login' \in [Login -> Feed \cup {0}] /\ call' \in [Actor -> CallState]
         /\ Placed' /\ SlotHasAHolder' /\ OneLogin'
<1> USE NodeFeedsAssumption
<1>0. /\ auth \in [Feed -> AuthState] /\ login \in [Login -> Feed \cup {0}]
      /\ call \in [Actor -> CallState]
  BY DEF TypeOK, AuthState, CallState
<1>1. CASE \E f \in (i + 1) .. NFeeds :
             /\ breaker' = [b EXCEPT ![f] = Claimed(b[f])]
             /\ ensureConnected(a, [Idle EXCEPT !.pc = "run", !.can = can, !.at = f,
                                                !.claim = (b[f].state # "CLOSED")])
  <2>1. PICK f \in (i + 1) .. NFeeds :
             /\ breaker' = [b EXCEPT ![f] = Claimed(b[f])]
             /\ ensureConnected(a, [Idle EXCEPT !.pc = "run", !.can = can, !.at = f,
                                                !.claim = (b[f].state # "CLOSED")])
    BY <1>1
  <2> DEFINE c == [Idle EXCEPT !.pc = "run", !.can = can, !.at = f,
                               !.claim = (b[f].state # "CLOSED")]
  <2>2. f \in Feed
    BY <2>1 DEF Feed
  <2>3. /\ c \in CallState /\ c.pc = "run" /\ c.at = f
        /\ c.claim = (b[f].state # "CLOSED") /\ WaitsForIt(c)
    BY <2>2 DEF Idle, CallState, FeedErrorCode, WaitsForIt
  <2>4. ensureConnected(a, c)
    BY <2>1
  <2> HIDE DEF c
  <2>5. /\ auth' \in [Feed -> AuthState]
        /\ login' \in [Login -> Feed \cup {0}]
        /\ OneLogin'
        /\ \E d \in CallState : /\ call' = [call EXCEPT ![a] = d]
                                /\ d.pc # "idle" /\ d.at = c.at /\ d.claim = c.claim
    BY <2>2, <2>3, <2>4, ConnectingIsSound
  <2>6. PICK d \in CallState : /\ call' = [call EXCEPT ![a] = d]
                               /\ d.pc # "idle" /\ d.at = f /\ d.claim = (b[f].state # "CLOSED")
    BY <2>3, <2>5
  <2>7. call' \in [Actor -> CallState]
    BY <1>0, <2>6
  <2>8. Claimed(b[f]) \in Entry /\ SlotOK(Claimed(b[f]))
        /\ (Claimed(b[f]).probing => b[f].state # "CLOSED")
    BY <2>2, ClaimedIsAnEntry
  <2>9. breaker' \in [Feed -> Entry]
    BY <2>1, <2>8
  <2>10. Placed'
    BY <1>0, <2>2, <2>6 DEF Placed
  <2>11. SlotHasAHolder'
    <3> SUFFICES ASSUME NEW g \in Feed
                 PROVE  /\ SlotOK(breaker'[g])
                        /\ breaker'[g].probing => \E o \in Actor : Holds(o, g)'
      BY DEF SlotHasAHolder, SlotOK, Holds
    <3>1. CASE g = f
      <4>1. breaker'[g] = Claimed(b[f])
        BY <2>1, <2>2, <3>1
      <4>2. breaker'[g].probing => Holds(a, g)'
        BY <1>0, <2>6, <2>8, <3>1, <4>1 DEF Holds
      <4> QED BY <2>8, <4>1, <4>2
    <3>2. CASE g # f
      <4>1. breaker'[g] = b[g]
        BY <2>1, <2>2, <3>2
      <4>2. ASSUME NEW o \in Actor, o # a, Holds(o, g) PROVE Holds(o, g)'
        BY <1>0, <2>6, <4>2 DEF Holds
      <4> QED BY <4>1, <4>2
    <3> QED BY <3>1, <3>2
  <2> QED BY <2>5, <2>7, <2>9, <2>10, <2>11
<1>2. CASE breaker' = b /\ Put(a, Idle) /\ UNCHANGED <<auth, login>>
  <2>1. Idle \in CallState /\ Idle.pc = "idle" /\ Idle.on = NoLogin
    BY DEF Idle, CallState, FeedErrorCode
  <2>2. call' = [call EXCEPT ![a] = Idle]
    BY <1>2 DEF Put
  <2>3. call' \in [Actor -> CallState]
    BY <1>0, <2>1, <2>2
  <2>4. Placed'
    BY <1>0, <2>1, <2>2 DEF Placed
  <2>5. SlotHasAHolder'
    <3>1. ASSUME NEW g \in Feed, NEW o \in Actor, o # a, Holds(o, g) PROVE Holds(o, g)'
      BY <1>0, <2>2, <3>1 DEF Holds
    <3> QED BY <1>2, <3>1 DEF SlotHasAHolder, SlotOK, Holds
  <2>6. OneLogin'
    <3>1. Flights' /\ \A o \in Actor : WaitsForIt(call[o])
      BY <1>2, OneLoginParts DEF Flights
    <3>2. ASSUME NEW o \in Actor PROVE WaitsForIt(call[o])'
      <4>1. CASE o = a
        BY <1>0, <2>1, <2>2, <4>1 DEF WaitsForIt
      <4>2. CASE o # a
        BY <1>0, <1>2, <2>2, <3>1, <4>2 DEF WaitsForIt
      <4> QED BY <4>1, <4>2
    <3> QED BY <3>1, <3>2, OneLoginParts
  <2> QED BY <1>0, <1>2, <2>3, <2>4, <2>5, <2>6
<1> QED BY <1>1, <1>2 DEF Walk

(* The same for an actor whose turn on its feed ends with the entry e there.     *)
LEMMA TurnIsSound ==
  ASSUME Inv, NEW a \in Actor, call[a].pc # "idle", NEW i \in Nat,
         NEW e \in Entry, SlotOK(e), ~e.probing,
         Walk(a, call[a].can, i, [breaker EXCEPT ![call[a].at] = e]),
         forgotten' = forgotten, beside' = beside
  PROVE  /\ breaker' \in [Feed -> Entry] /\ auth' \in [Feed -> AuthState]
         /\ login' \in [Login -> Feed \cup {0}] /\ call' \in [Actor -> CallState]
         /\ Placed' /\ SlotHasAHolder' /\ OneLogin'
<1> DEFINE b == [breaker EXCEPT ![call[a].at] = e]
<1>0. breaker \in [Feed -> Entry] /\ call[a].can \in SUBSET Feed /\ call[a].at \in Feed
  BY DEF Inv, TypeOK, Entry, Placed
<1>1. b \in [Feed -> Entry]
  BY <1>0
<1>2. \A f \in Feed : SlotOK(b[f])
  BY <1>0 DEF Inv, SlotHasAHolder, SlotOK
<1>3. \A f \in Feed : b[f].probing => \E o \in Actor : o # a /\ Holds(o, f)
  BY <1>0 DEF Inv, SlotHasAHolder, Holds
<1>4. Walk(a, call[a].can, i, b)
  OBVIOUS
<1> HIDE DEF b
<1> QED BY <1>0, <1>1, <1>2, <1>3, <1>4, WalkIsSound DEF Inv

--------------------------------------------------------------------------------
(* One lemma per action.                                                        *)
LEMMA TypedParts ==
  TypeOK <=> /\ breaker \in [Feed -> Entry] /\ auth \in [Feed -> AuthState]
             /\ session \subseteq Feed /\ login \in [Login -> Feed \cup {0}]
             /\ forgotten \subseteq Login /\ beside \subseteq Login /\ streaming \subseteq Streams
             /\ call \in [Actor -> CallState] /\ outs \in 0..MaxOuts
BY DEF TypeOK, Entry, AuthState, CallState

LEMMA TypedPartsNext ==
  TypeOK' <=> /\ breaker' \in [Feed -> Entry] /\ auth' \in [Feed -> AuthState]
              /\ session' \subseteq Feed /\ login' \in [Login -> Feed \cup {0}]
              /\ forgotten' \subseteq Login /\ beside' \subseteq Login /\ streaming' \subseteq Streams
              /\ call' \in [Actor -> CallState] /\ outs' \in 0..MaxOuts
BY DEF TypeOK, Entry, AuthState, CallState

LEMMA StartsAreSound ==
  ASSUME Inv, NEW a \in Actor, Request(a) \/ Probe(a)
  PROVE  Inv'
<1>1. /\ call[a].pc = "idle" /\ UNCHANGED <<session, forgotten, beside, streaming, outs>>
      /\ \E can \in SUBSET Feed : Walk(a, can, 0, breaker)
  BY NodeFeedsAssumption DEF Request, Probe, Feed
<1>2. PICK can \in SUBSET Feed : Walk(a, can, 0, breaker)
  BY <1>1
<1>3. breaker \in [Feed -> Entry] /\ \A f \in Feed : SlotOK(breaker[f])
  BY TypedParts DEF Inv, SlotHasAHolder, SlotOK
<1>4. \A f \in Feed : breaker[f].probing => \E o \in Actor : o # a /\ Holds(o, f)
  BY <1>1 DEF Inv, SlotHasAHolder, Holds
<1>5. /\ breaker' \in [Feed -> Entry] /\ auth' \in [Feed -> AuthState]
      /\ login' \in [Login -> Feed \cup {0}] /\ call' \in [Actor -> CallState]
      /\ Placed' /\ SlotHasAHolder' /\ OneLogin'
  BY <1>1, <1>2, <1>3, <1>4, WalkIsSound, 0 \in Nat DEF Inv
<1> QED BY <1>1, <1>5, TypedParts, TypedPartsNext DEF Inv

LEMMA AnswersAreSound ==
  ASSUME Inv, NEW a \in Actor, Answered(a)
  PROVE  Inv'
<1> DEFINE e == recordSuccess(breaker[call[a].at])
           i == IF a \in Caller THEN NFeeds ELSE call[a].at
<1>1. call[a].pc # "idle" /\ UNCHANGED <<session, forgotten, beside, streaming, outs>>
  BY DEF Answered
<1>2. call[a].at \in Feed /\ breaker[call[a].at] \in Entry
  BY <1>1, TypedParts DEF Inv, Placed
<1>3. e \in Entry /\ SlotOK(e) /\ ~e.probing
  BY <1>2, SuccessIsAnEntry
<1>4. i \in Nat
  BY <1>2, NodeFeedsAssumption DEF Feed
<1>5. Walk(a, call[a].can, i, [breaker EXCEPT ![call[a].at] = e])
  BY DEF Answered
<1> HIDE DEF e, i
<1>6. /\ breaker' \in [Feed -> Entry] /\ auth' \in [Feed -> AuthState]
      /\ login' \in [Login -> Feed \cup {0}] /\ call' \in [Actor -> CallState]
      /\ Placed' /\ SlotHasAHolder' /\ OneLogin'
  BY <1>1, <1>3, <1>4, <1>5, TurnIsSound
<1> QED BY <1>1, <1>6, TypedParts, TypedPartsNext DEF Inv

LEMMA FailuresAreSound ==
  ASSUME Inv, NEW a \in Actor, Fails(a)
  PROVE  Inv'
<1>1. PICK code \in Code :
        /\ Error(a, code)
        /\ Walk(a, call[a].can, IF GoesOn(a, code) THEN call[a].at ELSE NFeeds,
                [breaker EXCEPT ![call[a].at] = IF Counts(a, code) THEN recordFailure(@) ELSE recordSuccess(@)])
        /\ session' \subseteq session /\ streaming' \subseteq streaming
  BY DEF Fails, Drop
<1> DEFINE e == IF Counts(a, code) THEN recordFailure(breaker[call[a].at])
                                   ELSE recordSuccess(breaker[call[a].at])
           i == IF GoesOn(a, code) THEN call[a].at ELSE NFeeds
<1>2. call[a].pc # "idle" /\ UNCHANGED <<forgotten, beside, outs>>
  BY <1>1 DEF Fails, Error
<1>3. /\ call[a].at \in Feed /\ breaker[call[a].at] \in Entry
      /\ SlotOK(breaker[call[a].at])
  BY <1>2, TypedParts DEF Inv, Placed, SlotHasAHolder, SlotOK
<1>4. e \in Entry /\ SlotOK(e) /\ ~e.probing
  BY <1>3, SuccessIsAnEntry, FailureIsAnEntry
<1>5. i \in Nat
  BY <1>3, NodeFeedsAssumption DEF Feed
<1>6. Walk(a, call[a].can, i, [breaker EXCEPT ![call[a].at] = e])
  BY <1>1
<1> HIDE DEF e, i
<1>7. /\ breaker' \in [Feed -> Entry] /\ auth' \in [Feed -> AuthState]
      /\ login' \in [Login -> Feed \cup {0}] /\ call' \in [Actor -> CallState]
      /\ Placed' /\ SlotHasAHolder' /\ OneLogin'
  BY <1>2, <1>4, <1>5, <1>6, TurnIsSound
<1>8. session' \subseteq Feed /\ streaming' \subseteq Streams
  BY <1>1, TypedParts DEF Inv
<1> QED BY <1>2, <1>7, <1>8, TypedParts, TypedPartsNext DEF Inv

(* What leaves an actor in its turn, on its feed, with its claim.               *)
SameTurn(o) ==
  /\ call'[o].at = call[o].at /\ call'[o].claim = call[o].claim
  /\ call'[o].pc = "idle" <=> call[o].pc = "idle"
  /\ call'[o].pc = "idle" => call'[o].on = call[o].on

LEMMA RejectionsAreSound ==
  ASSUME Inv, NEW a \in Actor, Rejected(a)
  PROVE  Inv'
<1> DEFINE d == [call[a] EXCEPT !.pc = "dropped"]
<1>1. /\ call[a].pc # "idle" /\ call' = [call EXCEPT ![a] = d]
      /\ session' \subseteq session /\ streaming' \subseteq streaming
      /\ UNCHANGED <<breaker, auth, login, forgotten, beside, outs>>
  BY DEF Rejected, Put, Drop
<1>2. call \in [Actor -> CallState]
  BY TypedParts DEF Inv
<1>3. /\ d \in CallState /\ d.pc # "idle" /\ d.at = call[a].at /\ d.claim = call[a].claim
      /\ d.on = call[a].on
  BY <1>2 DEF CallState
<1> HIDE DEF d
<1>4. \A o \in Actor : SameTurn(o) /\ call'[o].on = call[o].on
  BY <1>1, <1>2, <1>3 DEF SameTurn
<1>5. TypeOK'
  BY <1>1, <1>2, <1>3, TypedParts, TypedPartsNext DEF Inv
<1>6. Placed' /\ SlotHasAHolder' /\ OneLogin'
  BY <1>1, <1>4 DEF Inv, Placed, SlotHasAHolder, OneLogin, SameTurn
<1> QED BY <1>5, <1>6 DEF Inv

LEMMA ReloginsAreSound ==
  ASSUME Inv, NEW a \in Actor, Relogin(a)
  PROVE  Inv'
<1> DEFINE c == [call[a] EXCEPT !.pc = "rerun"]
<1>1. /\ call[a].pc = "dropped" /\ ensureConnected(a, c)
      /\ UNCHANGED <<breaker, session, forgotten, beside, streaming, outs>>
  BY DEF Relogin
<1>2. call \in [Actor -> CallState] /\ call[a].at \in Feed
  BY <1>1, TypedParts DEF Inv, Placed
<1>3. /\ c \in CallState /\ c.pc = "rerun" /\ c.at = call[a].at /\ c.claim = call[a].claim
      /\ c.on = call[a].on
  BY <1>2 DEF CallState
<1> HIDE DEF c
<1>a. WaitsForIt(c)
  BY <1>3 DEF Inv, OneLogin, WaitsForIt
<1>4. /\ auth' \in [Feed -> AuthState]
      /\ login' \in [Login -> Feed \cup {0}]
      /\ OneLogin'
      /\ \E d \in CallState : /\ call' = [call EXCEPT ![a] = d]
                              /\ d.pc # "idle" /\ d.at = c.at /\ d.claim = c.claim
  BY <1>1, <1>2, <1>3, <1>a, ConnectingIsSound DEF Inv
<1>5. PICK d \in CallState : /\ call' = [call EXCEPT ![a] = d] /\ d.pc # "idle"
                             /\ d.at = call[a].at /\ d.claim = call[a].claim
  BY <1>3, <1>4
<1>6. \A o \in Actor : SameTurn(o)
  BY <1>1, <1>2, <1>5 DEF SameTurn
<1>7. TypeOK'
  BY <1>1, <1>2, <1>4, <1>5, TypedParts, TypedPartsNext DEF Inv
<1>8. Placed' /\ SlotHasAHolder'
  BY <1>1, <1>6 DEF Inv, Placed, SlotHasAHolder, SameTurn
<1> QED BY <1>4, <1>7, <1>8 DEF Inv

LEMMA LoginsAreSound ==
  ASSUME Inv, NEW l \in Login, LoginEnds(l)
  PROVE  Inv'
<1> DEFINE f == login[l]
           mine == auth[f].flight = l
           n == IF auth[f].failures < Len(Ladder) THEN auth[f].failures + 1 ELSE auth[f].failures
           Lost(o) == call'[o].on = NoLogin \/ (call'[o].on = call[o].on /\ call[o].on # l)
<1> USE NodeFeedsAssumption
<1>0. /\ auth \in [Feed -> AuthState] /\ login \in [Login -> Feed \cup {0}]
      /\ call \in [Actor -> CallState] /\ session \subseteq Feed
  BY TypedParts DEF Inv
<1>1. /\ f \in Feed /\ login' = [login EXCEPT ![l] = 0] /\ forgotten' = forgotten \ {l}
      /\ beside' = beside \ {l} /\ UNCHANGED <<breaker, streaming, outs>>
  BY <1>0 DEF LoginEnds
<1>2. n \in 1..Len(Ladder)
  BY <1>0, <1>1 DEF AuthState
<1>3. Rung(n) \in Nat
  BY <1>2 DEF Rung
<1>4. NewAuth \in AuthState /\ [flight |-> NoLogin, failures |-> n, wait |-> Rung(n)] \in AuthState
  BY <1>2, <1>3 DEF NewAuth, AuthState
<1>5. \/ auth' = auth
      \/ /\ mine
         /\ \E s \in AuthState : auth' = [auth EXCEPT ![f] = s]
  BY <1>4 DEF LoginEnds
<1>6. auth' \in [Feed -> AuthState] /\ \A g \in Feed : auth'[g] = auth[g] \/ (mine /\ g = f)
  BY <1>0, <1>1, <1>5
<1>7. /\ call' \in [Actor -> CallState]
      /\ \A o \in Actor : SameTurn(o) /\ Lost(o)
  <2>1. CASE call' = [a \in Actor |-> IF call[a].on # l THEN call[a]
                        ELSE [call[a] EXCEPT !.on = NoLogin,
                                !.pc = IF call[a].pc = "login" THEN "run" ELSE "rerun"]]
    <3> SUFFICES ASSUME NEW o \in Actor PROVE call'[o] \in CallState /\ SameTurn(o) /\ Lost(o)
      BY <2>1
    <3>1. CASE call[o].on # l
      BY <1>0, <2>1, <3>1 DEF SameTurn, Lost
    <3>2. CASE call[o].on = l
      <4>1. call[o].pc # "idle"
        BY <3>2 DEF Inv, Placed
      <4>2. call'[o] = [call[o] EXCEPT !.on = NoLogin,
                                       !.pc = IF call[o].pc = "login" THEN "run" ELSE "rerun"]
        BY <2>1, <3>2
      <4>3. call[o] \in CallState
        BY <1>0
      <4>4. call'[o] \in CallState
        BY <4>2, <4>3 DEF CallState
      <4> QED BY <4>1, <4>2, <4>3, <4>4 DEF CallState, SameTurn, Lost
    <3> QED BY <3>1, <3>2
  <2>2. ASSUME NEW code \in Code,
               call' = [a \in Actor |-> IF call[a].on # l THEN call[a]
                          ELSE [call[a] EXCEPT !.on = NoLogin, !.pc = "failed", !.code = code]]
        PROVE  /\ call' \in [Actor -> CallState]
               /\ \A o \in Actor : SameTurn(o) /\ Lost(o)
    <3> SUFFICES ASSUME NEW o \in Actor PROVE call'[o] \in CallState /\ SameTurn(o) /\ Lost(o)
      BY <2>2
    <3>1. CASE call[o].on # l
      BY <1>0, <2>2, <3>1 DEF SameTurn, Lost
    <3>2. CASE call[o].on = l
      <4>1. call[o].pc # "idle"
        BY <3>2 DEF Inv, Placed
      <4>2. call'[o] = [call[o] EXCEPT !.on = NoLogin, !.pc = "failed", !.code = code]
        BY <2>2, <3>2
      <4>3. call[o] \in CallState
        BY <1>0
      <4>4. call'[o] \in CallState
        BY <4>2, <4>3 DEF CallState
      <4> QED BY <4>1, <4>2, <4>3, <4>4 DEF CallState, SameTurn, Lost
    <3> QED BY <3>1, <3>2
  <2> QED BY <2>1, <2>2 DEF LoginEnds
<1>8. session' \subseteq Feed
  BY <1>0, <1>1 DEF LoginEnds
<1>9. TypeOK'
  BY <1>0, <1>1, <1>6, <1>7, <1>8, TypedParts, TypedPartsNext DEF Inv
<1>10. Placed' /\ SlotHasAHolder'
  <2>1. Placed'
    BY <1>7 DEF Inv, Placed, SameTurn
  <2>2. SlotHasAHolder'
    BY <1>1, <1>7 DEF Inv, SlotHasAHolder, SameTurn
  <2> QED BY <2>1, <2>2
<1> HIDE DEF f, mine
<1>11. Flights'
  <2> SUFFICES ASSUME NEW m \in Login, login'[m] # 0
               PROVE  auth'[login'[m]].flight = m \/ m \in forgotten' \/ m \in beside'
    BY DEF Flights
  <2>1. m # l /\ login'[m] = login[m] /\ login[m] \in Feed
    BY <1>0, <1>1
  <2>2. auth[login[m]].flight = m \/ m \in forgotten \/ m \in beside
    BY <2>1, OneLoginParts DEF Inv, Flights
  <2> QED BY <1>1, <1>6, <2>1, <2>2 DEF f, mine
<1>12. ASSUME NEW o \in Actor PROVE WaitsForIt(call[o])'
  <2> SUFFICES ASSUME call'[o].on # NoLogin
               PROVE  auth'[call'[o].at].flight = call'[o].on \/ call'[o].on \in forgotten'
    BY DEF WaitsForIt
  <2>1. call'[o].on = call[o].on /\ call[o].on # l /\ call'[o].at = call[o].at
    BY <1>7 DEF SameTurn
  <2>2. auth[call[o].at].flight = call[o].on \/ call[o].on \in forgotten
    BY <2>1 DEF Inv, OneLogin
  <2>3. call[o].at \in Feed
    BY <2>1 DEF Inv, Placed
  <2> QED BY <1>1, <1>6, <2>1, <2>2, <2>3 DEF mine
<1>13. OneLogin'
  BY <1>11, <1>12, OneLoginParts
<1> QED BY <1>9, <1>10, <1>13 DEF Inv

LEMMA SignOutsAreSound ==
  ASSUME Inv, NEW f \in Feed, signOut(f)
  PROVE  Inv'
<1> USE NodeFeedsAssumption
<1>0. /\ auth \in [Feed -> AuthState] /\ login \in [Login -> Feed \cup {0}]
      /\ session \subseteq Feed /\ forgotten \subseteq Login /\ streaming \subseteq Streams /\ outs \in 0..MaxOuts
  BY TypedParts DEF Inv
<1>1. auth' \in [Feed -> AuthState] /\ auth[f].flight \in Login \cup {NoLogin}
  BY <1>0 DEF signOut, NewAuth, AuthState
<1>2. TypeOK'
  <2>1. /\ session' \subseteq Feed /\ streaming' \subseteq Streams /\ forgotten' \subseteq Login
    BY <1>0, <1>1 DEF signOut, Drop
  <2>2. outs' \in 0..MaxOuts /\ UNCHANGED <<breaker, login, beside, call>>
    BY <1>0 DEF signOut
  <2> QED BY <1>0, <1>1, <2>1, <2>2, TypedParts, TypedPartsNext DEF Inv
<1>3. Placed' /\ SlotHasAHolder'
  BY DEF Inv, signOut, Placed, SlotHasAHolder
<1>4. /\ call' = call /\ login' = login /\ beside' = beside
      /\ forgotten' = forgotten \cup ({auth[f].flight} \ {NoLogin})
      /\ \A g \in Feed : g # f => auth'[g] = auth[g]
  BY <1>0 DEF signOut
<1>5. Flights'
  <2> SUFFICES ASSUME NEW m \in Login, login[m] # 0
               PROVE  auth'[login[m]].flight = m \/ m \in forgotten' \/ m \in beside
    BY <1>4 DEF Flights
  <2>1. login[m] \in Feed
    BY <1>0
  <2>2. auth[login[m]].flight = m \/ m \in forgotten \/ m \in beside
    BY OneLoginParts DEF Inv, Flights
  <2> QED BY <1>4, <2>1, <2>2, NodeFeedsAssumption
<1>6. ASSUME NEW o \in Actor PROVE WaitsForIt(call[o])'
  <2> SUFFICES ASSUME call[o].on # NoLogin
               PROVE  auth'[call[o].at].flight = call[o].on \/ call[o].on \in forgotten'
    BY <1>4 DEF WaitsForIt
  <2>1. call[o].at \in Feed
    BY DEF Inv, Placed
  <2>2. auth[call[o].at].flight = call[o].on \/ call[o].on \in forgotten
    BY DEF Inv, OneLogin
  <2> QED BY <1>4, <2>1, <2>2
<1>7. OneLogin'
  BY <1>5, <1>6, OneLoginParts
<1> QED BY <1>2, <1>3, <1>7 DEF Inv

LEMMA ResetsAreSound ==
  ASSUME Inv, NEW f \in Feed, reset(f)
  PROVE  Inv'
<1>1. NewEntry \in Entry /\ ~NewEntry.probing /\ NewEntry.state # "HALF_OPEN"
  BY NodeFeedsAssumption DEF NewEntry, Entry
<1>2. /\ breaker \in [Feed -> Entry] /\ breaker' = [breaker EXCEPT ![f] = NewEntry]
      /\ UNCHANGED <<auth, session, login, forgotten, beside, streaming, call, outs>>
  BY TypedParts DEF Inv, reset
<1>3. TypeOK'
  BY <1>1, <1>2, TypedParts, TypedPartsNext DEF Inv
<1>4. Placed' /\ SlotHasAHolder' /\ OneLogin'
  BY <1>1, <1>2 DEF Inv, Placed, SlotHasAHolder, OneLogin
<1> QED BY <1>3, <1>4 DEF Inv

LEMMA TicksAreSound ==
  ASSUME Inv, Tick
  PROVE  Inv'
<1>0. breaker \in [Feed -> Entry] /\ auth \in [Feed -> AuthState]
  BY TypedParts DEF Inv
<1>1. /\ breaker' = [f \in Feed |-> [breaker[f] EXCEPT !.left = Less(@)]]
      /\ auth' = [f \in Feed |-> [auth[f] EXCEPT !.wait = Less(@)]]
      /\ UNCHANGED <<session, login, forgotten, beside, streaming, call, outs>>
  BY DEF Tick
<1>2. \A f \in Feed : /\ breaker'[f] \in Entry /\ breaker'[f].probing = breaker[f].probing
                      /\ breaker'[f].state = breaker[f].state
  <2> TAKE f \in Feed
  <2>1. Less(breaker[f].left) \in 0..CooldownMax
    BY <1>0, NodeFeedsAssumption DEF Less, Entry
  <2> QED BY <1>0, <1>1, <2>1 DEF Entry
<1>3. \A f \in Feed : auth'[f] \in AuthState /\ auth'[f].flight = auth[f].flight
  <2> TAKE f \in Feed
  <2>1. auth[f] \in AuthState
    BY <1>0
  <2>2. Less(auth[f].wait) \in Nat
    BY <2>1 DEF Less, AuthState
  <2> QED BY <1>1, <2>1, <2>2 DEF AuthState
<1>4. TypeOK'
  BY <1>1, <1>2, <1>3, TypedParts, TypedPartsNext DEF Inv
<1>5. Placed' /\ SlotHasAHolder'
  BY <1>1, <1>2 DEF Inv, Placed, SlotHasAHolder
<1>6. OneLogin'
  <2>1. login \in [Login -> Feed \cup {0}]
    BY TypedParts DEF Inv
  <2>2. Flights'
    BY <1>1, <1>3, <2>1 DEF Inv, OneLogin, Flights
  <2>3. \A o \in Actor : WaitsForIt(call[o])'
    BY <1>1, <1>3, OneLoginParts, WaitsOn DEF Inv
  <2> QED BY <2>2, <2>3, OneLoginParts
<1> QED BY <1>4, <1>5, <1>6 DEF Inv

LEMMA StreamsAreSound ==
  ASSUME Inv, NEW f \in Feed, Subscribed(f) \/ Unsubscribed(f) \/ reauthenticate(f)
  PROVE  Inv'
<1>0. /\ login \in [Login -> Feed \cup {0}] /\ beside \subseteq Login
      /\ streaming \subseteq Streams /\ session \subseteq Feed /\ outs \in 0..MaxOuts
  BY TypedParts DEF Inv
<1>1. CASE Subscribed(f) \/ Unsubscribed(f)
  <2>1. /\ UNCHANGED <<breaker, auth, session, login, forgotten, beside, call, outs>>
        /\ streaming' \subseteq Streams
    BY <1>0, <1>1 DEF Subscribed, Unsubscribed
  <2> QED BY <2>1, TypedParts, TypedPartsNext DEF Inv, Placed, SlotHasAHolder, OneLogin
<1>2. CASE reauthenticate(f)
  <2>1. PICK l \in Login : Starts(l, f) /\ beside' = beside \cup {l}
    BY <1>2 DEF reauthenticate
  <2>2. /\ login' = [login EXCEPT ![l] = f] /\ session' \subseteq session
        /\ UNCHANGED <<breaker, auth, forgotten, streaming, call>> /\ outs' \in 0..MaxOuts
    BY <1>0, <1>2, <2>1, NodeFeedsAssumption DEF reauthenticate, Starts
  <2>3. TypeOK'
    BY <1>0, <2>1, <2>2, TypedParts, TypedPartsNext DEF Inv
  <2>4. Placed' /\ SlotHasAHolder'
    BY <2>2 DEF Inv, Placed, SlotHasAHolder
  <2>5. OneLogin'
    BY <1>0, <2>1, <2>2 DEF Inv, OneLogin
  <2> QED BY <2>3, <2>4, <2>5 DEF Inv
<1> QED BY <1>1, <1>2

--------------------------------------------------------------------------------
LEMMA InitIsSound == Init => Inv
<1> SUFFICES ASSUME Init PROVE Inv
  OBVIOUS
<1>1. NewEntry \in Entry /\ ~NewEntry.probing /\ NewEntry.state # "HALF_OPEN"
  BY NodeFeedsAssumption DEF NewEntry, Entry
<1>2. NewAuth \in AuthState
  BY NodeFeedsAssumption DEF NewAuth, AuthState
<1>3. Idle \in CallState /\ Idle.pc = "idle" /\ Idle.on = NoLogin
  BY DEF Idle, CallState, FeedErrorCode
<1>4. TypeOK
  BY <1>1, <1>2, <1>3, NodeFeedsAssumption, TypedParts DEF Init
<1>5. Placed /\ SlotHasAHolder /\ OneLogin
  BY <1>1, <1>3 DEF Init, Placed, SlotHasAHolder, OneLogin
<1> QED BY <1>4, <1>5 DEF Inv

LEMMA StepIsSound == Inv /\ [Next]_vars => Inv'
<1> SUFFICES ASSUME Inv, [Next]_vars PROVE Inv'
  OBVIOUS
<1>1. ASSUME NEW a \in Actor, Request(a) \/ Probe(a) PROVE Inv'
  BY <1>1, StartsAreSound
<1>2. ASSUME NEW a \in Actor, Continue(a) PROVE Inv'
  BY <1>2, AnswersAreSound, RejectionsAreSound, ReloginsAreSound, FailuresAreSound
  DEF Continue
<1>3. ASSUME NEW l \in Login, LoginEnds(l) PROVE Inv'
  BY <1>3, LoginsAreSound
<1>4. ASSUME NEW f \in Feed, signOut(f) \/ reset(f) PROVE Inv'
  BY <1>4, SignOutsAreSound, ResetsAreSound
<1>5. CASE Tick
  BY <1>5, TicksAreSound
<1>7. ASSUME NEW f \in Feed, Subscribed(f) \/ Unsubscribed(f) \/ reauthenticate(f) PROVE Inv'
  BY <1>7, StreamsAreSound
<1>6. CASE UNCHANGED vars
  BY <1>6 DEF vars, Inv, TypeOK, Placed, SlotHasAHolder, OneLogin
<1> QED BY <1>1, <1>2, <1>3, <1>4, <1>5, <1>6, <1>7 DEF Next

(* The inductive invariant: every call's place in its walk agrees with the breaker *)
(* and the login it waits on (router.ts 128-205, authManager.ts 54-128).          *)
THEOREM InvHolds == Spec => []Inv
BY InitIsSound, StepIsSound, PTL DEF Spec

(* The probe slot of a feed is taken exactly while its breaker is HALF_OPEN, and *)
(* then somebody let through on probation is on the feed, who will give it back  *)
(* (breaker.ts 70-122).                                                         *)
THEOREM SlotHasAHolderHolds == Spec => []SlotHasAHolder
BY InvHolds, PTL DEF Inv

(* Beside the login a feed's callers are given there is in flight only what a     *)
(* signOut has forgotten or a stream has started, and nobody waits for a          *)
(* stream's (authManager.ts 79-104, angel/index.ts 191-197).                     *)
THEOREM OneLoginHolds == Spec => []OneLogin
BY InvHolds, PTL DEF Inv

--------------------------------------------------------------------------------
(* BrokerStream: a stream that is wanted has one way forward.                    *)

StreamState == [phase : {"open", "stopped", "closed"}, ws : Socket \cup {NoSocket},
                retryTimer : BOOLEAN, ping : BOOLEAN, retries : Nat, due : BOOLEAN, relogin : BOOLEAN]

(* The fields of a stream that has one thing under way if it is open, else none.   *)
OneWay(st) ==
  /\ st \in StreamState
  /\ st.phase # "open" => st.ws = NoSocket /\ ~st.retryTimer /\ ~st.relogin
  /\ st.phase = "open" =>
       \/ st.ws # NoSocket /\ ~st.retryTimer /\ ~st.relogin
       \/ st.ws = NoSocket /\ st.retryTimer /\ ~st.relogin
       \/ st.ws = NoSocket /\ ~st.retryTimer /\ st.relogin

SockState == [Socket -> {"gone", "erred", "dialing", "open", "accepted"}]

StreamSound ==
  /\ OneWay(stream) /\ sock \in SockState
  /\ \A s \in Socket : Alive(s) => s = stream.ws

Accepted == stream.ws # NoSocket /\ sock[stream.ws] = "accepted"

BrokerInv ==
  /\ StreamSound
  /\ topics \in [Topic -> Key \cup {NoKey}] /\ assign \in [Key -> Topic]
  /\ TopicsAreCurrent

--------------------------------------------------------------------------------
(* The helpers.                                                                  *)
LEMMA RetryIsDue ==
  ASSUME NEW st \in StreamState, st.phase = "open", st.ws = NoSocket, ~st.relogin
  PROVE  OneWay(scheduleReconnect(st)) /\ scheduleReconnect(st).ws = NoSocket
<1>1. CASE st.retryTimer
  BY <1>1 DEF OneWay, scheduleReconnect
<1>2. CASE ~st.retryTimer
  <2> DEFINE r == IF st.retries < ReauthAfter THEN st.retries + 1 ELSE st.retries
             a == [st EXCEPT !.retryTimer = TRUE]
             b == [a EXCEPT !.retries = r]
  <2>1. r \in Nat /\ a \in StreamState
    <3>1. st.retries \in Nat /\ st.retries + 1 \in Nat
      BY DEF StreamState
    <3>2. a \in StreamState
      BY DEF StreamState
    <3> QED
      BY <3>1, <3>2
  <2> HIDE DEF r
  <2>2. b \in StreamState /\ b.phase = "open" /\ b.ws = NoSocket /\ b.retryTimer /\ ~b.relogin
    BY <2>1 DEF StreamState
  <2>3. scheduleReconnect(st) = b
    BY <1>2 DEF scheduleReconnect, r
  <2> HIDE DEF b
  <2> QED
    BY <2>2, <2>3 DEF OneWay
<1> QED
  BY <1>1, <1>2

LEMMA DownIsDue ==
  ASSUME NEW st \in StreamState, st.phase = "open", ~st.relogin
  PROVE  OneWay(Down(st)) /\ Down(st).ws = NoSocket
<1> DEFINE a == [st EXCEPT !.ws = NoSocket]
           b == [a EXCEPT !.ping = FALSE]
<1>1. a \in StreamState
  BY DEF StreamState
<1>2. b \in StreamState /\ b.phase = "open" /\ b.ws = NoSocket /\ ~b.relogin
  BY <1>1 DEF StreamState
<1>3. Down(st) = scheduleReconnect(b)
  BY DEF Down
<1> HIDE DEF b
<1> QED
  BY <1>2, <1>3, RetryIsDue

LEMMA ClosedIsAtRest ==
  ASSUME NEW st \in StreamState
  PROVE  OneWay(Closed(st)) /\ Closed(st).ws = NoSocket /\ Closed(st) \in StreamState
         /\ Closed(st).phase = "closed"
<1> DEFINE a == [st EXCEPT !.phase = "closed"]
           b == [a EXCEPT !.ws = NoSocket]
           c == [b EXCEPT !.retryTimer = FALSE]
           d == [c EXCEPT !.ping = FALSE]
           e == [d EXCEPT !.relogin = FALSE]
<1>1. a \in StreamState /\ a.phase = "closed"
  BY DEF StreamState
<1>2. b \in StreamState /\ b.phase = "closed" /\ b.ws = NoSocket
  BY <1>1 DEF StreamState
<1> HIDE DEF b
<1>3. c \in StreamState /\ c.phase = "closed" /\ c.ws = NoSocket /\ ~c.retryTimer
  BY <1>2 DEF StreamState
<1> HIDE DEF c
<1>4. d \in StreamState /\ d.phase = "closed" /\ d.ws = NoSocket /\ ~d.retryTimer
  BY <1>3 DEF StreamState
<1> HIDE DEF d
<1>5. e \in StreamState /\ e.phase = "closed" /\ e.ws = NoSocket /\ ~e.retryTimer /\ ~e.relogin
  BY <1>4 DEF StreamState
<1>6. Closed(st) = e
  BY DEF Closed, b, c, d
<1> HIDE DEF e
<1> QED
  BY <1>5, <1>6 DEF OneWay

(* A stream with nothing under way dials: the one socket that lives is its own.    *)
LEMMA DialSound ==
  ASSUME NEW st \in StreamState, Dial(st), sock \in SockState,
         st.phase = "open", ~st.retryTimer, ~st.relogin,
         \A s \in Socket : ~Alive(s)
  PROVE  StreamSound' /\ ~Accepted'
<1>1. PICK s \in Socket : sock' = [sock EXCEPT ![s] = "dialing"] /\ stream' = [st EXCEPT !.ws = s]
  BY DEF Dial, Set
<1>2. stream' \in StreamState /\ stream'.ws = s /\ stream'.phase = "open"
      /\ ~stream'.retryTimer /\ ~stream'.relogin
  BY <1>1 DEF StreamState
<1>3. sock' \in SockState /\ sock'[s] = "dialing" /\ \A t \in Socket : t # s => sock'[t] = sock[t]
  BY <1>1 DEF SockState
<1> QED
  BY <1>2, <1>3, BrokerAssumption DEF StreamSound, OneWay, Alive, Accepted

LEMMA ConnectsSound ==
  ASSUME NEW st \in StreamState, Connects(st), sock \in SockState,
         st.phase = "open", st.ws = NoSocket, ~st.retryTimer, ~st.relogin,
         \A s \in Socket : ~Alive(s)
  PROVE  StreamSound' /\ ~Accepted'
<1>1. CASE Dial(st)
  BY <1>1, DialSound
<1>2. CASE stream' = scheduleReconnect(st) /\ sock' = sock
  <2>1. OneWay(stream') /\ stream'.ws = NoSocket
    BY <1>2, RetryIsDue
  <2> QED
    BY <1>2, <2>1 DEF StreamSound, Alive, Accepted
<1> QED
  BY <1>1, <1>2 DEF Connects, OrdersConnect, connect

(* The socket in use goes from alive to not, or stays, and the stream is as st.    *)
LEMMA SocketGone ==
  ASSUME StreamSound, NEW s \in Socket, NEW to \in {"gone", "erred"},
         sock' = [sock EXCEPT ![s] = to],
         \/ s # stream.ws /\ stream' = stream
         \/ s = stream.ws /\ OneWay(stream') /\ stream'.ws = NoSocket
  PROVE  StreamSound' /\ (Accepted' => Accepted)
<1>1. sock' \in SockState /\ sock'[s] = to /\ \A t \in Socket : t # s => sock'[t] = sock[t]
  BY DEF StreamSound, SockState
<1>2. OneWay(stream') /\ stream'.ws \in Socket \cup {NoSocket}
  BY DEF StreamSound, OneWay, StreamState
<1>3. \A t \in Socket : Alive(t)' => t = stream'.ws
  BY <1>1 DEF StreamSound, Alive
<1>4. Accepted' => Accepted
  BY <1>1, <1>2 DEF Accepted
<1> QED
  BY <1>1, <1>2, <1>3, <1>4 DEF StreamSound

(* An event of the socket in use that leaves it alive.                            *)
LEMMA SocketGoesOn ==
  ASSUME StreamSound, NEW s \in Socket, s = stream.ws, NEW to, to \in {"open", "accepted"},
         sock' = [sock EXCEPT ![s] = to], OneWay(stream'), stream'.ws = s
  PROVE  StreamSound'
  BY DEF StreamSound, Alive, SockState

--------------------------------------------------------------------------------
(* Steps that leave the ids of a Kotak stream alone, or forget them.              *)
LEMMA TopicsKept ==
  ASSUME BrokerInv, UNCHANGED kotak, StreamSound', Accepted' => Accepted
  PROVE  BrokerInv'
  BY DEF BrokerInv, TopicsAreCurrent, Accepted, kotak

LEMMA TopicsCleared ==
  ASSUME BrokerInv, topics' = [i \in Topic |-> NoKey], assign' \in [Key -> Topic], StreamSound'
  PROVE  BrokerInv'
  BY DEF BrokerInv, TopicsAreCurrent

LEMMA SubscribeSound ==
  ASSUME BrokerInv, subscribe
  PROVE  BrokerInv'
<1>1. PICK s \in Socket : /\ Hung(stream)[s] = "gone"
                          /\ sock' = [Hung(stream) EXCEPT ![s] = "dialing"]
                          /\ stream' = [NewStream EXCEPT !.ws = s]
  BY DEF subscribe
<1>2. Hung(stream) \in SockState /\ \A t \in Socket : Hung(stream)[t] \notin {"dialing", "open", "accepted"}
  BY DEF BrokerInv, StreamSound, Hung, Alive, SockState
<1>3. sock' \in SockState /\ sock'[s] = "dialing"
      /\ \A t \in Socket : t # s => sock'[t] \notin {"dialing", "open", "accepted"}
  BY <1>1, <1>2 DEF SockState
<1>4. OneWay(stream') /\ stream'.ws = s
  BY <1>1, BrokerAssumption DEF NewStream, OneWay, StreamState
<1>5. StreamSound'
  BY <1>3, <1>4 DEF StreamSound, Alive
<1> QED
  BY <1>5, TopicsCleared DEF subscribe, BrokerInv

LEMMA CloseSound ==
  ASSUME StreamSound, close
  PROVE  StreamSound' /\ ~Accepted'
<1>1. stream \in StreamState
  BY DEF StreamSound, OneWay
<1>2. OneWay(stream') /\ stream'.ws = NoSocket
  BY <1>1, ClosedIsAtRest DEF close
<1>3. sock' \in SockState /\ \A t \in Socket : sock'[t] \notin {"dialing", "open", "accepted"}
  BY DEF close, Hung, StreamSound, Alive, SockState
<1> QED
  BY <1>2, <1>3 DEF StreamSound, Alive, Accepted

LEMMA ClosingSound ==
  ASSUME BrokerInv, unsubscribe \/ IdleFires \/ \E s \in Socket : AuthRejected(s)
  PROVE  BrokerInv'
<1>1. CASE close /\ topics' = [i \in Topic |-> NoKey] /\ assign' = assign
  BY <1>1, CloseSound, TopicsCleared DEF BrokerInv
<1>2. CASE close /\ UNCHANGED kotak
  BY <1>2, CloseSound, TopicsKept DEF BrokerInv
<1>3. CASE UNCHANGED <<stream, sock>> /\ UNCHANGED kotak
  BY <1>3 DEF BrokerInv, StreamSound, Alive, TopicsAreCurrent, kotak
<1> QED
  BY <1>1, <1>2, <1>3 DEF unsubscribe, IdleFires, AuthRejected

LEMMA OpenedSound ==
  ASSUME BrokerInv, NEW s \in Socket, TicksOpened(s) \/ KotakOpened(s)
  PROVE  BrokerInv'
<1>1. /\ s = stream.ws /\ sock' = [sock EXCEPT ![s] = "open"] /\ UNCHANGED kotak
      /\ OneWay(stream) /\ sock \in SockState
      /\ \/ stream' = [stream EXCEPT !.retries = 0, !.ping = TRUE]
         \/ stream' = stream
  BY DEF TicksOpened, KotakOpened, Reports, Set, BrokerInv, StreamSound
<1>2. OneWay(stream') /\ stream'.ws = s
  <2> DEFINE a == [stream EXCEPT !.retries = 0]
             b == [a EXCEPT !.ping = TRUE]
  <2>1. a \in StreamState /\ a.phase = stream.phase /\ a.ws = stream.ws /\ a.retryTimer = stream.retryTimer
        /\ a.relogin = stream.relogin
    BY <1>1 DEF OneWay, StreamState
  <2> HIDE DEF a
  <2>2. b \in StreamState /\ b.phase = stream.phase /\ b.ws = stream.ws /\ b.retryTimer = stream.retryTimer
        /\ b.relogin = stream.relogin
    BY <2>1 DEF StreamState
  <2>3. stream' = stream \/ stream' = b
    BY <1>1 DEF a
  <2> HIDE DEF b
  <2> QED
    BY <1>1, <2>2, <2>3 DEF OneWay
<1>3. StreamSound'
  BY <1>1, <1>2, SocketGoesOn DEF BrokerInv
<1>4. ~Accepted'
  BY <1>1, <1>2 DEF Accepted, SockState
<1> QED
  BY <1>1, <1>3, <1>4, TopicsKept

LEMMA AckSound ==
  ASSUME BrokerInv, NEW s \in Socket, onConnectionAck(s)
  PROVE  BrokerInv'
<1>1. /\ s = stream.ws /\ sock' = [sock EXCEPT ![s] = "accepted"]
      /\ OneWay(stream) /\ sock \in SockState
      /\ stream' = [stream EXCEPT !.retries = 0]
      /\ topics' = [i \in Topic |-> NoKey] /\ assign' \in Injection(Key, Topic)
  BY DEF onConnectionAck, AckClearing, Reports, Set, BrokerInv, StreamSound
<1>2. OneWay(stream') /\ stream'.ws = s
  BY <1>1 DEF OneWay, StreamState
<1>3. StreamSound'
  BY <1>1, <1>2, SocketGoesOn DEF BrokerInv
<1>4. assign' \in [Key -> Topic]
  BY <1>1 DEF Injection
<1> QED
  BY <1>1, <1>3, <1>4, TopicsCleared

LEMMA SnapSound ==
  ASSUME BrokerInv, NEW k \in Key, Snap(k)
  PROVE  BrokerInv'
<1>1. StreamSound'
  BY DEF BrokerInv, StreamSound, Alive, Snap
<1>2. assign[k] \in Topic /\ topics' = [topics EXCEPT ![assign[k]] = k] /\ assign' = assign
  BY DEF BrokerInv, Snap
<1>3. topics' \in [Topic -> Key \cup {NoKey}]
  BY <1>2 DEF BrokerInv
<1>4. \A i \in Topic : topics'[i] # NoKey => assign[topics'[i]] = i
  BY <1>2 DEF BrokerInv, TopicsAreCurrent, Snap
<1> QED
  BY <1>1, <1>2, <1>3, <1>4 DEF BrokerInv, TopicsAreCurrent

LEMMA EndsSound ==
  ASSUME BrokerInv, NEW s \in Socket, Ends(s)
  PROVE  BrokerInv'
<1>1. PICK to \in {"gone", "erred"} : sock' = [sock EXCEPT ![s] = to]
  BY DEF Ends, SocketError, SocketClose, ErrorIf, CloseIf, Set
<1>2. stream' = (IF s = stream.ws THEN Down(stream) ELSE stream) /\ UNCHANGED kotak
  BY DEF Ends, SocketError, SocketClose, ErrorIf, CloseIf
<1>3. s = stream.ws => OneWay(stream') /\ stream'.ws = NoSocket
  BY <1>2, DownIsDue, BrokerAssumption DEF BrokerInv, StreamSound, OneWay
<1>4. StreamSound' /\ (Accepted' => Accepted)
  BY <1>1, <1>2, <1>3, SocketGone DEF BrokerInv
<1> QED
  BY <1>2, <1>4, TopicsKept

LEMMA RefusedSound ==
  ASSUME BrokerInv, NEW s \in Socket, Capped(s) \/ Unauthorised(s)
  PROVE  BrokerInv'
<1>0. stream \in StreamState /\ s = stream.ws /\ UNCHANGED kotak
      /\ stream.phase = "open" /\ ~stream.relogin /\ ~stream.retryTimer
  BY BrokerAssumption DEF BrokerInv, StreamSound, OneWay, Capped, Unauthorised, Alive
<1>1. PICK to \in {"gone", "erred"} : sock' = [sock EXCEPT ![s] = to]
  <2>1. sock \in SockState
    BY DEF BrokerInv, StreamSound
  <2>2. CASE sock' = [Hung(stream) EXCEPT ![s] = "gone"]
    <3>1. [Hung(stream) EXCEPT ![s] = "gone"] = [sock EXCEPT ![s] = "gone"]
      BY <1>0, <2>1 DEF Hung, SockState
    <3> QED BY <2>2, <3>1
  <2>3. CASE Set(s, "erred")
    BY <2>3 DEF Set
  <2> QED BY <2>2, <2>3 DEF Capped, Unauthorised
<1>2. OneWay(stream') /\ stream'.ws = NoSocket
  <2>1. CASE stream' = [stream EXCEPT !.phase = "stopped", !.ws = NoSocket, !.ping = FALSE]
    <3> DEFINE d == [stream EXCEPT !.phase = "stopped", !.ws = NoSocket, !.ping = FALSE]
    <3>1. /\ d \in StreamState /\ d.phase = "stopped" /\ d.ws = NoSocket
          /\ ~d.retryTimer /\ ~d.relogin
      BY <1>0 DEF StreamState
    <3> HIDE DEF d
    <3> QED
      BY <2>1, <3>1 DEF OneWay, d
  <2>2. CASE stream' = Down([stream EXCEPT !.due = TRUE])
    <3>1. /\ [stream EXCEPT !.due = TRUE] \in StreamState /\ [stream EXCEPT !.due = TRUE].phase = "open"
          /\ ~[stream EXCEPT !.due = TRUE].relogin
      BY <1>0 DEF StreamState
    <3> QED
      BY <2>2, <3>1, DownIsDue
  <2> QED
    BY <2>1, <2>2 DEF Capped, Unauthorised
<1>3. StreamSound' /\ (Accepted' => Accepted)
  BY <1>0, <1>1, <1>2, SocketGone DEF BrokerInv
<1> QED
  BY <1>0, <1>3, TopicsKept

(* A retry timer fires, or a login ends.                                         *)
LEMMA ProceedsSound ==
  ASSUME BrokerInv, Redial \/ reconnect \/ ReloginEnds
  PROVE  BrokerInv'
<1>1. /\ OneWay(stream) /\ stream \in StreamState /\ sock \in SockState /\ UNCHANGED kotak
      /\ stream.phase = "open" /\ stream.ws = NoSocket
      /\ \A s \in Socket : ~Alive(s)
  BY BrokerAssumption DEF BrokerInv, StreamSound, OneWay, Redial, reconnect, ReloginEnds
<1>2. CASE ~stream.relogin /\ Connects([stream EXCEPT !.retryTimer = FALSE])
  <2> DEFINE st == [stream EXCEPT !.retryTimer = FALSE]
  <2>1. st \in StreamState /\ st.phase = "open" /\ st.ws = NoSocket /\ ~st.retryTimer /\ ~st.relogin
    BY <1>1, <1>2 DEF StreamState
  <2> HIDE DEF st
  <2>2. StreamSound' /\ ~Accepted'
    BY <1>1, <1>2, <2>1, ConnectsSound DEF st
  <2> QED
    BY <1>1, <2>2, TopicsKept
<1>3. CASE ~stream.retryTimer /\ Connects([stream EXCEPT !.relogin = FALSE])
  <2> DEFINE st == [stream EXCEPT !.relogin = FALSE]
  <2>1. st \in StreamState /\ st.phase = "open" /\ st.ws = NoSocket /\ ~st.retryTimer /\ ~st.relogin
    BY <1>1, <1>3 DEF StreamState
  <2> HIDE DEF st
  <2>2. StreamSound' /\ ~Accepted'
    BY <1>1, <1>3, <2>1, ConnectsSound DEF st
  <2> QED
    BY <1>1, <2>2, TopicsKept
<1>4. CASE /\ stream' = [stream EXCEPT !.retryTimer = FALSE, !.due = FALSE, !.relogin = TRUE]
           /\ sock' = sock
  <2> DEFINE a == [stream EXCEPT !.retryTimer = FALSE]
             b == [a EXCEPT !.due = FALSE]
             c == [b EXCEPT !.relogin = TRUE]
  <2>1. a \in StreamState /\ a.phase = "open" /\ a.ws = NoSocket /\ ~a.retryTimer
    BY <1>1 DEF StreamState
  <2> HIDE DEF a
  <2>2. b \in StreamState /\ b.phase = "open" /\ b.ws = NoSocket /\ ~b.retryTimer
    BY <2>1 DEF StreamState
  <2> HIDE DEF b
  <2>3. c \in StreamState /\ c.phase = "open" /\ c.ws = NoSocket /\ ~c.retryTimer /\ c.relogin
    BY <2>2 DEF StreamState
  <2>4. stream' = c
    BY <1>4 DEF a, b
  <2> HIDE DEF c
  <2>5. OneWay(stream') /\ stream'.ws = NoSocket
    BY <2>3, <2>4 DEF OneWay
  <2>6. StreamSound' /\ ~Accepted'
    BY <1>1, <1>4, <2>5 DEF StreamSound, Alive, Accepted
  <2> QED
    BY <1>1, <2>6, TopicsKept
<1>5. (Redial \/ reconnect => ~stream.relogin) /\ (ReloginEnds => ~stream.retryTimer)
  BY <1>1 DEF OneWay, Redial, reconnect, ReloginEnds
<1> QED
  BY <1>2, <1>3, <1>4, <1>5 DEF Redial, reconnect, ReloginEnds

LEMMA TabJoinsSound ==
  ASSUME BrokerInv, NEW t \in Tab, TabJoins(t)
  PROVE  BrokerInv'
<1>1. CASE stream.phase = "closed" /\ OrdersConnect(NewStream)
  <2>1. /\ NewStream \in StreamState /\ NewStream.phase = "open" /\ NewStream.ws = NoSocket
        /\ ~NewStream.retryTimer /\ ~NewStream.relogin
    BY DEF NewStream, StreamState
  <2>2. sock \in SockState /\ \A s \in Socket : ~Alive(s)
    BY <1>1, BrokerAssumption DEF BrokerInv, StreamSound, OneWay
  <2>3. Connects(NewStream)
    BY <1>1 DEF TabJoins, Connects
  <2>4. StreamSound' /\ ~Accepted'
    BY <2>1, <2>2, <2>3, ConnectsSound
  <2> QED
    BY <2>4, TopicsKept DEF TabJoins
<1>2. CASE UNCHANGED <<stream, sock>>
  BY <1>2 DEF TabJoins, BrokerInv, StreamSound, Alive, TopicsAreCurrent, kotak
<1> QED
  BY <1>1, <1>2 DEF TabJoins

LEMMA GapSound ==
  ASSUME BrokerInv, GapOver
  PROVE  BrokerInv'
<1>1. OneWay(stream) /\ stream' = [stream EXCEPT !.due = TRUE] /\ sock' = sock /\ UNCHANGED kotak
  BY DEF BrokerInv, StreamSound, GapOver
<1>2. OneWay(stream') /\ stream'.ws = stream.ws
  BY <1>1 DEF OneWay, StreamState
<1>3. StreamSound' /\ (Accepted' => Accepted)
  BY <1>1, <1>2 DEF BrokerInv, StreamSound, Alive, Accepted
<1> QED
  BY <1>1, <1>3, TopicsKept

(* Whatever the four streams, their tabs and their brokers do.                    *)
THEOREM BrokerInvHolds == BrokerSpec => []BrokerInv
<1>1. BrokerInit => BrokerInv
  <2> SUFFICES ASSUME BrokerInit PROVE BrokerInv
    OBVIOUS
  <2>1. OneWay(stream) /\ stream.ws = NoSocket
    BY DEF BrokerInit, NewStream, OneWay, StreamState
  <2>2. sock \in SockState /\ \A s \in Socket : ~Alive(s)
    BY DEF BrokerInit, SockState, Alive
  <2>3. topics \in [Topic -> Key \cup {NoKey}] /\ assign \in [Key -> Topic]
    BY DEF BrokerInit, Injection
  <2> QED
    BY <2>1, <2>2, <2>3 DEF BrokerInv, StreamSound, TopicsAreCurrent
<1>2. BrokerInv /\ [BrokerNext]_brokerVars => BrokerInv'
  <2> SUFFICES ASSUME BrokerInv, [BrokerNext]_brokerVars PROVE BrokerInv'
    OBVIOUS
  <2>1. CASE subscribe \/ unsubscribe \/ IdleFires
    BY <2>1, SubscribeSound, ClosingSound
  <2>2. CASE Redial \/ reconnect \/ ReloginEnds \/ GapOver
    BY <2>2, ProceedsSound, GapSound
  <2>3. ASSUME NEW s \in Socket,
               \/ TicksOpened(s) \/ KotakOpened(s) \/ onConnectionAck(s) \/ AuthRejected(s)
               \/ Capped(s) \/ Unauthorised(s) \/ Ends(s)
        PROVE  BrokerInv'
    BY <2>3, OpenedSound, AckSound, ClosingSound, RefusedSound, EndsSound
  <2>4. ASSUME NEW k \in Key, Snap(k) PROVE BrokerInv'
    BY <2>4, SnapSound
  <2>5. ASSUME NEW t \in Tab, TabJoins(t) PROVE BrokerInv'
    BY <2>5, TabJoinsSound
  <2>6. CASE UNCHANGED <<stream, sock, topics, assign>>
    BY <2>6 DEF BrokerInv, StreamSound, Alive, TopicsAreCurrent
  <2>7. ASSUME NEW t \in Tab, TabLeaves(t) PROVE UNCHANGED <<stream, sock, topics, assign>>
    BY <2>7 DEF TabLeaves, kotak
  <2>8. CASE OrphanEnds \/ TokenExpires \/ RenewedElsewhere \/ UNCHANGED brokerVars
    BY <2>6, <2>8 DEF OrphanEnds, TokenExpires, RenewedElsewhere, brokerVars, kotak
  <2>9. CASE Stream
    BY <2>2, <2>3, <2>4, <2>9 DEF Stream, AngelStream, ZerodhaStream, KotakStream, AngelOrderStream
  <2>10. CASE Tabs
    BY <2>1, <2>5, <2>6, <2>7, <2>10 DEF Tabs
  <2> QED
    BY <2>1, <2>2, <2>8, <2>9, <2>10 DEF BrokerNext
<1> QED
  BY <1>1, <1>2, PTL DEF BrokerSpec

(* One socket, timer or login is under way while a stream is open, none when it    *)
(* is not, and no socket lives that is not its own.                              *)
THEOREM OneWayForwardHolds == BrokerSpec => []OneWayForward
<1>1. BrokerInv => OneWayForward
  <2> SUFFICES ASSUME BrokerInv PROVE OneWayForward
    OBVIOUS
  <2>1. OneWay(stream) /\ \A s \in Socket : Alive(s) => s = stream.ws
    BY DEF BrokerInv, StreamSound
  <2>2. CASE stream.phase # "open"
    BY <2>1, <2>2 DEF OneWay, OneWayForward, UnderWay, Way
  <2>3. CASE stream.ws # NoSocket /\ ~stream.retryTimer /\ ~stream.relogin
    <3>1. UnderWay = {"socket"}
      BY <2>3 DEF UnderWay, Way
    <3> QED
      BY <2>1, <2>3, <3>1 DEF OneWay, OneWayForward, Way
  <2>4. CASE stream.ws = NoSocket /\ stream.retryTimer /\ ~stream.relogin
    <3>1. UnderWay = {"timer"}
      BY <2>4 DEF UnderWay, Way
    <3> QED
      BY <2>1, <2>4, <3>1 DEF OneWay, OneWayForward, Way
  <2>5. CASE stream.ws = NoSocket /\ ~stream.retryTimer /\ stream.relogin
    <3>1. UnderWay = {"login"}
      BY <2>5 DEF UnderWay, Way
    <3> QED
      BY <2>1, <2>5, <3>1 DEF OneWay, OneWayForward, Way
  <2> QED
    BY <2>1, <2>2, <2>3, <2>4, <2>5 DEF OneWay
<1> QED
  BY <1>1, BrokerInvHolds, PTL

(* Whatever reconnects, refusals and lost frames come, an id Kotak sends is read   *)
(* as the contract it stands for on this connection, or not at all.              *)
THEOREM TopicsAreCurrentHolds == BrokerSpec => []TopicsAreCurrent
<1>1. BrokerInv => TopicsAreCurrent
  BY DEF BrokerInv
<1> QED
  BY <1>1, BrokerInvHolds, PTL

================================================================================
