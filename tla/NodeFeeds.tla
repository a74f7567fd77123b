------------------------------- MODULE NodeFeeds -------------------------------
(* backend/feeds/breaker.ts, router.ts, authManager.ts, health.ts: what a call   *)
(* for market data, and the background prober, do to a feed's breaker, its login *)
(* and its session; and what Angel's live stream does to them when it logs in    *)
(* for itself (adapters/angel/index.ts, reauthenticate).                         *)
(*                                                                              *)
(* Feeds are 1..NFeeds in priority order.  An actor is a caller (route) or a     *)
(* prober (probeOnce; the interval and /api/feeds/probe may overlap).  Times are *)
(* kept as what is left of them; Tick lets one unit pass.  An AuthState object   *)
(* is known by the login it has in flight: signOut makes a fresh one, and what a *)
(* forgotten login writes when it ends is written to an object nobody reads.     *)
EXTENDS Naturals, Sequences

CONSTANTS
  NFeeds, Caller, Prober,
  Needs,        \* for each caller's requests, the feeds that can serve it at all
  Login,        \* bound: logins that can be in flight at once
  NoLogin,
  Threshold,    \* THRESHOLD
  Cooldown,     \* COOLDOWN_MS
  CooldownMax,  \* COOLDOWN_MAX
  Ladder,       \* BACKOFF_MS
  Code,         \* bound: the error codes that occur
  Streams,      \* the feeds whose live stream logs in for itself
  MaxOuts       \* bound on calls of signOut and logins by a stream

(* FeedErrorCode, and the two questions router.ts asks of it.                   *)
FeedErrorCode == {"AUTH", "RATE_LIMIT", "TRANSIENT", "UNSUPPORTED", "NOT_FOUND", "BAD_REQUEST", "INTERNAL"}
countsAsFailure(code) == code \in {"TRANSIENT", "RATE_LIMIT"}
shouldFailover(code) == code \in {"TRANSIENT", "RATE_LIMIT", "UNSUPPORTED", "AUTH"}

ASSUME NodeFeedsAssumption ==
  /\ NFeeds \in Nat \ {0} /\ Threshold \in Nat \ {0}
  /\ Cooldown \in Nat \ {0} /\ CooldownMax \in Nat /\ Cooldown <= CooldownMax
  /\ Ladder \in Seq(Nat \ {0}) /\ Ladder # <<>>
  /\ Needs \in [Caller -> SUBSET SUBSET (1..NFeeds)]
  /\ Streams \subseteq 1..NFeeds
  /\ Code \subseteq FeedErrorCode /\ NoLogin \notin Login /\ Caller \cap Prober = {}
  /\ MaxOuts \in Nat

Feed == 1..NFeeds
Actor == Caller \cup Prober

VARIABLES
  breaker,    \* entries in breaker.ts
  auth,       \* state in authManager.ts
  session,    \* feeds whose isConnected() is true
  login,      \* the feed each login is for, 0 when it is not in flight
  forgotten,  \* logins in flight whose AuthState signOut dropped (history)
  beside,     \* logins in flight that a stream started (history)
  streaming,  \* feeds with a live stream
  call,       \* what each actor is doing
  outs        \* calls of signOut and logins by a stream so far

vars == <<breaker, auth, session, login, forgotten, beside, streaming, call, outs>>

Idle == [pc |-> "idle", can |-> {}, at |-> 0, on |-> NoLogin, claim |-> FALSE, code |-> "AUTH"]
NewEntry == [state |-> "CLOSED", failures |-> 0, cooldown |-> Cooldown, left |-> 0, probing |-> FALSE]
NewAuth == [flight |-> NoLogin, failures |-> 0, wait |-> 0]

TypeOK ==
  /\ breaker \in [Feed -> [state : {"CLOSED", "OPEN", "HALF_OPEN"}, failures : 0..Threshold,
                           cooldown : Cooldown..CooldownMax, left : 0..CooldownMax, probing : BOOLEAN]]
  /\ auth \in [Feed -> [flight : Login \cup {NoLogin}, failures : 0..Len(Ladder), wait : Nat]]
  /\ session \subseteq Feed
  /\ login \in [Login -> Feed \cup {0}]
  /\ forgotten \subseteq Login /\ beside \subseteq Login /\ streaming \subseteq Streams
  /\ call \in [Actor -> [pc : {"idle", "login", "run", "dropped", "relogin", "rerun", "failed"},
                         can : SUBSET Feed, at : Feed \cup {0}, on : Login \cup {NoLogin},
                         claim : BOOLEAN, code : FeedErrorCode]]
  /\ outs \in 0..MaxOuts

Init ==
  /\ breaker = [f \in Feed |-> NewEntry]
  /\ auth = [f \in Feed |-> NewAuth]
  /\ session = {}
  /\ login = [l \in Login |-> 0]
  /\ forgotten = {} /\ beside = {} /\ streaming = {}
  /\ call = [a \in Actor |-> Idle]
  /\ outs = 0

--------------------------------------------------------------------------------
(* breaker.ts.                                                                  *)
canAttempt(f) == LET e == breaker[f] IN
  \/ e.state = "CLOSED"
  \/ e.state = "OPEN" /\ e.left = 0
  \/ e.state = "HALF_OPEN" /\ ~e.probing

(* What canAttempt leaves behind when it answers yes.                           *)
Claimed(e) == IF e.state = "CLOSED" THEN e ELSE [e EXCEPT !.state = "HALF_OPEN", !.probing = TRUE]

recordSuccess(e) ==
  [e EXCEPT !.probing = FALSE, !.failures = 0, !.cooldown = Cooldown, !.state = "CLOSED", !.left = 0]

Doubled(n) == IF 2 * n < CooldownMax THEN 2 * n ELSE CooldownMax
Counted(n) == IF n < Threshold THEN n + 1 ELSE n
recordFailure(e) ==
  IF e.state = "HALF_OPEN"
  THEN [e EXCEPT !.probing = FALSE, !.cooldown = Doubled(e.cooldown),
                 !.left = Doubled(e.cooldown), !.state = "OPEN"]
  ELSE IF Counted(e.failures) = Threshold
  THEN [e EXCEPT !.failures = Threshold, !.left = e.cooldown, !.state = "OPEN"]
  ELSE [e EXCEPT !.failures = Counted(e.failures)]

--------------------------------------------------------------------------------
(* ensureConnected, called by an actor whose call becomes c; when the feed is    *)
(* connected c goes on at once to its request.                                  *)
Waiting(pc) == IF pc = "run" THEN "login" ELSE "relogin"
Put(a, c) == call' = [call EXCEPT ![a] = c]

Connected(a, c) ==
  /\ c.at \in session
  /\ auth' = [auth EXCEPT ![c.at].failures = 0, ![c.at].wait = 0]
  /\ Put(a, c)
  /\ UNCHANGED login

Refused(a, c) ==
  /\ c.at \notin session /\ auth[c.at].wait > 0
  /\ Put(a, [c EXCEPT !.pc = "failed", !.code = "AUTH"])
  /\ UNCHANGED <<auth, login>>

Share(a, c) ==
  /\ c.at \notin session /\ auth[c.at].wait = 0 /\ auth[c.at].flight # NoLogin
  /\ Put(a, [c EXCEPT !.pc = Waiting(c.pc), !.on = auth[c.at].flight])
  /\ UNCHANGED <<auth, login>>

(* feed.connect(): a login of its own, whatever else is under way.  Logins that   *)
(* are not in flight are alike: any of them will do.                             *)
Free == {l \in Login : login[l] = 0 /\ \A a \in Actor : call[a].on # l}
Starts(l, f) ==
  /\ l \in Free /\ l = CHOOSE m \in Free : TRUE
  /\ login' = [login EXCEPT ![l] = f]

Connect(a, c) ==
  /\ c.at \notin session /\ auth[c.at].wait = 0 /\ auth[c.at].flight = NoLogin
  /\ \E l \in Login :
       /\ Starts(l, c.at)
       /\ auth' = [auth EXCEPT ![c.at].flight = l]
       /\ Put(a, [c EXCEPT !.pc = Waiting(c.pc), !.on = l])

(* Mutant: no single flight.                                                    *)
ensureConnectedAlone(a, c) ==
  \/ Connected(a, c) \/ Refused(a, c)
  \/ /\ c.at \notin session /\ auth[c.at].wait = 0
     /\ \E l \in Login :
          /\ Starts(l, c.at)
          /\ auth' = [auth EXCEPT ![c.at].flight = l]
          /\ Put(a, [c EXCEPT !.pc = Waiting(c.pc), !.on = l])

ensureConnected(a, c) == Connected(a, c) \/ Refused(a, c) \/ Share(a, c) \/ Connect(a, c)

(* The loop over feeds() from the one after i: the first that can serve, or for  *)
(* a prober is not CLOSED, and that the breaker lets through.  b is the breakers *)
(* as the call leaves them.                                                     *)
Admits(a, can, f) ==
  canAttempt(f) /\ IF a \in Caller THEN f \in can ELSE breaker[f].state # "CLOSED"
Walk(a, can, i, b) ==
  \/ \E f \in (i + 1) .. NFeeds :
       /\ Admits(a, can, f) /\ \A g \in (i + 1) .. (f - 1) : ~Admits(a, can, g)
       /\ breaker' = [b EXCEPT ![f] = Claimed(b[f])]
       /\ ensureConnected(a, [Idle EXCEPT !.pc = "run", !.can = can, !.at = f,
                                          !.claim = (b[f].state # "CLOSED")])
  \/ /\ \A f \in (i + 1) .. NFeeds : ~Admits(a, can, f)
     /\ breaker' = b
     /\ Put(a, Idle)
     /\ UNCHANGED <<auth, login>>

Request(a) ==
  /\ a \in Caller /\ call[a].pc = "idle"
  /\ \E can \in Needs[a] : Walk(a, can, 0, breaker)
  /\ UNCHANGED <<session, forgotten, beside, streaming, outs>>

Probe(a) ==
  /\ a \in Prober /\ call[a].pc = "idle"
  /\ \E f \in Feed : Admits(a, {}, f)
  /\ Walk(a, {}, 0, breaker)
  /\ UNCHANGED <<session, forgotten, beside, streaming, outs>>

(* feed.connect() settles: every caller that shares the login goes on.  Only the *)
(* AuthState it belongs to learns of it.  An adapter that fails to log in may    *)
(* clear its session (angel's does), one that another login has made included.   *)
Rung(n) == Ladder[IF n > Len(Ladder) THEN Len(Ladder) ELSE n]
LoginEnds(l) ==
  LET f == login[l]
      mine == auth[f].flight = l
      n == IF auth[f].failures < Len(Ladder) THEN auth[f].failures + 1 ELSE auth[f].failures
  IN
  /\ login[l] # 0
  /\ login' = [login EXCEPT ![l] = 0]
  /\ forgotten' = forgotten \ {l} /\ beside' = beside \ {l}
  /\ \/ /\ session' = session \cup {f}
        /\ auth' = IF mine THEN [auth EXCEPT ![f] = NewAuth] ELSE auth
        /\ call' = [a \in Actor |-> IF call[a].on # l THEN call[a]
                      ELSE [call[a] EXCEPT !.on = NoLogin,
                              !.pc = IF call[a].pc = "login" THEN "run" ELSE "rerun"]]
     \/ \E code \in Code :
          /\ auth' = IF mine
                     THEN [auth EXCEPT ![f] = [flight |-> NoLogin, failures |-> n, wait |-> Rung(n)]]
                     ELSE auth
          /\ call' = [a \in Actor |-> IF call[a].on # l THEN call[a]
                        ELSE [call[a] EXCEPT !.on = NoLogin, !.pc = "failed", !.code = code]]
          /\ session' \in {session, session \ {f}}
  /\ UNCHANGED <<breaker, streaming, outs>>

(* An adapter forgets the sessions of these feeds, and closes their streams.     *)
Drop(fs) == session' = session \ fs /\ streaming' = streaming \ fs

(* The request answers.  An AUTH drops the session and, once feed.disconnect()   *)
(* is through, a caller logs in again for one more try (withAuth) while a prober *)
(* counts it (probeOnce).                                                       *)
Answered(a) ==
  /\ call[a].pc \in {"run", "rerun"}
  /\ Walk(a, call[a].can, IF a \in Caller THEN NFeeds ELSE call[a].at,
          [breaker EXCEPT ![call[a].at] = recordSuccess(@)])
  /\ UNCHANGED <<session, forgotten, beside, streaming, outs>>

Rejected(a) ==
  /\ \/ call[a].pc = "run"
     \/ a \in Prober /\ call[a].pc = "failed" /\ call[a].code = "AUTH"
  /\ Drop({call[a].at})
  /\ Put(a, [call[a] EXCEPT !.pc = "dropped"])
  /\ UNCHANGED <<breaker, auth, login, forgotten, beside, outs>>

Relogin(a) ==
  /\ a \in Caller /\ call[a].pc = "dropped"
  /\ ensureConnected(a, [call[a] EXCEPT !.pc = "rerun"])
  /\ UNCHANGED <<breaker, session, forgotten, beside, streaming, outs>>

(* The error that ends an actor's turn on its feed: of the request (an AUTH only  *)
(* after the one retry), of the login it waited for, or, for a prober, the AUTH   *)
(* it has dropped the session for.                                              *)
Error(a, code) ==
  \/ call[a].pc = "rerun"
  \/ call[a].pc = "run" /\ code # "AUTH"
  \/ call[a].pc = "failed" /\ code = call[a].code /\ (a \in Prober => code # "AUTH")
  \/ call[a].pc = "dropped" /\ a \in Prober /\ code = "AUTH"

(* The catch of route, and of probeOnce, which counts every error.  Some adapters *)
(* drop their session themselves on an AUTH (angel's fail).                      *)
Counts(a, code) == a \in Prober \/ countsAsFailure(code)
(* Mutant: a prober's loop ends at the first feed that fails.                   *)
GoesOnUnlessProber(a, code) == a \in Caller /\ shouldFailover(code)
GoesOn(a, code) == a \in Prober \/ shouldFailover(code)

(* Mutant: an error that is no fault leaves the breaker alone.                  *)
FailsUnrecorded(a) ==
  LET c == call[a] IN
  /\ \E code \in Code :
       /\ Error(a, code)
       /\ Walk(a, c.can, IF GoesOn(a, code) THEN c.at ELSE NFeeds,
               IF Counts(a, code) THEN [breaker EXCEPT ![c.at] = recordFailure(@)] ELSE breaker)
  /\ UNCHANGED <<session, forgotten, beside, streaming, outs>>

Fails(a) ==
  LET c == call[a] IN
  /\ \E code \in Code :
       /\ Error(a, code)
       /\ Walk(a, c.can, IF GoesOn(a, code) THEN c.at ELSE NFeeds,
               [breaker EXCEPT ![c.at] = IF Counts(a, code) THEN recordFailure(@) ELSE recordSuccess(@)])
       /\ \E fs \in {{}, {c.at}} : (fs = {} \/ code = "AUTH") /\ Drop(fs)
  /\ UNCHANGED <<forgotten, beside, outs>>

(* /api/feeds/logout and /api/feeds/reset.                                      *)
signOut(f) ==
  /\ outs < MaxOuts /\ outs' = outs + 1
  /\ auth' = [auth EXCEPT ![f] = NewAuth]
  /\ forgotten' = forgotten \cup ({auth[f].flight} \ {NoLogin})
  /\ Drop({f})
  /\ UNCHANGED <<breaker, login, beside, call>>

reset(f) ==
  /\ breaker[f] # NewEntry
  /\ breaker' = [breaker EXCEPT ![f] = NewEntry]
  /\ UNCHANGED <<auth, session, login, forgotten, beside, streaming, call, outs>>

(* A live stream is opened with the session there is, and closed.  One that can   *)
(* no more log in, by the bound, is left out.                                   *)
Subscribed(f) ==
  /\ f \in Streams /\ f \in session \ streaming /\ outs < MaxOuts
  /\ streaming' = streaming \cup {f}
  /\ UNCHANGED <<breaker, auth, session, login, forgotten, beside, call, outs>>
Unsubscribed(f) ==
  /\ f \in streaming /\ streaming' = streaming \ {f}
  /\ UNCHANGED <<breaker, auth, session, login, forgotten, beside, call, outs>>

(* A stream whose reconnects are refused logs the feed in: its session is gone    *)
(* at once, and the login goes past AuthManager, whose flight may be another.    *)
reauthenticate(f) ==
  /\ f \in streaming /\ outs < MaxOuts /\ outs' = outs + 1
  /\ session' = session \ {f}
  /\ \E l \in Login : Starts(l, f) /\ beside' = beside \cup {l}
  /\ UNCHANGED <<breaker, auth, forgotten, streaming, call>>

Less(n) == IF n > 0 THEN n - 1 ELSE 0
Tick ==
  /\ \E f \in Feed : breaker[f].left > 0 \/ auth[f].wait > 0
  /\ breaker' = [f \in Feed |-> [breaker[f] EXCEPT !.left = Less(@)]]
  /\ auth' = [f \in Feed |-> [auth[f] EXCEPT !.wait = Less(@)]]
  /\ UNCHANGED <<session, login, forgotten, beside, streaming, call, outs>>

Continue(a) == Answered(a) \/ Rejected(a) \/ Relogin(a) \/ Fails(a)

Next ==
  \/ \E a \in Actor : Request(a) \/ Probe(a) \/ Continue(a)
  \/ \E l \in Login : LoginEnds(l)
  \/ \E f \in Feed : signOut(f) \/ reset(f) \/ Subscribed(f) \/ Unsubscribed(f) \/ reauthenticate(f)
  \/ Tick

(* Requests and logins settle (every one of them has a timeout), time passes and *)
(* the health timer fires.  Nobody asks for anything because of it.             *)
Fairness ==
  /\ WF_vars(Tick)
  /\ \A a \in Actor : WF_vars(Continue(a))
  /\ \A l \in Login : WF_vars(LoginEnds(l))
  /\ \A a \in Prober : WF_vars(Probe(a))

Spec == Init /\ [][Next]_vars /\ Fairness

--------------------------------------------------------------------------------
(* The probe slot is taken exactly while the breaker is HALF_OPEN, and somebody  *)
(* who was let through on probation is on the feed then: whatever way a probe    *)
(* ends (an error that is no fault, a refused login, a sign-out, a reset under   *)
(* it), no slot is left taken with nobody to give it back (breaker.ts 70-122,    *)
(* router.ts 172-204, health.ts 34-48).                                         *)
SlotHasAHolder ==
  \A f \in Feed :
    /\ breaker[f].probing <=> breaker[f].state = "HALF_OPEN"
    /\ breaker[f].probing =>
         \E a \in Actor : call[a].pc # "idle" /\ call[a].at = f /\ call[a].claim

(* One login at a time, per feed, as far as it goes (authManager.ts 4-10): what   *)
(* may be in flight beside the login that every caller is given is one that a     *)
(* signOut has forgotten, or a stream's own; and whoever waits, waits for that    *)
(* one login, never for a stream's: "everyone awaits the SAME promise".          *)
OneLogin ==
  /\ \A l \in Login :
       login[l] # 0 => auth[login[l]].flight = l \/ l \in forgotten \/ l \in beside
  /\ \A a \in Actor :
       call[a].on # NoLogin => auth[call[a].at].flight = call[a].on \/ call[a].on \in forgotten

(* A parked feed is tried again, whoever else asks for data and whatever becomes *)
(* of the feeds before it in the prober's loop (health.ts 27-50).               *)
ParkedIsProbed ==
  \A f \in Feed : breaker[f].state = "OPEN" ~> breaker[f].state # "OPEN"

================================================================================
