# QuantStack Terminal: a TLA+ verification project

QuantStack Terminal draws the live price of an option straddle, and what goes
with it, in a browser. This directory holds TLA+ models of the parts of it where
several actors share state: who keeps a broker subscription open, who lets it go,
and what reaches a client that comes and goes. TLC checks the models on small
instances; TLAPS proves every safety property they are checked for, and that
the steps of one implement an abstract specification, for every value of their
constants.

Contents

 1. The system: components, state, operations, hazards
 2. The modules, and how they correspond to the code
 3. The runs: what each asks, its bounds
 4. Fairness
 5. The proofs
 6. Where the code and its comments differ
 7. What is not modelled
 8. Working with the project

---

## 1. The system

```
 browser                    Node backend                         Go engine (marketd)
 ─────────────────────      ─────────────────────────────        ─────────────────────────────
 useLiveStraddle ─ws──►     wsStraddle ── engineClient ─ws──►    handleLive ─► Hub ─► Engine.Run
   LiveSocket               (one session per contract)           (one session per contract)
 useLiveQuotes ───ws──►     wsQuotes ──► LiveRouter ─► adapters     Engine.Run ─► feed.Router
 useIris ─────────ws──►     wsAssistant ─► chainFeed ◄─ monitor     feed.Router ─► BridgeSource
 queries ────────http─►     routes ─► FeedRouter ─► adapters                        (Python child)
                                       breaker, authManager
                            expiry/session ─► chainFeed
```

The same shape recurs: an expensive upstream subscription is shared by the
clients that want it, keyed by contract, and released some time after the last
one has left. It is written five times (`hub.go`, `wsStraddle.ts`,
`liveRouter.ts`, `chainFeed.ts`, `expiry/session.ts`), each time with different
rules, and every one of them has the same ways to fail: two subscriptions for one
contract, a subscription nobody can release, a client attached to something that
has ended, a timer that outlives its purpose.

### 1.1 Components that carry the logic

**Hub** (`backend-go/hub/hub.go`).
State: the map of sessions under `h.mu`; in each session its subscribers, grace
timer and last status under `sess.mu`; in each subscriber a bounded channel and
an atomic `closed`.
Operations: Subscribe, Unsubscribe, retire (the timer's goroutine), broadcast,
closeAll, Shutdown, and the goroutine that runs the engine and tears the session
down.
Calls: handleLive subscribes; the session's goroutine calls Engine.Run, which
calls back broadcast.
Hard: two mutexes that are almost never held together, a pointer kept across the
gap, a timer that may have fired already, a channel closed by one goroutine while
another sends.
Correct when: the map holds live sessions only; every running engine can be
reached by what must stop it; an unwatched session is always on its way out; an
open client of a live session is in its fan-out; nobody sends on a closed channel.

**Feed router and breakers (Go)** (`backend-go/feed/router.go`).
State: per session a priority list of sources and the position in it; shared by
all sessions, each feed's consecutive failures and cooldown.
Operations: pick, serve, promotion to a better feed, trip, succeed, clear.
Hard: breakers are tripped and cleared by other sessions between a pick and a
serve; a source's return and its frames become ready together; a cancellation
can come at any point.
Correct when: one source at a time, the old one gone before the next; only a
source's own failure parks it; no cooldown above the cap; cancellation ends Run.

**Straddle engine** (`backend-go/straddle/engine.go`, `point.go`).
State: chain of quotes, centre and depth of the subscription, throttle timer,
the retained window of points, the strike of the last point, the open bar.
Operations: Run (open a router, pump, join it, open another), pump's select
(context, router's answer, frame, throttle timer, bar ticker), ingest, compute,
noteDrift, retain, ReplaySince; the aggregator's Add and Close.
Hard: one answer in `done` and two receivers written for it; a channel closed
while a goroutine may still send; the timer's flag against the timer; a point
bears the time the bridge's child stamped its last frame with, and a newer point or
the clock may have closed that bar already; a day's volume that is the sum of two
legs' counts, each of which begins, resets or is another strike's.
Correct when: one router at a time; a touched leg is computed; a re-arm
subscribes again; the end of the context ends Run; every point is in one bar, or
was dropped for being late, which happens only when frames come out of order; a
bar says no more was traded than was while the counts it compares are of the same
two legs.

**marketd's live socket** (`backend-go/cmd/marketd/main.go`).
State: per socket the current subscriber, its pump, a bounded queue of writes.
Operations: subscribe with a `since`, stop, resume, ping; the pump; the writer.
Hard: attach, read the window, send the backfill, start the pump are four steps
between which points are computed and broadcast.
Correct when: whatever a client missed and the window still holds reaches it, and
it is told when the window does not reach back far enough.

**Bridge source** (`feed/bridge.go`, `feed/feed.go`). State: a Python child, the
time of its last data, the back-off. Hard: the watchdog against a full channel,
when the back-off resets. Correct when: a silent child is replaced, and restarts
never become a loop.

**Live tick router (Node)** (`backend/feeds/liveRouter.ts`).
State: consumers and their contracts; the active feed and its stop; parked feeds;
a pin; the reconcile in progress.
Operations: subscribe, unsubscribe, pin, rotate, choose, reconcile, the delayed
stop of the subscription a switch leaves behind.
Hard: everything may change during the await of a login; a single flight answers
callers it never looked at; adapters that replace their socket meet a delayed
stop of the old one.
Correct when: no stream is left behind; the subscription carries what is wanted;
a switch overlaps; a failed feed is not what is tried next.

**Live straddle socket (Node)** (`backend/live/wsStraddle.ts`,
`backend/lib/engineClient.ts`).
State: sessions by contract, each with subscribers, an engine handle, an idle
timer and a market-close timer.
Operations: subscribe, stop, socket end, startEngine's late success or failure,
the two timers.
Hard: an old session's end deletes by key; a start settles after the session was
given up.
Correct when: a socket is in one fan-out; the map holds sessions that can serve;
an engine nobody watches is released; one engine per contract.

**Node breaker, router, login manager** (`backend/feeds/breaker.ts`,
`router.ts`, `authManager.ts`).
State: per feed CLOSED / OPEN / HALF_OPEN with one probe slot; per feed one login
in flight, failures and a retry time.
Operations: canAttempt, recordSuccess, recordFailure, reset; ensureConnected,
withAuth, signOut; route.
Hard: answers of calls let through in an older state; a probe that never settles;
concurrent re-authentication.
Correct when: one probe at a time; a result changes the state it was let through
in; one login at a time that callers share and wait for.

**Shared chains** (`backend/assistant/chainFeed.ts`, `backend/expiry/session.ts`,
`backend/assistant/monitor/engine.ts`).
State: reference-counted bridges with reapers and restarts; cockpit sessions by
contract; watches with reserved chain slots, latches and cooldowns.
Hard: each registers its entry before or after an await, and each has a window in
which two callers hold different entries of the same contract.
Correct when: every process has somebody to stop it, every handle is released
exactly once, and once a reconcile has run with a session no watch is without its
chain.

**Broker streams** (`adapters/*/stream.ts`, `trading/orderStream/angel.ts`,
`live/wsOrders.ts`).
State: a socket, a retry timer with its count, a login under way; Kotak's ids of
contracts; the tabs that share the order stream.
Operations: connect, the socket's events, scheduleReconnect, reconnect with its
re-login, close; subscribe, which replaces the stream.
Hard: error and close are two events of one socket; everything may happen during
the await of a login; ids are given anew on each connection.
Correct when: exactly one of socket, timer and login at a time, nothing after
close, no id read as another contract's, a dead token gets to a login.

**Straddle history and catch-up** (`routes/straddle.ts`,
`engine/straddleCatchUp.ts`, `rollingStraddle.ts`, `bandGreeks.ts`,
`lib/computeCache.ts`).
State: the computed session of each key.
Operations: compute on a miss, continue a cached session on a hit, drop.
Hard: a continued straddle is walked again from a lead-in with nothing carried
into it, a band with the strike and the forward of another bar and the legs of
another window; two requests continue what they both read.
Correct when: a continued straddle is the one a full walk computes, and no roll of
either is unmarked.

**Browser live straddle** (`src/hooks/useLiveStraddle.ts`, `src/lib/socket.ts`).
State: the points held, the mark of the newest, one socket with a retry timer.
Hard: a late close event of a socket already replaced; a connection that is open
and dead.
Correct when: no hole, a page that wants its feed is fed, one that has left opens
nothing.

### 1.2 Everything else

PROJECT.json lists every component with its sources. Pricing and analytics
(`black76`, `analytics/*`, the historical engines) are batch computations in
floating point with no state between calls. Adapters, instrument masters,
credentials, caches and stores are I/O around tables. The assistant's language
understanding is text. Routes and pages validate, call and draw.

---

## 2. The modules, and how they correspond to the code

Each module's header says what an action is. Two rules hold throughout: in the
Go modules an action is one critical section or one channel operation, so that
whatever the scheduler may interleave is interleaved; in the Node and browser
modules an action is one whole callback, since nothing runs between two awaits.
Frames, prices, wording and metrics are left out unless a property is about them.

| Module | Models | An identity stands for |
|---|---|---|
| `Hub` | `hub.go` | `Session`: a session object; `Sub`: one call of Subscribe and its Subscriber |
| `FeedRouter` | `feed/router.go` | `Session`: a session's router; `Feed`: 1..NFeeds by priority |
| `EngineRun` | `Engine.Run`, `pump`, `ingest`, `noteDrift` | one engine; `Strike`: a position on the grid |
| `StraddlePoint` | `compute`, `point.go`'s choice, the chain's quotes, `agg.go` | one session's data; a strike is its two legs |
| `LiveStream` | `retain`/`ReplaySince`, the fan-out, `handleLive`, the client's merge | `Conn`: a client and the socket it has; point n bears time n |
| `Source` | the contract of `feed.Source` | the abstract specification |
| `BridgeRun` | `feed/bridge.go`, the back-off of `feed.go` | one subscription's supervisor |
| `StraddleSocket` | `wsStraddle.ts` | `Session`: a Session object; `Client`: a socket |
| `LiveRouter` | `liveRouter.ts`, its consumer `wsQuotes.ts` | `Stream`: a broker subscription; `Feed` by priority |
| `NodeFeeds` | `breaker.ts`, `router.ts`, `authManager.ts`, `health.ts`, `reauthenticate` of `adapters/angel/index.ts` | `Caller`, `Prober`: a call under way; `Login`: a login in flight |
| `BrokerStream` | the tick streams of Angel, Kotak and Zerodha, Angel's order stream and `wsOrders.ts` | `Socket`: a WebSocket; one stream object at a time |
| `ChainFeed` | `assistant/chainFeed.ts` | `Entry`: a registry entry; `Holder`: one call of acquireChain and its handle |
| `Cockpit` | `expiry/session.ts`, on `ChainFeed` | `Desk`: an entry of the cockpit's map |
| `WatchMonitor` | `monitor/engine.ts`, `watchStore.ts`, their callers, `wsAssistant.ts` | `Key`: a chain; `Conv`: a conversation; `Call`: one reconcileChains |
| `BrowserSocket` | `lib/socket.ts`, driven by `useLiveStraddle.ts` | `Socket`: a WebSocket; one page |
| `StraddleHistory` | `routes/straddle.ts` over the cache, the two walks, `straddleCatchUp.ts` | `Request`: a request under way; a strike is its contracts |
| `HubProofs`, `FeedRouterProofs`, `EngineRunProofs`, `StraddlePointProofs` | theorems of the module they are named after | |
| `GoStreamProofs` | theorems of `BridgeRun` and `LiveStream` | |
| `NodeChannelsProofs` | theorems of `LiveRouter`, `WatchMonitor` and `StraddleHistory` | |
| `NodeFeedsProofs` | theorems of `NodeFeeds` and `BrokerStream` | |
| `NodeSharingProofs` | theorems of `StraddleSocket`, `ChainFeed` with `Cockpit`, and `BrowserSocket` | |
| `MC*` | instances for TLC | |

### 2.1 How they fit together

`Hub` starts and cancels what `EngineRun` is; `EngineRun` opens and joins what
`FeedRouter` is; `FeedRouter` runs what `Source` promises and `BridgeRun` is;
`StraddlePoint` is what the engine does with a frame; `LiveStream` is the data path
from the engine's window through the hub's fan-out and the socket to the client.
`StraddleSocket` and `BrowserSocket` are the two ends of the browser's connection,
`LiveRouter` sits on the streams that `BrokerStream` is, `NodeFeeds` is every
other call to a broker, and `Cockpit` extends `ChainFeed`, whose other holders are
`WatchMonitor`'s.

Three of these meetings are composed or checked: `Cockpit` with `ChainFeed` in one
state space, `LiveRouter` with the adapters' replacing of a stream, and `BridgeRun`
against `Source` as a refinement. The others are named assumptions: `Hub`'s fairness has
Engine.Run return after its context ends, which fails in one interleaving
(section 6) and in no other (`OnlyATakenAnswerHangs`); `EngineRun`'s has a
cancelled router return, which is `FeedRouter!CancelEndsTheRun`, checked;
`FeedRouter`'s has a cancelled source return, which is the liveness half of
`Source`, checked of `BridgeRun`.

### 2.2 State, module by module

**Hub.** `sessions` is `Hub.sessions`; `hmu` records the one holder of `h.mu` that
keeps it over two steps (retire); `subs`, `grace`, `last` are the session's
fields; `retiring` counts retire goroutines waiting for `h.mu`; `cast`, `pushing`
are a broadcast in progress, after its snapshot and after send's test of
`closed`; `closing`, `dropping` are a closeAll in progress. `pc` is where a
caller is between Subscribe's unlock of `h.mu` (`attach`), its own greeting
frames (`greet`), its stay (`on`) and the steps of Unsubscribe. `panicked` is the
end of the process by a send on a closed channel; no action is enabled after it.
`Reject` is `start` returning the error of `straddle.New` or `feed.NewRouter`, with
nothing registered.

**FeedRouter.** `failures`, `parked` are the shared breakers, a time being kept
as what is left of it; `pc` goes through pick (`at`, `soonest` are its loop),
wait, chosen, serve, promoting or stopping, and the outcomes; `tripping` is between
the look at the context after a failure (163) and Trip (178), in which the
session may be cancelled; `source[r][f]` is
the goroutine of `Source.Run`, and `raw` its channel. Two sources are possible
only in tests today (marketd builds one); the module models the general list the
code is written for.

**EngineRun.** `pc` is Run's place; `runDone` is `runCtx`; `live` counts router
goroutines, so that a second one would show; `done`, `events`, `closed` are the
two channels; `armed`, `timer`, `dirty` the throttle; `centre`, `since` the depth.

**StraddlePoint.** `quote` and `volume` are the chain's, the volume leg by leg and
absent until a leg has published one (`CumVolume` adds what is there); `pendingAt`
and `armed` pump's; `open` and `lastVol` the aggregator's; `beat` the tick waiting
in the ticker's channel, which holds one. Time is counted in ticks of the bar
ticker. A frame bears any time up to now, whatever the one before it bore: the
bridge's child stamps it, and it may wait in the pipe and the channels. The point
takes the last stamp, so the clock may be bars ahead of it and the open bar newer
than it, in which case Add drops it. `bars`, `counted`, `dropped`, `points`,
`latest`, `mixed` and `traded` are histories; `mixed` says that Add has compared
sums that are not of the same counts: a roll, a leg that was counted for the first
time later than the session's first sample, a leg whose count began anew beside
the other's.

**LiveStream.** `first..last` is the retained window, `sending`, `todo` the
broadcast; `handler` is where handleLive is in a request, between whose steps
points go on being computed; `writes` is the socket's bounded queue; `got`,
`newest` are the client's. `pardoned` holds points that a complete-looking
backfill may skip because the code accepts a mark within `ReplayJoin` of the
window's edge; `lossy` marks a client one of whose frames did not fit.

**BridgeRun.** `pc` is Run's goroutine through the script lookup, the child's
start, the scan of its output, its end, the report of a failure and the wait of
the back-off; `dog` is the watchdog of this child, `strays` those of earlier ones
still blocked in EmitBlocking; `out` the router's channel, `clock` the time since
the last data while a child runs, what is left of the wait otherwise. `abandoned`
says that the scan has ended before the child has (an overlong line). It
implements `Source` under `run <- IF Returned THEN pc ELSE "serving"`, and
`cancelled` as it is.

**StraddleSocket.** `engine[s]` is both `Session.live` and the start in flight
(`starting`, `up`, `dead`, then `stopped` or `failed`); `idle`, `closeT` the two
timers; `joined` what the socket's `joined` variable points at. That an engine
dies at any time is what `engineClient.ts` reports.

**LiveRouter.** `streams` are the broker's open subscriptions; `active` names the
feed and the stream its stop would close; `sig` is `activeKeySig`; `flight` is
`resubscribing`, with what its reconcile has chosen; `closing` are the pending
`setTimeout`s of stops; `parked` keeps expired entries because the code counts
them; `behind` is a history variable: something changed that no reconcile has
looked at. The breakers choose asks are any set at each choice (`MayChoose`),
since they open and close on the request path at any time. A reconcile that
ends before its await is part of the action that called it.

**NodeFeeds.** `breaker` holds the entries, times as what is left of them; `auth`
the login state objects, one of which is known by the login it has in flight;
`call` is where an actor is in its walk over the feeds: waiting for a login,
running the request, waiting for a login after an AUTH answer, running again;
`claim` says it was let through as a probe. `forgotten` are logins whose state
object a signOut has replaced. `streaming` are feeds with a live stream; Angel's
may clear the session and log in by itself, past the login manager, and such a
login is `beside`. A call can be overtaken at each of its awaits.

**BrokerStream.** Four classes are one design written four times, so one module
has a `kind`, chosen initially, and an action of its own where one differs.
`broker` is what a dead token meets: a refused handshake, or a socket that is
accepted and then dropped. A socket that has reported an error is `erred` until
its close event comes. `orphan` is a re-login that outlives its stream. `topics`
is Kotak's map from ids to contracts, `assign` what the broker means by them on
this connection.

**ChainFeed, Cockpit.** `current` is the registry's map for one contract; an
entry torn down lives on for those who still refer to it. `hold[h].pc` is
`resolving` during the await of the spot symbol. `present` is the cockpit's map,
`desk[d].pc` where its opening is, which awaits twice. An entry's `bridge` says that
its child runs, not that it has a handle: `spawn` has three outcomes, a child that
runs, one that could not be started (Node raises 'error' and no 'exit', so the
entry never learns of it and arms no restart), and a missing script, reported
through onExit at once. `gone` and `lost` are histories that name the exceptions
of two properties.

**WatchMonitor.** `slot` is the entry of `chains` or `held`: empty, PENDING during
the await, or a handle; `handles` counts what was really acquired for it, as a
history. `call` is where each overlapping reconcileChains is. `loggedIn` is the
broker's session, `started` whether the first conversation has connected: a
reconcile runs only with a session, and a login starts none. `unseen`, a history,
are the chains wanted since without a reconcile having looked. A crash empties all
but `disk`, to which the debounced flush writes; the next process has no session,
and reconciles when it has one and startAssistant or a change comes after it.

**BrowserSocket.** `field` are LiveSocket's fields; a closed WebSocket reports
later (`closing` until then), and its handlers act on the fields, whichever socket
is current. `quiet` sockets are half open: they deliver and report nothing.

**StraddleHistory.** `tape` is the spot and what has printed, bar by bar; a session
has its bars and rolls, and the `resume` a band's continuation starts from (the
strike, the baselines, and `anchor`, the forward its search for the ATM is about).
A session's `seams` are a history: where it was continued. Time is counted in bars
and a bar is not revised once it has ended. A straddle's candidates are about the
spot of their bar (`Around`), its contracts every one it will have; a band's
candidates are about the forward of the bar before, which put-call parity gives
from a strike's quote (`Forward`), and its legs are those within `Wing` of the
range of the spot *in the window walked* (`fetched`), so that a continuation has
other legs than a walk of the day. A band's value is kept leg by leg rather than
summed, so that errors cannot cancel.

---

## 3. The runs

Seven passing runs and five that exhibit a disagreement (section 6). RouterShared
is an instance of one module. The other passing runs are *sums*: components
that touch no common state stand side by side in one instance, a variable `part`
says which of them a behaviour is of, and the others stay as they start. What a
run shows of a component is exactly what a run of that
component alone would; a resting part is started where fairness asks nothing of
it, so liveness is unaffected too. MCNodeFeeds states NodeFeeds's fairness anew for that
reason: a prober's interval always fires, so its fairness asks for it while that
part is the one that moves.

The state spaces are explored exhaustively, and no run has a state constraint but
HubAndBars (below). Symmetry is used there and in NodeChannels, neither of which
checks liveness. Deadlock is not checked anywhere: in every model the system
may stop for good (clients have all left, the session was cancelled, the bounded
number of sessions, points or subscribe calls is used up).

| Run | Question | Bounds | States |
|---|---|---|---|
| HubAndBars | Do a stale retire, an engine's exit and Shutdown racing Subscribe leave a dead session in the map, an unreachable engine, a client outside its fan-out, an unwatched session without a timer, an open client in nobody's hands? Is every point in one bar or dropped as late, bars in order, with no volume nobody traded? | 1 contract, 2 session objects, 2 subscribe calls, 1 broadcast into queues of 1; 2 strikes, one with volume, 3 points, 2 instants, volumes up to 1 | 1158 k |
| RouterShared | One subscription per router, honest breakers, cancellation ends Run? | 2 sessions, 2 feeds, cooldowns of 1, 2 failures counted | 515 k |
| GoSession | One router at a time, no touched leg without a timer, a re-arm resumes? Is an unwatched session retired, does a teardown close who is left? | 3 strikes, drift 1, 2 events buffered; 1 session, 2 subscribe calls | 111 k |
| GoStream | Is every child process watched, a silent one ended, and the supervisor a `Source`? Does every point, live or replayed, reach a client that drops, stops and resumes? | channel of 1, silence 1, back-off 1 to 2, 1 late watchdog; 1 client, 4 points, window of 1, join of 2, queues of 2 | 178 k |
| NodeChannels | No tick stream left behind, in line, overlap on a switch? Every wanted chain held, every handle owned? A continued straddle the same as a computed one, no roll unmarked? | 2 consumers, 2 contracts, 2 feeds of unequal coverage, 3 streams; 2 chains, 1 conversation, 2 reconciles, 1 crash; 3 strikes, 2 spots, 4 bars, lead-in of 1, 2 requests | 2430 k |
| NodeFailover | A probe slot always with a holder, one login per feed, a parked feed tried again? One thing under way for each open broker stream, ids current, a refused token renewed? | 2 feeds, 1 caller, 1 prober, 3 logins, threshold 1, 1 sign-out or login of a stream; 3 sockets, 3 subscribes, 2 tabs, 2 contracts, re-login after 2 retries | 329 k |
| NodeSharing | Unwatched engines released? No process without an owner, no silent chain, no desk out of reach, unused processes stopped? The page fed, and nothing opened once it has left? | 2 contracts, 3 sessions, 2 sockets; 2 desks, 1 watch, 2 entries; 5 connections, 3 faults | 262 k |
| HubPanic, SocketTwins, LiveLostContracts, BarsTwice, BandRebased | one comment each | as the passing run of the module, or smaller | |

Why these bounds meet the cases.

- *Hub.* The races need one contract; a stale retire or exit needs an old session
  object and a fresh one, which is two; a client that leaves while another joins
  is two, and since every member of `Sub` subscribes once, a reconnect is the
  second member. `Bound` cuts the states in which two session objects exist and
  one has broadcast: a run has two sessions without broadcasts or one with
  them, as both together are out of reach. The proofs cover the combination.
  GoSession has the liveness, for one session.
- *StraddlePoint.* Two strikes can roll; three points seal a bar, come late for the
  next or open one again; two instants put the clock ahead of a point's bar and a
  stamp behind it. A leg whose count begins beside the other's, and one that resets
  beside the other's nothing, are what the counts of a strike can do with volumes
  up to 1; of the other strike no volume is ever published. BarsTwice has three
  instants, since it also lets the stamps lag.
- *RouterShared.* Interference through the breakers needs two routers; a failover
  and a promotion need two feeds. With cooldowns of one unit the model still
  distinguishes free, parked and expired; the size of the cap is covered by the
  proof.
- *EngineRun.* Three strikes are what drift can leave and come back on; the
  module is otherwise one goroutine and its channels.
- *BridgeRun.* A channel of one is full or not; a silence of one unit passes or
  not; two attempts double the back-off once and meet its maximum. A late watchdog
  lasts two seconds, so that more than one at a time would need several children
  to die within them; `MaxStrays` bounds it.
- *LiveStream.* A window of one point trims at every retain, and four points
  give room for one before, two during and one after a failure; a join of two
  makes a mark both inside and outside of it possible. One client: clients share
  nothing but the window and the order of the fan-out.
- *StraddleSocket.* Three session objects for two contracts give an old session,
  its successor and another contract to move to.
- *LiveRouter.* The feed of highest priority lists one of the two contracts and
  keeps a single socket, the other lists both: choosing, switching back and a
  delayed stop meeting a new socket all occur. Three streams are one serving, one
  closing, one new; `Connects` waits for a free one, which only ever delays a
  login that takes any time as it is.
- *WatchMonitor.* A failed acquire empties a slot another reconcile has filled:
  that needs two reconciles and one chain; the second chain makes a reconcile
  stop half way. One crash puts a restart between any two steps.
- *StraddleHistory.* With the spot at the first strike, that one prints at two prices
  or is silent while the second prints at the lower of them; with the spot at the
  third, which never prints, the first has no quote. So candidates, legs and the
  anchor of a band all depend on the bar. Four bars hold a computed session, a
  lead-in, a continuation and another one on top of it.
- *NodeFeeds.* A reset lets the caller overtake a probe, whose answer then comes
  late; three logins are one current, one forgotten or a stream's, one that replaces
  it; one feed of the two has a stream. One
  error code of each kind: AUTH, which fails over and is no fault (UNSUPPORTED is
  treated alike), TRANSIENT, which is one, NOT_FOUND, which does neither.
- *BrokerStream.* Three sockets are an erred one, a closed one and the current
  one; three subscribes replace a stream during the login of the one before.
- *ChainFeed, Cockpit.* Two desks overlap in the awaits of an open; the watch
  joins, leaves and revives the chain meanwhile; two entries are one torn down
  and its successor.
- *BrowserSocket.* `MaxFaults` drops, refusals and half-open connections, after
  which the network behaves; five connections are one current and one closing for
  each fault and replacement.

What the properties say.

- Hub. `MapIsHonest` is two relations: what is registered is live and filed under
  its own contract, and every engine somebody must stop can be found by them.
  `WatcherIsServed`, `UnwatchedIsRetiring`: fan-out and timer against the clients.
  `NobodyIsForgotten`: an open client is in a fan-out or on the list of those a
  teardown or Shutdown is closing, at every step of either; one in neither would
  wait for ever.
  `GraceEnds`, `TeardownClosesSubscribers` are the same life seen as progress.
- FeedRouter. `OneSubscription`; `OnlyFailuresPark`, about steps: a growing
  cooldown has a source behind it that failed by itself, and not one its router
  stopped; `CancelEndsTheRun`. That the session was not cancelled either can be said
  of the moment its router looks, and no longer of the trip itself (section 6).
- EngineRun. `OneRouter`, `QuoteHasATimer`, `RearmResumes`;
  `OnlyATakenAnswerHangs` narrows the hang of section 6 to its cause.
- StraddlePoint. `BarsHoldThePoints` has three parts: a point is in one bar or was
  dropped, and none is lost on the way; a sample opens no bar as old as a published
  one unless the ticker closed a bar in between; and while the stamps come in order
  nothing is dropped and bars are in the order of time, however late they all are.
  `VolumeWasTraded` excepts a session whose counts have been mixed (section 6).
- LiveStream. `NoHole`, `EveryPointArrives`: a client's history is contiguous, and
  what was broadcast while it was attached, or retained after the mark it came
  back with, arrives even when nothing follows it.
- BridgeRun. `ChildIsWatched`, `SilentIsEnded`, `ImplementsSource`.
- StraddleSocket. `UnwatchedIsReleased`.
- LiveRouter. `NoStreamLeak`, `InLine`, `MakeBeforeBreak`.
- NodeFeeds. `SlotHasAHolder`, the relation between a breaker and the calls in
  flight that keeps it from locking up; `OneLogin`: what is in flight beside the
  login that callers share is forgotten or a stream's, and nobody waits for a
  stream's; `ParkedIsProbed`.
- BrokerStream. `OneWayForward`: of socket, retry timer and login an open stream
  has exactly one, a closed one none. `TopicsAreCurrent`, `RefusedIsRenewed`.
- ChainFeed, Cockpit. `ProcessIsOwned`, `SilentForAReason`, `DeskIsReachable`,
  `UnusedIsStopped`. The exceptions they name are the faults listed in section 6:
  they hold in every case but those.
- WatchMonitor. `WantedIsHeld`, `EveryHandleIsOwned`, likewise: the first excepts
  a chain whose acquire failed and one no reconcile has looked at for want of a
  session.
- BrowserSocket. `WantedIsFed`, `LeftIsLeft`.
- StraddleHistory. `CaughtUpIsComputed` says under what condition the claim of the
  catch-up's header holds: of a straddle, with a lead-in that sees at the seam the
  quotes a full walk has. Of a band nothing of the kind is claimed (section 6).
  `EveryRollIsMarked` holds of both, without any condition.

---

## 4. Fairness

Only what the runtimes and the code guarantee is assumed; no client subscribes,
leaves or resumes, no feed publishes or fails, no signal arrives because of it.

- *Hub.* Weak fairness for each goroutine that can take a step, for an armed timer
  and for the engine's return once its context has ended. The last is the
  assumption that fails in the interleaving of section 6; `GraceEnds` and
  `TeardownClosesSubscribers` hold for the others.
- *FeedRouter.* Weak fairness for the router's goroutine, for time and for a
  cancelled source's return. Strong fairness for `ServeCancelled`: `select`
  chooses at random among ready cases, so a context that stays done while frames
  keep coming is chosen sooner or later, although taking frames disables the case
  in between.
- *EngineRun.* Weak fairness for Run, for each of pump's cases that stays ready,
  and for the router's return after cancellation (checked in RouterShared).
- *BridgeRun.* Weak fairness for Run's goroutine, for the watchdog (its ticker,
  its report, its kill), for late watchdogs, for time, and for a killed child's
  exit. Nothing makes a child speak or exit, or anybody read the channel: the
  report waits two seconds at most, as EmitBlocking does.
- *LiveStream.* Weak fairness for broadcast, pump, writer and the handler's steps.
  A socket that takes no frames is one that fails, or a client that becomes lossy.
- *StraddleSocket.* startEngine settles (its probe, handshake and requests have
  timeouts) and a pending timer fires. Nothing makes the market close.
- *Cockpit.* Pending reapers and idle checks fire, minutes pass, an acquire settles.
  Nothing makes a bridge print or exit, and nothing makes a handle's owner let go.
- *NodeFeeds.* A call that is running settles (requests have timeouts), a login
  settles, time passes, and the prober's interval fires.
- *BrokerStream.* A handshake is answered, a pending timer fires and a login settles.
  A broker that accepts a dead token closes the socket at some time
  (`token = "stale" /\ SocketClose`); no socket with a good token need close or err.
- *BrowserSocket.* A page opens its feed, a retry and the silence check fire, a
  handshake is answered and a closing socket reports it, unless it is one of the
  bounded faults. `Silent` waits for a connection to have had its chance: that
  SILENCE_MS is far longer than a retry and a handshake is assumed.
- *LiveRouter, WatchMonitor, StraddleHistory, StraddlePoint.* None, and no
  liveness: a pinned feed whose login is refused is retried for ever, a failed
  acquire is not retried until the next reconcile, a request fails at will.

---

## 5. The proofs

A theorem holds for every value of the constants that satisfies the `ASSUME` of
its module: any number of contracts, sessions, clients, feeds, streams, callers
and strikes, any queue size, cooldown, silence, drift and coverage. The
assumptions are that sizes are natural numbers (non-zero where a channel or a list
must have room), that the slots of watches and of conversations differ, that a
cooldown does not exceed its maximum, that strikes are above zero and what prints
is numbers, that a quote's forward is one of the strikes (which are one step apart), that
legs whose volume is counted are legs, that the holders of a chain are finitely
many, since their references are counted, and that the values for "none" are not members of the
sets they stand beside. Nothing else is assumed, and no fairness.

Each module's argument is one inductive invariant.

**HubProofs.** `Inv == TypeOK /\ Pointers /\ LifeInv /\ WatchInv`.
`Pointers` says that what is in flight points at session objects that exist, and
is needed with TypeOK before any map lookup makes sense. `LifeInv` is
`MapIsHonest` with what it rests on: an unborn session has
no context, timer or key; no caller holds one; and a session in Shutdown's list
is unregistered. `WatchInv` strengthens `UnwatchedIsRetiring`: *without* a timer
an empty registered session has a caller about to attach, and *after* the timer
fired it has a retire in flight. The weaker property is not inductive, since it
forgets which of its alternatives a step may take away. Theorems: `TypeCorrect`,
`MapIsSound`, `NothingIsLeaked`, `WatchersAreServed` (with `RetiringSoonIsHonest`:
a set grace timer means nobody is attached, which no run checks).
`NobodyIsForgottenHolds` rests on `ListInv`: a session's list of clients to close is
empty until its teardown takes the fan-out, so that no step overwrites a list with
somebody still on it, and each goroutine that empties a fan-out takes its clients
over in the same critical section.

**FeedRouterProofs.** `Inv == TypeInv /\ SourceInv`. `TypeInv` carries the bound
`Longest` on parked times, picks and timers together, because a bound on one
comes from the others; lemma `CappedBound` bounds the shifted cooldown for every
exponent, so the cap does not depend on the number of failures counted.
`SourceInv` adds to `OneSubscription` what a router that is about to record a
failure knows of its source: it failed, or it was stopped and then the session's
context has ended, so that one about to *trip* has looked at a source that failed.
That is the link `OnlyFailuresPark` needs. Theorems:
`OneSubscriptionHolds`, `CooldownIsCapped` (`CooldownCapped` is proved only),
`OnlyFailuresParkHolds` (an action property).

**EngineRunProofs.** `RunInv` says, for each place of Run, what it is owed:
in `pump` exactly one router or its answer; in `join` the same, unless pump left
with the answer, and then nothing. The timer's flag and the timer agree; a dirty
leg has its timer in pump. Theorems: `OneRouterHolds`, `QuoteHasATimerHolds`,
`OnlyATakenAnswerHangsHolds`. The third one is the exact extent of the hang of
section 6.

**StraddlePointProofs.** `BarsHoldThePoints` is proved with what it rests on.
`Stamps`: what waits for the timer bears the last stamp, and while the stamps are
in order no bar is newer than the last of them. `OpenIsNewest`: nor is a published
bar newer than the open one. `ClockClosedIt`: when no bar is open, the clock closed
the last one, which is what `OnlyTheClockForgets` needs when the next is opened.
The arithmetic is in two lemmas (`Buckets`, `BucketsAdvance`): a bar begins no later
than its instant, and a later instant is in no earlier bar; `LateIsUnordered` says
that a sample Add drops is a sign of stamps out of order. Without order there is no
claim of order, and the other two parts hold all the same. Theorems: `InvHolds`,
`BarsHoldThePointsHolds`.
`VolumeWasTradedHolds` needs `Volumes`: what the next sample would add, `Due`, is
part of what the open bar may still say. `SumsGrowWithTheirParts` is the reason for
the exceptions: the sum of two counts grows by no more than its part, unless the part
begins or starts anew beside the other. It survives a reset beside nothing since
`Grown` is subadditive (`GrowthAdds`): what a volume grew by from its last sample to
the next is at most what it grew by, frame by frame, in between.

**GoStreamProofs, of BridgeRun.** A child exists between Start and Waited, its watchdog while
the output is scanned; a step that lets go of a child ends it, or is one of the
exceptions `ChildIsWatched` names. With that, `StepsImplementSource`: every step
maps to a step of `Source` or to a stutter under the mapping of 2.2. The liveness half
of `ImplementsSource` (a cancelled source returns) is checked by GoStream.

**GoStreamProofs, of LiveStream.** That no hole is left among the points a client
holds is not inductive: it depends on every frame on its way there. `StreamInv`
takes the client and what is queued for it together. `WindowSound` is the engine's
window and the broadcast; `HandlerSound` says, for each place of the handler, what
its mark and its reply are worth; `DataSound` that a subscriber's queue is one run of
points up to the next one sent; `FlowSound`, of a client whose frames all fitted,
that each frame in `writes` joins what the client will have by then, and the
next point the pump takes joins what it will have after all of them. Lemmas on
runs of points and on queues of frames (`RunsJoin`, `FrameTaken`, `QueueTaken`,
`WritesTaken`) carry it through the steps; `ReplayIsHonest` is what `ReplaySince`
returns. Theorems: `StreamInvHolds`, `NoHoleHolds`.

**NodeSharingProofs, of StraddleSocket.** `SessionInv` has three properties no run needs to
check, `OneFanout`, `UnwatchedHasATimer` and `RegisteredIsPending`, and what makes
them inductive: an
unborn session has no clients or timers, a close timer belongs to a running
engine, and a *registered* session without clients has its idle timer even
while it is starting, from which `UnwatchedHasATimer` follows when the start
succeeds. `RegisteredIsPending` is the one that could fail: endSession deletes by
key. It holds because what it deletes too much of only empties the map.

**NodeSharingProofs, of ChainFeed and Cockpit.** `CockpitInv` counts: an entry's `refs`
is the number of holders that hold it, a reaper is pending only at zero, and an
entry that is current or held has a process, one coming, or one of the two reasons
`SilentForAReason` names: its last child could not be started, or was lost while
nobody held the chain. The clause about the *current* entry is the
strengthening: the next caller to join makes it a held one. Of a desk it says where
its opening is and what that means for its hold. Counting needs the library's
theorems on cardinality, in `OneMoreHolds` and `OneLessHolds`. Theorems:
`CockpitInvHolds`, `ProcessIsOwnedHolds`, `SilentForAReasonHolds`,
`DeskIsReachableHolds`.

**NodeSharingProofs, of BrowserSocket.** `LeftIsLeftHolds` (an action property): a page
that is done or has left has no timer, no socket in its fields, and `closedByUs`
set; a late close of an old socket leaves it so.

**NodeChannelsProofs, of LiveRouter.** `RouterInv` is `NoStreamLeak`, `InLine` and: a reconcile in
flight that nothing has overtaken carries exactly what is wanted. `Reconcile` and
`ReconcileOnce` are used by six actions; each has one lemma
(`ReconcileOnceIsSound`, `ReconcileIsSound`) that the actions' lemmas cite with
the subscriptions as they will be. `MakeBeforeBreakHolds` (an action property)
needs `ActiveOnItsFeed`: the active stream, while open, is open on the active
feed, so what an adapter of another feed replaces cannot be it.

**NodeChannelsProofs, of WatchMonitor.** `WantedIsHeld` speaks of the moment no
reconcile runs; inductive is what a running one owes: a wanted slot that is not held
is reserved by a call waiting for it, still ahead of a call that has not visited
it, or unseen. Handles and slots agree but for the spoiled; a conversation that is over has an
empty slot unless its last turn came late. `VisitIsSound` and `VisitKeeps` are the
loop of reconcileChains, `WithoutIsSound` and `ArrivedIsSound` the two ends of its await. Theorems:
`WatchInvHolds`, `WantedIsHeldHolds`, `EveryHandleIsOwnedHolds`.

**NodeChannelsProofs, of StraddleHistory.** A walk and the filter of its tail are
functions defined by recursion over the bars. What one does is shown by induction
over a *set* of bars (`FromThereOn`, from the library's well-foundedness of the
naturals), after `WalkExists` and `WalkUnique` have shown that there is exactly one
such function: `WalkGoesOn` is then the recursion as an equation, and `WalkRemains`
says that a walk reads the bars it covers and no other, so that what prints later
does not change it.

`HistoryInv` keeps the session cached, and each that a catch-up under way has read,
in order: bars ascending and on the tape, a change of strike a roll, the rolls and
the list the same. It holds of every walk, and of what is later than the seam in one
(`WalkTail`); a head that came without a bar before it is what Joined is for
(`HeadMarked`); and two such sessions, one later than the other, make one
(`MarkedJoined`). No lead-in has to be warm for this.

`ComputedInv` says of the same sessions, of a straddle, that they are the day's walk
up to their last bar if every seam was warm; those that requests under way have read
are in it, since the next to be cached is one of theirs continued. Along the argument:
a straddle's walk reads the quotes and the spot of the bar and nothing that it
resumed from but the last strike (`StraddleSteps`); quotes that agree at one bar agree
at every later one, whatever a walk resumed from (`QuotesGoOn`); hence at the seam,
where there is a bar and so a quote (`QuotedAtBar`), the strike is the same. From there
on the two walks add the same (`TailAgrees`), there is nothing left to join
(`NothingToJoin`), and a walk that has made no bar since has not moved (`WalkQuiet`). Of
a band no such theorem holds: its legs are of the window walked and its search begins
at another bar's forward; BandRebased and section 6 tell how far it goes.
`HistoryAssumption` asks for strikes above zero and prints that are numbers, zero
being a print that is no quote. Theorems: `HistoryInvHolds`, `EveryRollIsMarkedHolds`,
`ComputedInvHolds`, `CaughtUpIsComputedHolds`.

**NodeFeedsProofs, of NodeFeeds.** `Inv == TypeOK /\ Placed /\ SlotHasAHolder /\ OneLogin`;
`Placed` says that a call that is not idle is at a feed, and an idle one waits for no
login. Every action that goes on to another feed does so through `Walk`, with the
breakers as the call before left them, so `WalkIsSound` and `ConnectingIsSound`
carry the argument and each action's lemma cites them. Theorems: `InvHolds`,
`SlotHasAHolderHolds`, `OneLoginHolds`.

**NodeFeedsProofs, of BrokerStream.** `OneWayForward`, read as a predicate of the stream
object (`OneWay`), holds of what each helper returns (`RetryIsDue`, `DownIsDue`,
`ClosedIsAtRest`), and the sockets' part of every action is one of three: a
socket goes, one goes on, one is dialled. Theorems: `BrokerInvHolds`, `OneWayForwardHolds`,
`TopicsAreCurrentHolds`.

What stays with TLC. Liveness, because the provers have no rule for fairness or
ENABLED here: every `~>` and the second half of `ImplementsSource`. Every safety
property a passing run checks is a theorem. No recursive operator is declared anywhere: the walk is a recursive function, and
the shifted cooldown `Capped` reads its powers of two from a table, flat from the
seventeenth failure on as in the code.

---

## 6. Where the code and its comments differ

Five have a run with a counterexample.

1. **HubPanic** (`hub.go:134`). "the session keeps computing across a reconnect"
   (19-20). `send` tests `closed` and then sends; broadcast works on a snapshot,
   so an Unsubscribe can close the channel in between. A send on a closed channel
   ends the process and every session in it. In the model: two clients, one
   leaves while a broadcast is between the two steps.
2. **SocketTwins** (`wsStraddle.ts:167`). "N tabs on the same contract cost one
   bridge instead of N" (33-34). endSession deletes by key, without the identity
   test subscribe makes at 313. A session stopped while starting ends twice; the
   second end unregisters its successor, and the next subscribe starts a second
   engine.
3. **LiveLostContracts** (`liveRouter.ts:197`). "re-subscribe in place so newly
   added contracts are picked up" (215-216). A change during a reconcile gets that
   reconcile's promise, and nothing reconciles again. With two consumers it needs
   no slow login: wsQuotes unsubscribes and subscribes in one turn, and the
   unsubscribe's reconcile is the one in progress.
4. **BarsTwice** (`agg.go:113`). "letting a late tick reopen a closed bar would
   mutate a bar the client has already drawn" (105-108). The ticker closes a bar by
   its own clock while a frame of that bar waits for the throttle timer, or is on its
   way from the child that stamped it; the point bears that frame's time, there is no
   open bar to compare with, and Add opens the
   closed bar again. It is published twice, the second time with the late samples.
5. **BandRebased** (`bandGreeks.ts:244`). "replaying the same bars reproduces the
   same map rather than disturbing it" (`straddleCatchUp.ts:245-247`). The replay
   begins with cold cursors, so a leg that prints nothing in the first bar of the
   lead-in counts as one that left the band; its baseline is forgotten and taken
   anew when it prints again. For the rest of the day the band is off by what the leg had
   gained.

Others were met while reading and modelling. The models that cover them have the
behaviour, and where it is an exception to a property the property names it; no run
is given to them.

*Go.*

- `engine.go:309`: `done` gives one answer. If pump's select receives it, because
  the router returned by itself or because both cases were ready, Run then waits
  for it again, for ever: the session is never unregistered. "Run owns the
  subscription until ctx ends" (279). `OnlyATakenAnswerHangs` says it hangs in no
  other way.
- `engine.go:842-844` with `agg.go:130-143`: "Volume rides along as the two legs'
  traded volume so a candle carries the activity that produced it". Add subtracts the
  last sum from this one. After a roll those are two strikes'; a leg that publishes
  its first volume beside the other's (`engine.go:670-682`, absent counted as 0) adds
  its whole day to one bar; and a leg whose count begins anew beside the other's
  makes the sum shrink, which Add takes for a new day and adds the whole of. These
  are the cases `mixed` names; `VolumeWasTraded` without it is violated.
- `agg.go:105-118`: a point older than the open bar is dropped, so a frame stamped
  before one that has been computed is in no bar (`dropped`), and if it is the last
  of its throttle window the later ones' values go with it.
- `router.go:163, 178`: the context is looked at, and then the feed is tripped. A
  session cancelled in between parks the feed for the others although it has ended;
  what was tripped did fail.
- `router.go:274`: a promotion returns nil, which Run takes for a finished source:
  the run ends rather than switching back (126, 272). It needs two sources.
- `hub.go:193`: a Subscribe that has left `h.mu` can attach after the engine
  returned and closeAll ran; it is then attached to a session that is gone and
  never closed, which 322-323 mean to prevent.
- `hub.go:424`: nothing marks the hub closed, so a session started after Shutdown
  took the map is not cancelled.
- `hub.go:141` with 51-53 and `main.go:277`: a slow client's Subscriber is closed,
  but the socket stays open and says nothing; and a frame that finds the write
  queue full is dropped. Either way the client sees a hole it does not know of
  until it next reconnects. `EveryPointArrives` and `NoHole` except it by name.
- `main.go:257-259` and `wsStraddle.ts:236-239`: "the client never has to reorder".
  A resume can hand a client points it already has, and after newer ones.
- `bridge.go:374-377`: an overlong line ends the scan while the child lives, with
  no watchdog until it exits (`abandoned`). The watchdog decides on an age it read
  a moment before, so it may end a child that has just spoken.
- `book.go:151-155` makes TwoSided the gate for a mid, while readLeg falls back to
  the last trade.

*Node, calls and logins.*

- `feeds/router.ts:196`: a probe that ends in AUTH is recorded as a success and
  closes the breaker.
- `breaker.ts:88`: an answer of a call let through before the breaker opened settles
  the probe's slot, so two probes can be under way, where one is meant.
  `breaker.ts:83-85` cannot be reached.
- `authManager.ts:126`: a late AUTH answer disconnects the session another call has
  renewed. `:134`: a signOut during a login lets a second one start beside it.
- `adapters/angel/index.ts:191-197`: the live stream logs in by clearing the session
  and calling connect itself. Callers then find no session and no login in flight
  (`authManager.ts:80-82`) and start another, so that two logins of one account run
  beside each other: "one login at a time, per feed" (`authManager.ts:4-10`),
  "there is exactly one" (`angel/index.ts:200-205`), "cannot race the tick
  socket into two logins" (`orderStream/angel.ts:322-325`, true of the order
  stream's own). `OneLogin` names them (`beside`).

*Node, live channels.*

- `wsStraddle.ts:216`: a client's stop ends the session at once when it was the
  last, where 41-43 have the grace period. `:268`: a second
  subscriber of a session whose start fails is told "resumed" after the error.
- `engineClient.ts`: when the engine's socket closes the handle is dead, but the
  session stays registered and is resumed by the next subscriber; nothing
  reconnects.
- `liveRouter.ts:171`: a pin ignores parking, so a pinned feed whose login is
  refused at once is tried again without pause when another feed is registered
  (232-233). `:236`: expired entries count as parked. `:237`: ticks are "paused
  until one recovers", but no recovery reconciles. `:230`: an adapter that closed
  its stream before failing leaves `active` naming a dead one, which a later
  reconcile for the same contracts takes for serving.
- `angel/stream.ts:319-328`: an expired token gets to a new login when the handshake
  is refused, not when the broker accepts it and then drops the socket, since the
  handshake clears the retries. `RefusedIsRenewed` is stated for the first.
- `kotak/stream.ts:305-309`: a rejected authentication closes the stream and nobody
  is told. `orderStream/angel.ts`: "re-auth immediately" on a 401 needs a
  second refusal.

*Node, shared chains.*

- `chainFeed.ts:319, 330`: a bridge that exits during the grace period leaves a chain
  without a process, and who acquires it then gets a silent one. "missing python"
  (321-322) does not respawn at all: a child that cannot be started raises 'error'
  and no 'exit' (`liveBridge.ts:164-178`), onExit never runs, and the entry keeps the
  handle of a child that never was, with no restart pending, for as long as it is
  held. A script that is missing is reported through onExit, but at the first spawn
  `refs` is still 0, so that it is not retried either. An entry registered before the await may be torn
  down during it, and the bridge then belongs to no map.
- `expiry/session.ts:323`: two opens of one contract both pass the check; one
  overwrites the other. `:227` with 112-114: sample's own publishing keeps
  `lastTouched` fresh, so a desk whose chain prints is never idle.
- `monitor/engine.ts:179`: a failed acquire deletes whatever is in the slot, also
  another reconcile's. `wsAssistant.ts:181`: a conversation that closes during a
  turn leaves the chain the turn acquires.
- `monitor/engine.ts:155-156`, `assistant/index.ts:101-102`, `routes/assistant.ts:53-54,
  67-68`: watches "survive a restart" (`watchStore.ts:4-10`), but nothing reconciles
  without a session, a new process has none, and a login starts no reconcile. A watch
  that was reloaded, or resumed while nobody was logged in, watches nothing until the
  first conversation connects with a session there, or somebody changes a
  watch (`unseen`). Nor does a cancel without a session release its chain, which
  streams on until the next reconcile.
- `monitor/engine.ts:168`: a reconcile goes on through the list it read before its
  awaits, so one that is older can acquire a chain that a newer one has let go; it is
  held until the next reconcile, though no watch wants it. The model has this, and
  `WantedIsHeld` speaks of the other direction only.
- `watchStore.ts`: said to be written on every mutation, written 500 ms later; a
  crash loses what had changed since. A watch's latch is not
  written at all.

*Node, history and files.*

- `straddleCatchUp.ts:11-13`, "a caught-up bar and a freshly computed bar are the
  same object": not when a contract last printed before the lead-in. The continued
  session may even have a roll that was none. `CaughtUpIsComputed` has the condition.
  Of a band it is not so even then: the legs fetched are those about the range of the
  spot in the window walked (`bandGreeks.ts:366-389`), so that a leg the day's walk has
  may be missing from a continuation's, or keep a baseline from before; and the search
  for the ATM starts from the forward of the last bar, carried to a bar before it
  (143-144, 441-455), which the day's walk had not reached there.
- `routes/straddle.ts`: two catch-ups at once may put the cache back to an older
  tail; one in flight stores again what cache-invalidate has deleted, which does not
  normalise the expiry and leaves the `|band:` and `|rr:` entries. The comments of
  174-176 have the chart use `/stream`; it posts to `/history` (`queries.ts:391`).
- `routes/straddle.ts`: `Number(null)` is 0, so the deltas' defaults never apply.
- `instrumentCache.ts:79-80`, "An evicted slot is not lost": searchEligible reads
  memory only, so an evicted slot vanishes from search until it is asked for by name; a
  warm-up that failed is not retried that day.
- `computeClient.ts:169`: once unhealthy, the sidecar is never probed again,
  although 56-61 say one probe a minute will notice it coming back.

*Browser.*

- `socket.ts:127` after `useLiveStraddle.ts:289-290`: onclose acts on the socket that
  is current, so after close and connect in one turn the old socket's late close
  forgets the new one and a third is made; two connections stand side by side. The
  page is fed all the same (`WantedIsFed`).

---

## 7. What is not modelled

PROJECT.json lists every component with its status. Left out for good:
floating-point pricing and analytics (TLC has integers, and an integer version
would say nothing of convergence), language understanding, wire formats, parsing,
files and instrument masters, rendering. Left out of the modelled components: REST
handlers and pings of marketd; replies of wsStraddle that change nothing; the
tick map of LiveRouter; the market-state heartbeat of the engine; Nubra's bridge
process on the Node side; the snapshot route, and the framing of the streamed
history.

What would come next, were the project continued: the instrument cache (its memory,
its files and the warm-ups in flight), the TypeScript engine that stands in for
the Go one, the client of the compute sidecar, and an abstract shared session
implemented by Hub and by StraddleSocket, whose counterexamples in section 6 are
where such a mapping would fail.

---

## 8. Working with the project

Each run is `tlc -workers 2 -config <Run>.cfg <MC module>`, as PROJECT.json pairs
them; each of the passing ones takes between one and three and a half minutes. Each proof
module is `tlapm <Module>.tla`, and takes between a few seconds and some minutes.

When the code changes: PROJECT.json's `map` gives the lines each definition
stands for, and its `mutants` a plausible error for each property, already written
as an operator beside the definition it would replace (marked "Mutant" in the
modules). A mutant is no part of the specification.
