----------------------------- MODULE BrowserSocket ----------------------------
(* src/lib/socket.ts's LiveSocket as src/hooks/useLiveStraddle.ts uses it: one    *)
(* reconnecting connection for a contract, replaced when the feed goes quiet.     *)
(*                                                                              *)
(* A WebSocket that is closed reports it later ("closing" until then), and its    *)
(* handlers run whichever socket is current by then.  A socket can be half open:  *)
(* it delivers nothing and reports nothing (`quiet`).  Delays and the attempt     *)
(* that sets them are left out, and pings, whose one effect is that an open       *)
(* current socket is never silent for want of trades.                            *)
EXTENDS Naturals

CONSTANTS
  Socket,     \* bound: connections that can exist at once
  NoSocket,
  MaxFaults   \* bound on what the network does wrong

VARIABLES
  sock,    \* "gone", "connecting", "open", "closing"
  fed,     \* the sockets the server has a subscription from
  quiet,   \* the sockets that are half open
  field,   \* LiveSocket's ws, retryTimer, closedByUs and state
  page,    \* LiveStraddleSession: "opens", "wants" the feed, is "done" with it, or has "left"
  faults

pageVars == <<sock, fed, quiet, field, page, faults>>

PageTypeOK ==
  /\ sock \in [Socket -> {"gone", "connecting", "open", "closing"}]
  /\ fed \subseteq Socket /\ quiet \subseteq Socket
  /\ field \in [ws : Socket \cup {NoSocket}, retryTimer : BOOLEAN, closedByUs : BOOLEAN,
                state : {"connecting", "open", "closed"}]
  /\ page \in {"opens", "wants", "done", "left"} /\ faults \in 0..MaxFaults

PageInitAt(p) ==
  /\ sock = [s \in Socket |-> "gone"] /\ fed = {} /\ quiet = {}
  /\ field = [ws |-> NoSocket, retryTimer |-> FALSE, closedByUs |-> FALSE, state |-> "closed"]
  /\ page = p /\ faults = 0
PageInit == PageInitAt("opens")

Live(s) == sock[s] \in {"connecting", "open"}
Delivers(s) == sock[s] = "open" /\ s \notin quiet /\ (s \in fed \/ s = field.ws)

scheduleRetry(f) == [f EXCEPT !.retryTimer = TRUE]

(* connect, from what close may just have left of the fields and the sockets.     *)
connect(f, sockets) ==
  \/ f.ws # NoSocket /\ sockets[f.ws] \in {"connecting", "open"} /\ field' = f /\ sock' = sockets
  \/ /\ ~(f.ws # NoSocket /\ sockets[f.ws] \in {"connecting", "open"})
     /\ \E s \in Socket :
          /\ sockets[s] = "gone" /\ sock' = [sockets EXCEPT ![s] = "connecting"]
          /\ field' = [f EXCEPT !.ws = s, !.closedByUs = FALSE, !.state = "connecting"]

(* close: the socket in use is told to close, and forgotten at once.             *)
CloseKeepingTimer(f, kept) == [ws |-> NoSocket, retryTimer |-> kept, closedByUs |-> TRUE, state |-> "closed"]
ClosedButRetrying(f) == CloseKeepingTimer(f, f.retryTimer)  \* Mutant: a pending retry outlives close
Closed(f) == CloseKeepingTimer(f, FALSE)
Hung(f) == [s \in Socket |-> IF s = f.ws THEN "closing" ELSE sock[s]]
close == field' = Closed(field) /\ sock' = Hung(field)

(* onopen: the subscription goes to the socket in use, if that is open.          *)
onopen(s) ==
  /\ sock[s] = "connecting"
  /\ sock' = [sock EXCEPT ![s] = "open"]
  /\ field' = [field EXCEPT !.state = "open"]
  /\ fed' = fed \cup {t \in Socket : t = field.ws /\ sock'[t] = "open"}
  /\ UNCHANGED <<quiet, page, faults>>

(* onclose: the fields, not the socket, are what it acts on.                     *)
Ended(s) ==
  /\ sock' = [sock EXCEPT ![s] = "gone"]
  /\ fed' = fed \ {s} /\ quiet' = quiet \ {s}
Dropped(f) == [f EXCEPT !.ws = NoSocket, !.state = "closed"]
onclose(s) ==
  /\ Ended(s)
  /\ field' = IF ~field.closedByUs THEN scheduleRetry(Dropped(field)) ELSE Dropped(field)
  /\ UNCHANGED page

Closing(s) == sock[s] = "closing" /\ onclose(s) /\ UNCHANGED faults
Fails(s) == Live(s) /\ faults < MaxFaults /\ faults' = faults + 1 /\ onclose(s)
HalfOpen(s) ==
  /\ sock[s] = "open" /\ s \notin quiet /\ faults < MaxFaults /\ faults' = faults + 1
  /\ quiet' = quiet \cup {s}
  /\ UNCHANGED <<sock, fed, field, page>>

Retry ==
  /\ field.retryTimer
  /\ connect([field EXCEPT !.retryTimer = FALSE], sock)
  /\ UNCHANGED <<fed, quiet, page, faults>>

(* The page.  open makes the socket; the last consumer's leaving closes it.       *)
Open ==
  /\ page = "opens" /\ page' = "wants"
  /\ connect(field, sock)
  /\ UNCHANGED <<fed, quiet, faults>>
PageLeaves ==
  /\ page \in {"wants", "done"} /\ page' = "left"
  /\ close
  /\ UNCHANGED <<fed, quiet, faults>>

(* A frame that says the market has closed, or that the login was refused.        *)
FeedEnds ==
  /\ page = "wants" /\ page' = "done"
  /\ \E s \in Socket : Delivers(s)
  /\ close
  /\ UNCHANGED <<fed, quiet, faults>>

(* check: an open socket nothing has been heard from is closed and replaced in    *)
(* one turn.  SILENCE_MS is many times the longest retry delay or handshake, so    *)
(* none of those is pending by then; the close of an older socket may be.         *)
Silent ==
  /\ field.state = "open" /\ ~field.retryTimer
  /\ \A s \in Socket : sock[s] # "connecting" /\ ~Delivers(s)
CheckUnlessQuiet ==  \* Mutant: trusts readyState
  /\ page = "wants" /\ Silent /\ \A s \in quiet : sock[s] # "open"
  /\ connect(Closed(field), Hung(field))
  /\ UNCHANGED <<fed, quiet, page, faults>>
check ==
  /\ page = "wants" /\ Silent
  /\ connect(Closed(field), Hung(field))
  /\ UNCHANGED <<fed, quiet, page, faults>>

PageNext ==
  \/ Open \/ PageLeaves \/ FeedEnds \/ check \/ Retry
  \/ \E s \in Socket : onopen(s) \/ Closing(s) \/ Fails(s) \/ HalfOpen(s)

(* The browser runs its timers and ends a close; a server that does not fail      *)
(* answers a handshake.                                                          *)
PageFairness ==
  /\ WF_pageVars(Open) /\ WF_pageVars(check) /\ WF_pageVars(Retry)
  /\ WF_pageVars(\E s \in Socket : onopen(s)) /\ WF_pageVars(\E s \in Socket : Closing(s))

PageSpec == PageInit /\ [][PageNext]_pageVars /\ PageFairness

(* A page that wants its feed is fed again, after a drop, a refused handshake or  *)
(* a connection that is open and dead.                                           *)
WantedIsFed == page = "wants" ~> (page # "wants" \/ \E s \in Socket : s \in fed /\ Delivers(s))

(* A page that has left, or whose feed has ended for good, opens no connection:   *)
(* 'retrying is a login storm against the endpoint that just refused us'.         *)
LeftIsLeft ==
  [][\A s \in Socket : page \in {"done", "left"} /\ sock'[s] = "connecting" => sock[s] = "connecting"]_pageVars

================================================================================
