----------------------------- MODULE BrokerStream -----------------------------
(* The four sockets the Node backend keeps to brokers: the tick streams of       *)
(* Angel, Kotak and Zerodha (backend/feeds/adapters/*/stream.ts), and Angel's    *)
(* order stream (backend/trading/orderStream/angel.ts) with the tabs that share   *)
(* it (backend/live/wsOrders.ts).  They are one class written four times, so a    *)
(* behaviour is that of one `kind`; what differs is an action of its own.        *)
(*                                                                              *)
(* `stream` holds the fields of the stream object in use; a subscribe makes a    *)
(* fresh one.  Delays are left out: a timer that is set may fire.  `retries` is   *)
(* kept up to ReauthAfter, beyond which only the delay tells its values apart.    *)
EXTENDS Naturals, Functions

CONSTANTS
  Kind,          \* the kinds of stream that occur
  Socket,        \* bound: sockets that can exist at once
  NoSocket,
  ReauthAfter,   \* REAUTH_AFTER_RETRIES
  Tab,           \* browser sockets on /ws/live/orders
  Key, NoKey,    \* contracts a Kotak stream carries
  Topic,         \* the ids HSM gives them
  MaxSubscribes  \* bound on the streams opened

ASSUME BrokerAssumption == NoSocket \notin Socket

VARIABLES
  kind,
  broker,  \* what a dead token meets: "refuses" the handshake, or "drops" the socket
  token,   \* the session dialled with: "good", "stale", or "none" (orders)
  stream,  \* the fields of the stream object
  sock,    \* the sockets; "erred" has reported its error, its close event is to come
  orphan,  \* a closed stream still awaits its login
  topics,  \* KotakStream.topics: what each id stands for
  assign,  \* the id HSM gave each contract on this connection
  tabs,    \* wsOrders: subscribers
  idleTimer,    \* wsOrders: the timer is set
  opened   \* streams opened so far

brokerVars == <<kind, broker, token, stream, sock, orphan, topics, assign, tabs, idleTimer, opened>>
constant == <<kind, broker>>
kotak == <<topics, assign>>
orders == <<tabs, idleTimer>>

Alive(s) == sock[s] \in {"dialing", "open", "accepted"}
Set(s, to) == sock' = [sock EXCEPT ![s] = to]

NewStream == [phase |-> "open", ws |-> NoSocket, retryTimer |-> FALSE, ping |-> FALSE,
              retries |-> 0, due |-> TRUE, relogin |-> FALSE]

BrokerTypeOK ==
  /\ kind \in Kind /\ broker \in {"refuses", "drops"} /\ token \in {"good", "stale", "none"}
  /\ stream \in [phase : {"open", "stopped", "closed"}, ws : Socket \cup {NoSocket}, retryTimer : BOOLEAN,
                 ping : BOOLEAN, retries : 0..ReauthAfter, due : BOOLEAN, relogin : BOOLEAN]
  /\ sock \in [Socket -> {"gone", "erred", "dialing", "open", "accepted"}]
  /\ orphan \in BOOLEAN /\ topics \in [Topic -> Key \cup {NoKey}] /\ assign \in [Key -> Topic]
  /\ tabs \subseteq Tab /\ idleTimer \in BOOLEAN /\ opened \in 0..MaxSubscribes

BrokerInit ==
  /\ kind \in Kind /\ broker \in {"refuses", "drops"}
  /\ token = IF kind = "orders" THEN "none" ELSE "good"
  /\ stream = [NewStream EXCEPT !.phase = "closed"]
  /\ sock = [s \in Socket |-> "gone"]
  /\ orphan = FALSE
  /\ topics = [i \in Topic |-> NoKey] /\ assign \in Injection(Key, Topic)
  /\ tabs = {} /\ idleTimer = FALSE /\ opened = 0

(* scheduleReconnect: one timer, none for a closed stream.                      *)
scheduleReconnect(st) ==
  IF st.retryTimer \/ st.phase # "open" THEN st
  ELSE [st EXCEPT !.retryTimer = TRUE, !.retries = IF @ < ReauthAfter THEN @ + 1 ELSE @]

(* connect: a socket that replaces none.                                        *)
Dial(st) == \E s \in Socket : sock[s] = "gone" /\ Set(s, "dialing") /\ stream' = [st EXCEPT !.ws = s]
connectAnew(st) == Dial([st EXCEPT !.retries = 0])  \* Mutant: dialled is taken for recovered
connect(st) == Dial(st)

(* The order stream reads the account's session at every attempt and waits      *)
(* while there is none.                                                         *)
OrdersConnect(st) ==
  \/ token # "none" /\ connect(st)
  \/ token = "none" /\ stream' = scheduleReconnect(st) /\ UNCHANGED sock

Connects(st) == (kind = "orders" /\ OrdersConnect(st)) \/ (kind # "orders" /\ connect(st))

(* close: `closed` is for good; the socket's own close event finds nothing.     *)
Closed(st) == [st EXCEPT !.phase = "closed", !.ws = NoSocket, !.retryTimer = FALSE, !.ping = FALSE, !.relogin = FALSE]
Hung(st) == [s \in Socket |-> IF s = st.ws THEN "gone" ELSE sock[s]]
close ==
  /\ stream' = Closed(stream) /\ sock' = Hung(stream)
  /\ orphan' = (orphan \/ stream.relogin)

(* An adapter's subscribe: the stream it has is closed, a fresh one is opened    *)
(* with the account's session as it is now.                                     *)
subscribe ==
  /\ kind # "orders" /\ opened < MaxSubscribes /\ opened' = opened + 1
  /\ orphan' = (orphan \/ stream.relogin)
  /\ \E s \in Socket :
       /\ Hung(stream)[s] = "gone"
       /\ sock' = [Hung(stream) EXCEPT ![s] = "dialing"]
       /\ stream' = [NewStream EXCEPT !.ws = s]
  /\ token' \in {token, "good"}
  /\ topics' = [i \in Topic |-> NoKey]
  /\ UNCHANGED <<constant, assign, orders>>

unsubscribe ==
  /\ kind # "orders" /\ stream.phase = "open" /\ close
  /\ topics' = [i \in Topic |-> NoKey]
  /\ UNCHANGED <<constant, token, assign, orders, opened>>

(* What the socket in use reports.                                              *)
Reports(s, at) == s = stream.ws /\ sock[s] = at

(* A handshake goes through: with a good token, or one the broker drops later.   *)
Accepts == token = "good" \/ broker = "drops"

(* 'open': the stream counts as recovered, subscribes and starts its pings.      *)
TicksOpened(s) ==
  /\ kind # "kotak" /\ Reports(s, "dialing") /\ Accepts
  /\ Set(s, "open")
  /\ stream' = [stream EXCEPT !.retries = 0, !.ping = TRUE]
  /\ UNCHANGED <<constant, token, orphan, kotak, orders, opened>>

(* Kotak authenticates in a frame of its own after the handshake ...            *)
KotakOpened(s) ==
  /\ kind = "kotak" /\ Reports(s, "dialing")
  /\ Set(s, "open")
  /\ UNCHANGED <<constant, token, stream, orphan, kotak, orders, opened>>

(* ... and HSM answers it: the ids of the connection before mean nothing now.    *)
AckClearing(s, cleared) ==
  /\ kind = "kotak" /\ Reports(s, "open") /\ token = "good"
  /\ Set(s, "accepted")
  /\ stream' = [stream EXCEPT !.retries = 0]
  /\ assign' \in Injection(Key, Topic)
  /\ topics' = cleared
  /\ UNCHANGED <<constant, token, orphan, orders, opened>>
AckKeepsTopics(s) == AckClearing(s, topics)  \* Mutant: topics kept over a reconnect
onConnectionAck(s) == AckClearing(s, [i \in Topic |-> NoKey])

(* A refused authentication ends the stream; nobody is told.                    *)
AuthRejected(s) ==
  /\ kind = "kotak" /\ Reports(s, "open") /\ token = "stale"
  /\ close
  /\ topics' = [i \in Topic |-> NoKey]
  /\ UNCHANGED <<constant, token, assign, orders, opened>>

(* A snapshot names the contract its id stands for.  A malformed frame is        *)
(* dropped, so any of them may be missing.                                      *)
Snap(k) ==
  /\ stream.ws # NoSocket /\ sock[stream.ws] = "accepted"
  /\ topics' = [topics EXCEPT ![assign[k]] = k]
  /\ UNCHANGED <<constant, token, stream, sock, orphan, assign, orders, opened>>

(* down: the socket in use is forgotten, and another is due.                     *)
Down(st) == scheduleReconnect([st EXCEPT !.ws = NoSocket, !.ping = FALSE])

(* 'error' and 'close'.  An error is followed by the close of the same socket,   *)
(* which finds it superseded.                                                   *)
ErrorIf(s, current) ==
  /\ Alive(s) /\ Set(s, "erred")
  /\ stream' = IF current THEN Down(stream) ELSE stream
  /\ UNCHANGED <<constant, token, orphan, kotak, orders, opened>>
SocketError(s) == ErrorIf(s, s = stream.ws)

CloseIf(s, current) ==
  /\ sock[s] # "gone" /\ Set(s, "gone")
  /\ stream' = IF current THEN Down(stream) ELSE stream
  /\ UNCHANGED <<constant, token, orphan, kotak, orders, opened>>
SocketCloseOfAny(s) == CloseIf(s, stream.phase = "open")  \* Mutant: down without its identity check
SocketClose(s) == CloseIf(s, s = stream.ws)

(* The order socket's handshake is refused, and the stream is told without a look *)
(* at which socket it was: the cap on sockets ends the stream, a dead token makes  *)
(* a login due; the socket refused is left to close by itself.                   *)
Capped(s) ==
  /\ kind = "orders" /\ sock[s] = "dialing"
  /\ sock' = [Hung(stream) EXCEPT ![s] = "gone"]
  /\ stream' = [stream EXCEPT !.phase = "stopped", !.ws = NoSocket, !.ping = FALSE]
  /\ UNCHANGED <<constant, token, orphan, kotak, orders, opened>>
Unauthorised(s) ==
  /\ kind = "orders" /\ sock[s] = "dialing" /\ token = "stale"
  /\ Set(s, "erred")
  /\ stream' = Down([stream EXCEPT !.due = TRUE])
  /\ UNCHANGED <<constant, token, orphan, kotak, orders, opened>>

(* The retry timer of the streams that cannot log in.                           *)
Redial ==
  /\ kind \in {"zerodha", "kotak"} /\ stream.retryTimer
  /\ Connects([stream EXCEPT !.retryTimer = FALSE])
  /\ UNCHANGED <<constant, token, orphan, kotak, orders, opened>>

(* reconnect: after ReauthAfter attempts in a row, and not twice in a minute, a  *)
(* login comes first.                                                           *)
Suspected == stream.retries >= ReauthAfter /\ stream.due
reconnect ==
  /\ kind \in {"angel", "orders"} /\ stream.retryTimer
  /\ \/ /\ Suspected
        /\ stream' = [stream EXCEPT !.retryTimer = FALSE, !.due = FALSE, !.relogin = TRUE]
        /\ UNCHANGED sock
     \/ ~Suspected /\ Connects([stream EXCEPT !.retryTimer = FALSE])
  /\ UNCHANGED <<constant, token, orphan, kotak, orders, opened>>

(* The login ends, well or not, and the stream connects.  The order stream's is  *)
(* the account's: ensureConnected leaves a session alone, even a stale one.      *)
ReloginEnds ==
  /\ stream.relogin
  /\ token' \in {token} \cup IF kind = "angel" \/ token = "none" THEN {"good"} ELSE {}
  /\ Connects([stream EXCEPT !.relogin = FALSE])
  /\ UNCHANGED <<constant, orphan, kotak, orders, opened>>

(* ... or finds its stream closed meanwhile.                                    *)
OrphanEnds ==
  /\ orphan /\ orphan' = FALSE
  /\ UNCHANGED <<constant, token, stream, sock, kotak, orders, opened>>

(* The tabs.  startStreams opens the stream the first of them needs.             *)
TabJoins(t) ==
  /\ kind = "orders" /\ t \notin tabs
  /\ tabs' = tabs \cup {t} /\ idleTimer' = FALSE
  /\ \/ /\ stream.phase = "closed" /\ opened < MaxSubscribes /\ opened' = opened + 1
        /\ OrdersConnect(NewStream)
     \/ stream.phase # "closed" /\ UNCHANGED <<stream, sock, opened>>
  /\ UNCHANGED <<constant, token, orphan, kotak>>

TabLeaves(t) ==
  /\ t \in tabs
  /\ tabs' = tabs \ {t} /\ idleTimer' = (idleTimer \/ tabs = {t})
  /\ UNCHANGED <<constant, token, stream, sock, orphan, kotak, opened>>

IdleFires ==
  /\ idleTimer /\ idleTimer' = FALSE
  /\ \/ tabs = {} /\ close
     \/ tabs # {} /\ UNCHANGED <<stream, sock, orphan>>
  /\ UNCHANGED <<constant, token, kotak, tabs, opened>>

(* The world: sessions end and are renewed by others, a minute passes.           *)
TokenExpires ==
  /\ token = "good" /\ token' \in {"stale"} \cup IF kind = "orders" THEN {"none"} ELSE {}
  /\ UNCHANGED <<constant, stream, sock, orphan, kotak, orders, opened>>
RenewedElsewhere ==
  /\ kind = "orders" /\ token # "good" /\ token' = "good"
  /\ UNCHANGED <<constant, stream, sock, orphan, kotak, orders, opened>>
GapOver ==
  /\ ~stream.due /\ stream' = [stream EXCEPT !.due = TRUE]
  /\ UNCHANGED <<constant, token, sock, orphan, kotak, orders, opened>>

Ends(s) == SocketError(s) \/ SocketClose(s)

AngelStream == kind = "angel" /\ (reconnect \/ ReloginEnds \/ \E s \in Socket : TicksOpened(s) \/ Ends(s))
ZerodhaStream == kind = "zerodha" /\ (Redial \/ \E s \in Socket : TicksOpened(s) \/ Ends(s))
KotakStream ==
  /\ kind = "kotak"
  /\ \/ Redial
     \/ \E s \in Socket : KotakOpened(s) \/ onConnectionAck(s) \/ AuthRejected(s) \/ Ends(s)
     \/ \E k \in Key : Snap(k)
AngelOrderStream ==
  /\ kind = "orders"
  /\ \/ reconnect \/ ReloginEnds
     \/ \E s \in Socket : TicksOpened(s) \/ Capped(s) \/ Unauthorised(s) \/ Ends(s)

Stream == AngelStream \/ ZerodhaStream \/ KotakStream \/ AngelOrderStream
Tabs == IdleFires \/ \E t \in Tab : TabJoins(t) \/ TabLeaves(t)

BrokerNext ==
  \/ subscribe \/ unsubscribe \/ Stream \/ OrphanEnds \/ Tabs
  \/ TokenExpires \/ RenewedElsewhere \/ GapOver

(* A retry timer that is set fires, a minute passes, a login and a handshake end; a *)
(* broker that drops a dead token's socket does so.                              *)
Proceeds == reconnect \/ Redial \/ ReloginEnds
Answers(s) == sock[s] = "dialing" /\ (TicksOpened(s) \/ KotakOpened(s) \/ Unauthorised(s) \/ Ends(s))
BrokerFairness ==
  /\ WF_brokerVars(Proceeds) /\ WF_brokerVars(GapOver)
  /\ WF_brokerVars(\E s \in Socket : Answers(s) \/ (token = "stale" /\ SocketClose(s)))

BrokerSpec == BrokerInit /\ [][BrokerNext]_brokerVars /\ BrokerFairness

Way == {"socket", "timer", "login"}
UnderWay ==
  {w \in Way :
     \/ w = "socket" /\ stream.ws # NoSocket
     \/ w = "timer" /\ stream.retryTimer
     \/ w = "login" /\ stream.relogin}

(* An open stream has exactly one thing under way: its socket, its retry timer    *)
(* or its login.  A closed one has none, and no socket lives outside the stream   *)
(* in use: brokers count them (Angel's cap is three for an account).             *)
OneWayForward ==
  /\ \A s \in Socket : Alive(s) => s = stream.ws
  /\ stream.phase # "open" => UnderWay = {}
  /\ stream.phase = "open" => \E w \in Way : UnderWay = {w}

(* An update is never read as another contract's: an id this connection has not  *)
(* given, or has given to another contract since, is unknown (kotak/stream.ts:    *)
(* 'Carrying them across a reconnect would decode new packets against stale       *)
(* instruments').                                                               *)
TopicsAreCurrent ==
  stream.ws # NoSocket /\ sock[stream.ws] = "accepted" =>
    \A i \in Topic : topics[i] # NoKey => assign[topics[i]] = i

(* Angel's stream whose token is refused at the handshake gets to a new login:    *)
(* 'an expired feedToken is refused instantly and identically every time'.        *)
RefusedIsRenewed ==
  (kind = "angel" /\ stream.phase = "open" /\ token = "stale" /\ broker = "refuses") ~>
    (stream.relogin \/ orphan \/ token = "good" \/ stream.phase = "closed")

================================================================================
