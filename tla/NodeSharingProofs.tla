--------------------------- MODULE NodeSharingProofs ---------------------------
(* Machine-checked proofs about what the clients of the Node backend share:      *)
(* StraddleSocket, for every number of contracts, sessions and sockets, Cockpit  *)
(* and the ChainFeed under it, for every set of chains, desks and holders, and   *)
(* BrowserSocket, for every set of sockets.                                      *)
EXTENDS StraddleSocket, Cockpit, BrowserSocket, FiniteSetTheorems, TLAPS

--------------------------------------------------------------------------------
(* StraddleSocket: the sessions of the live straddle socket.                     *)

(* A session that has not begun, or has ended before its engine came up, holds  *)
(* nothing that would have to be released.                                      *)
SessionInv ==
  /\ OneFanout
  /\ UnwatchedHasATimer
  /\ RegisteredIsPending
  /\ \A s \in Session : engine[s] = "unborn" => subs[s] = {} /\ ~idle[s] /\ ~closeT[s]
  /\ \A s \in Session : closeT[s] => engine[s] \in {"up", "dead"}
  /\ \A k \in Key : sessions[k] # NoSession /\ subs[sessions[k]] = {} => idle[sessions[k]]

LEMMA InitHolds == Init => TypeOK /\ SessionInv
BY SocketAssumption DEF Init, TypeOK, SessionInv, OneFanout, UnwatchedHasATimer,
   RegisteredIsPending, Pending, Over

(* What leave and attach do to the fan-out, whatever happens to the engines.    *)
LEMMA LeaveKeepsFanout ==
  ASSUME TypeOK, OneFanout, NEW c \in Client, Leave(c)
  PROVE  /\ OneFanout'
         /\ subs' \in [Session -> SUBSET Client]
         /\ idle' \in [Session -> BOOLEAN]
         /\ joined' \in [Client -> Session \cup {NoSession}]
         /\ \A s \in Session : subs'[s] = {} => subs[s] = {} \/ idle'[s]
         /\ \A s \in Session : idle[s] => idle'[s]
         /\ \A s \in Session : subs[s] = {} /\ ~idle[s] => subs'[s] = {} /\ ~idle'[s]
<1>1. joined' = [joined EXCEPT ![c] = NoSession] /\ subs' = [s \in Session |-> subs[s] \ {c}]
  BY DEF Leave, Without
<1>2. idle' = [s \in Session |-> idle[s] \/ (joined[c] = s /\ subs[s] \subseteq {c})]
  BY DEF Leave, Emptied
<1>3. OneFanout'
  BY <1>1, SocketAssumption DEF TypeOK, OneFanout
<1>4. \A s \in Session : subs'[s] = {} => subs[s] = {} \/ idle'[s]
  <2> SUFFICES ASSUME NEW s \in Session, subs'[s] = {}, subs[s] # {} PROVE idle'[s]
    OBVIOUS
  <2>1. PICK d \in subs[s] : TRUE
    OBVIOUS
  <2>2. subs[s] \subseteq {c} /\ d = c
    BY <2>1, <1>1
  <2>3. joined[c] = s
    BY <2>1, <2>2 DEF OneFanout
  <2> QED BY <2>2, <2>3, <1>2
<1>5. \A s \in Session : subs[s] = {} /\ ~idle[s] => subs'[s] = {} /\ ~idle'[s]
  BY <1>1, <1>2 DEF OneFanout
<1>6. subs' \in [Session -> SUBSET Client] /\ joined' \in [Client -> Session \cup {NoSession}]
  BY <1>1 DEF TypeOK
<1>7. idle' \in [Session -> BOOLEAN] /\ \A s \in Session : idle[s] => idle'[s]
  BY <1>2 DEF TypeOK
<1> QED BY <1>3, <1>4, <1>5, <1>6, <1>7

LEMMA AttachKeepsFanout ==
  ASSUME TypeOK, OneFanout, NEW c \in Client, NEW t \in Session, Attach(c, t)
  PROVE  /\ OneFanout'
         /\ subs' \in [Session -> SUBSET Client]
         /\ idle' \in [Session -> BOOLEAN]
         /\ joined' \in [Client -> Session \cup {NoSession}]
         /\ subs'[t] # {}
         /\ \A s \in Session : subs'[s] = {} => subs[s] = {} \/ idle'[s]
         /\ \A s \in Session : s # t /\ idle[s] => idle'[s]
         /\ \A s \in Session : s # t /\ subs[s] = {} /\ ~idle[s] => subs'[s] = {} /\ ~idle'[s]
<1>1. CASE joined[c] = t
  <2>1. UNCHANGED <<joined, subs, idle>> /\ c \in subs[t]
    BY <1>1 DEF Attach, OneFanout
  <2> QED BY <2>1 DEF TypeOK, OneFanout
<1>2. CASE joined[c] # t
  <2>1. /\ joined' = [joined EXCEPT ![c] = t]
        /\ subs' = [s \in Session |-> IF s = t THEN subs[s] \cup {c} ELSE subs[s] \ {c}]
    BY <1>2 DEF Attach, With
  <2>2. idle' = [s \in Session |-> s # t /\ (idle[s] \/ (joined[c] = s /\ subs[s] \subseteq {c}))]
    BY <1>2 DEF Attach, Emptied
  <2>3. OneFanout'
    BY <2>1, SocketAssumption DEF TypeOK, OneFanout
  <2>4. \A s \in Session : subs'[s] = {} => subs[s] = {} \/ idle'[s]
    <3> SUFFICES ASSUME NEW s \in Session, subs'[s] = {}, subs[s] # {} PROVE idle'[s]
      OBVIOUS
    <3>1. PICK d \in subs[s] : TRUE
      OBVIOUS
    <3>2. subs[s] \subseteq {c} /\ d = c
      BY <3>1, <2>1
    <3>3. joined[c] = s
      BY <3>1, <3>2 DEF OneFanout
    <3> QED BY <3>2, <3>3, <2>1, <2>2
  <2>5. \A s \in Session : s # t /\ subs[s] = {} /\ ~idle[s] => subs'[s] = {} /\ ~idle'[s]
    BY <2>1, <2>2 DEF OneFanout
  <2>6. subs' \in [Session -> SUBSET Client] /\ joined' \in [Client -> Session \cup {NoSession}]
        /\ subs'[t] # {}
    BY <2>1 DEF TypeOK
  <2>7. idle' \in [Session -> BOOLEAN] /\ \A s \in Session : s # t /\ idle[s] => idle'[s]
    BY <2>2 DEF TypeOK
  <2> QED BY <2>3, <2>4, <2>5, <2>6, <2>7
<1> QED BY <1>1, <1>2

LEMMA Step == TypeOK /\ SessionInv /\ [Next]_vars => TypeOK' /\ SessionInv'
<1> SUFFICES ASSUME TypeOK, SessionInv, [Next]_vars PROVE TypeOK' /\ SessionInv'
  OBVIOUS
<1> USE SocketAssumption DEF SessionInv, Pending, Over
<1>1. ASSUME NEW c \in Client, NEW k \in Key, SubscribeExisting(c, k) PROVE TypeOK' /\ SessionInv'
  <2> DEFINE t == sessions[k]
  <2>1. t \in Session /\ Attach(c, t) /\ UNCHANGED <<sessions, key, engine, closeT, open>>
    BY <1>1 DEF SubscribeExisting, TypeOK
  <2>2. engine[t] # "unborn"
    BY <1>1 DEF SubscribeExisting, RegisteredIsPending
  <2> HIDE DEF t
  <2> QED BY <2>1, <2>2, AttachKeepsFanout DEF TypeOK, UnwatchedHasATimer, RegisteredIsPending
<1>2. ASSUME NEW c \in Client, NEW k \in Key, NEW s \in Session, SubscribeFresh(c, k, s)
      PROVE TypeOK' /\ SessionInv'
  <2>1. /\ sessions[k] = NoSession /\ engine[s] = "unborn" /\ Attach(c, s)
        /\ key' = [key EXCEPT ![s] = k] /\ engine' = [engine EXCEPT ![s] = "starting"]
        /\ sessions' = [sessions EXCEPT ![k] = s] /\ UNCHANGED <<closeT, open>>
    BY <1>2 DEF SubscribeFresh
  <2> QED BY <2>1, AttachKeepsFanout DEF TypeOK, UnwatchedHasATimer, RegisteredIsPending
<1>3. ASSUME NEW c \in Client, NEW s \in Session, StopLast(c, s) PROVE TypeOK' /\ SessionInv'
  <2>1. key[s] \in Key /\ engine[s] # "unborn"
    BY <1>3 DEF StopLast, TypeOK, OneFanout
  <2>2. /\ joined[c] = s /\ subs[s] \subseteq {c}
        /\ joined' = [joined EXCEPT ![c] = NoSession]
        /\ subs' = [x \in Session |-> subs[x] \ {c}]
        /\ idle' = [idle EXCEPT ![s] = FALSE] /\ closeT' = [closeT EXCEPT ![s] = FALSE]
        /\ sessions' = [sessions EXCEPT ![key[s]] = NoSession] /\ UNCHANGED <<key, open>>
    BY <1>3 DEF StopLast, End, Without
  <2>3. PICK r \in {"starting", "stopped", "failed"} : engine' = [engine EXCEPT ![s] = r]
    BY <1>3, <2>1 DEF StopLast, End, Stopped, TypeOK
  <2>4. OneFanout'
    BY <2>2 DEF TypeOK, OneFanout
  <2>5. \A x \in Session : x # s => subs'[x] = subs[x]
    BY <2>2 DEF OneFanout
  <2>6. TypeOK'
    BY <2>1, <2>2, <2>3 DEF TypeOK
  <2>7. \A k \in Key : sessions'[k] # NoSession => sessions'[k] = sessions[k] /\ sessions[k] # s
    BY <2>1, <2>2 DEF TypeOK, RegisteredIsPending
  <2>8. RegisteredIsPending'
    BY <2>1, <2>2, <2>3, <2>7 DEF TypeOK, RegisteredIsPending
  <2>9. UnwatchedHasATimer'
    BY <2>2, <2>3, <2>5 DEF TypeOK, UnwatchedHasATimer
  <2>10. \A k \in Key : sessions'[k] # NoSession /\ subs'[sessions'[k]] = {} => idle'[sessions'[k]]
    <3> SUFFICES ASSUME NEW k \in Key, NEW x \in Session, x = sessions[k], x # s, x # NoSession,
                        subs'[x] = {}
                 PROVE  idle'[x]
      BY <2>7 DEF TypeOK
    <3> QED BY <2>2, <2>5 DEF TypeOK
  <2>11. \A x \in Session : x # s => subs'[x] = subs[x] /\ idle'[x] = idle[x] /\ closeT'[x] = closeT[x]
                                   /\ engine'[x] = engine[x]
    BY <2>2, <2>3, <2>5 DEF TypeOK
  <2>12. engine'[s] \in {"starting", "stopped", "failed"} /\ ~closeT'[s]
    BY <2>2, <2>3 DEF TypeOK
  <2> QED BY <2>4, <2>6, <2>8, <2>9, <2>10, <2>11, <2>12
<1>4. ASSUME NEW c \in Client, StopOne(c) PROVE TypeOK' /\ SessionInv'
  BY <1>4, LeaveKeepsFanout DEF StopOne, TypeOK, UnwatchedHasATimer, RegisteredIsPending
<1>5. ASSUME NEW c \in Client, Drop(c) PROVE TypeOK' /\ SessionInv'
  BY <1>5, LeaveKeepsFanout DEF Drop, TypeOK, UnwatchedHasATimer, RegisteredIsPending
<1>6. ASSUME NEW s \in Session, StartSucceeds(s) PROVE TypeOK' /\ SessionInv'
  <2>1. key[s] \in Key /\ engine[s] = "starting" /\ UNCHANGED <<sessions, key, subs, idle, joined, open>>
    BY <1>6 DEF StartSucceeds, TypeOK
  <2>2. CASE sessions[key[s]] = s
    <3>1. /\ engine' = [engine EXCEPT ![s] = "up"]
          /\ \E before \in BOOLEAN : closeT' = [closeT EXCEPT ![s] = before]
      BY <1>6, <2>2 DEF StartSucceeds
    <3>2. subs[s] = {} => idle[s]
      BY <2>1, <2>2
    <3> QED BY <2>1, <2>2, <3>1, <3>2 DEF TypeOK, OneFanout, UnwatchedHasATimer, RegisteredIsPending
  <2>3. CASE sessions[key[s]] # s
    <3>1. engine' = [engine EXCEPT ![s] = "stopped"] /\ UNCHANGED closeT
      BY <1>6, <2>3 DEF StartSucceeds
    <3>2. \A k \in Key : sessions[k] # s
      BY <2>1, <2>3 DEF RegisteredIsPending
    <3> QED BY <2>1, <3>1, <3>2 DEF TypeOK, OneFanout, UnwatchedHasATimer, RegisteredIsPending
  <2> QED BY <2>2, <2>3
<1>7. ASSUME NEW s \in Session, StartFails(s) PROVE TypeOK' /\ SessionInv'
  BY <1>7 DEF StartFails, End, TypeOK, OneFanout, UnwatchedHasATimer, RegisteredIsPending
<1>8. ASSUME NEW s \in Session, IdleFires(s) PROVE TypeOK' /\ SessionInv'
  <2>1. key[s] \in Key /\ engine[s] # "unborn"
    BY <1>8 DEF IdleFires, TypeOK
  <2>2. idle' = [idle EXCEPT ![s] = FALSE] /\ UNCHANGED <<key, subs, joined, open>>
    BY <1>8 DEF IdleFires
  <2>3. CASE subs[s] # {}
    <3>1. UNCHANGED <<sessions, engine, closeT>>
      BY <1>8, <2>3 DEF IdleFires
    <3> QED BY <2>1, <2>2, <2>3, <3>1 DEF TypeOK, OneFanout, UnwatchedHasATimer, RegisteredIsPending
  <2>4. CASE subs[s] = {}
    <3>1. closeT' = [closeT EXCEPT ![s] = FALSE] /\ sessions' = [sessions EXCEPT ![key[s]] = NoSession]
      BY <1>8, <2>4 DEF IdleFires, End
    <3>2. PICK r \in {"starting", "stopped", "failed"} : engine' = [engine EXCEPT ![s] = r]
      BY <1>8, <2>1, <2>4 DEF IdleFires, End, Stopped, TypeOK
    <3>3. \A k \in Key : sessions'[k] # NoSession => sessions'[k] = sessions[k] /\ sessions[k] # s
      BY <2>1, <3>1 DEF TypeOK, RegisteredIsPending
    <3>4. TypeOK'
      BY <2>1, <2>2, <3>1, <3>2 DEF TypeOK
    <3> QED BY <2>1, <2>2, <3>1, <3>2, <3>3, <3>4 DEF TypeOK, OneFanout, UnwatchedHasATimer, RegisteredIsPending
  <2> QED BY <2>3, <2>4
<1>9. ASSUME NEW s \in Session, CloseFires(s) PROVE TypeOK' /\ SessionInv'
  BY <1>9 DEF CloseFires, End, Stopped, TypeOK, OneFanout, UnwatchedHasATimer, RegisteredIsPending
<1>10. ASSUME NEW s \in Session, EngineDies(s) PROVE TypeOK' /\ SessionInv'
  BY <1>10 DEF EngineDies, TypeOK, OneFanout, UnwatchedHasATimer, RegisteredIsPending
<1>11. CASE UNCHANGED vars
  BY <1>11 DEF vars, TypeOK, OneFanout, UnwatchedHasATimer, RegisteredIsPending
<1> QED BY <1>1, <1>2, <1>3, <1>4, <1>5, <1>6, <1>7, <1>8, <1>9, <1>10, <1>11 DEF Next

(* The invariant the theorems below are read off. *)
THEOREM Invariance == Spec => [](TypeOK /\ SessionInv)
BY InitHolds, Step, PTL DEF Spec

(* A socket is fed by the one session it joined. *)
THEOREM OneFanoutHolds == Spec => []OneFanout
BY Invariance, PTL DEF SessionInv

(* No engine is left running with neither a watcher nor a timer. *)
THEOREM UnwatchedHasATimerHolds == Spec => []UnwatchedHasATimer
BY Invariance, PTL DEF SessionInv

(* What the map holds can still serve. *)
THEOREM RegisteredIsPendingHolds == Spec => []RegisteredIsPending
BY Invariance, PTL DEF SessionInv

--------------------------------------------------------------------------------
(* Cockpit and ChainFeed: a chain's process, its print and its holders.          *)

FeedState == [bridge : BOOLEAN, restart : BOOLEAN, reaper : BOOLEAN, pump : BOOLEAN,
              refs : Nat, printed : BOOLEAN, gone : {"no", "unstarted", "unheld"}]
HoldState == [pc : {"none", "resolving", "held"}, on : Entry \cup {None}]

HeldOf(e) == {h \in Holder : hold[h].pc = "held" /\ hold[h].on = e}

(* Why a chain may have no process.                                             *)
Excused(e) ==
  \/ feed[e].bridge \/ feed[e].restart \/ feed[e].gone # "no"
  \/ \E h \in Holder : hold[h] = [pc |-> "resolving", on |-> e]

ChainInv ==
  /\ current \in Entry \cup {None}
  /\ feed \in [Entry -> FeedState] /\ hold \in [Holder -> HoldState]
  /\ \A h \in Holder : hold[h].pc # "none" => hold[h].on \in Entry
  /\ \A e \in Entry : feed[e].refs = Cardinality(HeldOf(e))
  /\ \A e \in Entry : feed[e].reaper => feed[e].refs = 0
  /\ ProcessIsOwned
  /\ \A e \in Entry : current = e \/ feed[e].refs > 0 => Excused(e)

--------------------------------------------------------------------------------
(* The count of those who hold an entry, when one of them comes or goes.          *)
LEMMA HeldAreCounted ==
  ASSUME NEW e
  PROVE  IsFiniteSet(HeldOf(e)) /\ Cardinality(HeldOf(e)) \in Nat
  BY ChainAssumption, FS_Subset, FS_CardinalityType DEF HeldOf

LEMMA OneMoreHolds ==
  ASSUME ChainInv, NEW h \in Holder, NEW e \in Entry, hold[h].pc # "held",
         hold' = [hold EXCEPT ![h] = [pc |-> "held", on |-> e]]
  PROVE  /\ Cardinality(HeldOf(e)') = Cardinality(HeldOf(e)) + 1
         /\ \A d \in Entry : d # e => HeldOf(d)' = HeldOf(d)
<1>1. hold \in [Holder -> HoldState]
  BY DEF ChainInv
<1>2. hold'[h].pc = "held" /\ hold'[h].on = e /\ \A g \in Holder : g # h => hold'[g] = hold[g]
  BY <1>1
<1>3. HeldOf(e)' = HeldOf(e) \cup {h} /\ h \notin HeldOf(e)
  BY <1>2 DEF HeldOf
<1>4. \A d \in Entry : d # e => HeldOf(d)' = HeldOf(d)
  BY <1>2 DEF HeldOf
<1>5. IsFiniteSet(HeldOf(e))
  BY HeldAreCounted
<1> HIDE DEF HeldOf
<1> QED
  BY <1>3, <1>4, <1>5, FS_AddElement

LEMMA OneLessHolds ==
  ASSUME ChainInv, NEW h \in Holder, NEW e \in Entry, hold[h].pc = "held", hold[h].on = e,
         hold' = [hold EXCEPT ![h] = Free]
  PROVE  /\ Cardinality(HeldOf(e)) > 0
         /\ Cardinality(HeldOf(e)') = Cardinality(HeldOf(e)) - 1
         /\ \A d \in Entry : d # e => HeldOf(d)' = HeldOf(d)
<1>1. hold \in [Holder -> HoldState]
  BY DEF ChainInv
<1>2. hold'[h].pc = "none" /\ \A g \in Holder : g # h => hold'[g] = hold[g]
  BY <1>1 DEF Free
<1>3. HeldOf(e)' = HeldOf(e) \ {h} /\ h \in HeldOf(e)
  BY <1>2 DEF HeldOf
<1>4. \A d \in Entry : d # e => HeldOf(d)' = HeldOf(d)
  BY <1>2 DEF HeldOf
<1>5. IsFiniteSet(HeldOf(e)) /\ Cardinality(HeldOf(e)) \in Nat
  BY HeldAreCounted
<1> HIDE DEF HeldOf
<1>6. Cardinality(HeldOf(e) \ {h}) = Cardinality(HeldOf(e)) - 1
  BY <1>3, <1>5, FS_RemoveElement
<1>7. Cardinality(HeldOf(e) \ {h}) \in Nat
  BY <1>5, <1>3, FS_RemoveElement, FS_CardinalityType
<1> QED
  BY <1>3, <1>4, <1>5, <1>6, <1>7

(* Nobody takes hold of an entry, or lets go of one.                             *)
LEMMA NobodyElseHolds ==
  ASSUME \A g \in Holder : hold'[g] = hold[g] \/ (hold[g].pc # "held" /\ hold'[g].pc # "held")
  PROVE  \A d : HeldOf(d)' = HeldOf(d)
  BY DEF HeldOf

--------------------------------------------------------------------------------
(* What a chain's fields must be for its entry, with n holders, to be in order.    *)
InOrder(f, n) ==
  /\ f \in FeedState
  /\ f.refs = n
  /\ f.reaper => f.refs = 0
  /\ f.bridge \/ f.restart => f.refs > 0 \/ f.reaper

(* ... and to be silent for a reason that is its own.                            *)
Accounted(f) == f.bridge \/ f.restart \/ f.gone # "no"

LEMMA InvByEntry ==
  ASSUME current \in Entry \cup {None}, feed \in [Entry -> FeedState],
         hold \in [Holder -> HoldState],
         \A h \in Holder : hold[h].pc # "none" => hold[h].on \in Entry,
         \A e \in Entry : InOrder(feed[e], Cardinality(HeldOf(e))),
         \A e \in Entry : current = e \/ feed[e].refs > 0 => Excused(e)
  PROVE  ChainInv
  BY DEF ChainInv, InOrder, ProcessIsOwned

LEMMA EntryInOrder ==
  ASSUME ChainInv, NEW e \in Entry
  PROVE  InOrder(feed[e], Cardinality(HeldOf(e))) /\ feed[e] \in FeedState /\ feed[e].refs \in Nat
  BY DEF ChainInv, InOrder, ProcessIsOwned, FeedState

LEMMA SpawnInOrder ==
  ASSUME NEW f \in FeedState, NEW g \in spawn(f)
  PROVE  /\ g \in FeedState /\ Accounted(g)
         /\ g.refs = f.refs /\ g.reaper = f.reaper
         /\ g.restart => f.restart \/ f.refs > 0
  BY DEF spawn, Exited, FeedState, Accounted

(* g is f with other refs and reaper.                                            *)
Recount(f, g, n, b) ==
  /\ g \in FeedState /\ g.refs = n /\ g.reaper = b
  /\ g.bridge = f.bridge /\ g.restart = f.restart /\ g.gone = f.gone

LEMMA FieldsSet ==
  ASSUME NEW f \in FeedState, NEW n \in Nat, NEW b \in BOOLEAN
  PROVE  /\ Recount(f, [f EXCEPT !.refs = n, !.reaper = b], n, b)
         /\ Recount(f, [f EXCEPT !.reaper = b, !.refs = n], n, b)
<1>1. [f EXCEPT !.refs = n] \in FeedState /\ [f EXCEPT !.reaper = b] \in FeedState
  BY DEF FeedState
<1> DEFINE k == [[f EXCEPT !.refs = n] EXCEPT !.reaper = b]
           l == [[f EXCEPT !.reaper = b] EXCEPT !.refs = n]
<1>2. k \in FeedState
  BY <1>1 DEF FeedState
<1>3. l \in FeedState
  BY <1>1 DEF FeedState
<1>4. Recount(f, k, n, b)
  BY <1>1, <1>2 DEF FeedState, Recount
<1>5. Recount(f, l, n, b)
  BY <1>1, <1>3 DEF FeedState, Recount
<1> QED
  BY <1>4, <1>5

LEMMA JoinedFields ==
  ASSUME NEW f \in FeedState
  PROVE  Recount(f, Joined(f), f.refs + 1, FALSE)
<1> DEFINE n == f.refs + 1
           b == FALSE
<1>1. n \in Nat /\ b \in BOOLEAN
  BY DEF FeedState
<1> HIDE DEF n, b
<1>2. Recount(f, [f EXCEPT !.reaper = b, !.refs = n], n, b)
  BY <1>1, FieldsSet
<1> QED
  BY <1>2 DEF Joined, n, b

LEMMA ReleasedFields ==
  ASSUME NEW f \in FeedState, f.refs > 0
  PROVE  Recount(f, Released(f), f.refs - 1, f.refs = 1)
<1> DEFINE n == f.refs - 1
           b == f.refs = 1
<1>1. n \in Nat /\ b \in BOOLEAN
  BY DEF FeedState
<1> HIDE DEF n, b
<1>2. Recount(f, [f EXCEPT !.refs = n, !.reaper = b], n, b)
  BY <1>1, FieldsSet
<1> QED
  BY <1>2 DEF Released, n, b

(* A step that changes the fields of one entry and lets nobody go.               *)
LEMMA OneEntryChanges ==
  ASSUME ChainInv, NEW e \in Entry, NEW f, feed' = [feed EXCEPT ![e] = f],
         current' \in {current, None, e}, hold' \in [Holder -> HoldState],
         \A h \in Holder : hold'[h].pc # "none" => hold'[h].on \in Entry,
         InOrder(f, Cardinality(HeldOf(e)')),
         \A d \in Entry : d # e => HeldOf(d)' = HeldOf(d),
         \A h \in Holder : hold[h].pc = "resolving" /\ hold[h].on # e => hold'[h] = hold[h],
         current' = e \/ f.refs > 0 => Excused(e)'
  PROVE  ChainInv'
<1>1. /\ feed \in [Entry -> FeedState] /\ hold \in [Holder -> HoldState]
      /\ current \in Entry \cup {None}
  BY DEF ChainInv
<1>2. f \in FeedState
  BY DEF InOrder
<1>3. /\ feed' \in [Entry -> FeedState] /\ feed'[e] = f
      /\ \A d \in Entry : d # e => feed'[d] = feed[d]
  BY <1>1, <1>2
<1>4. \A d \in Entry : InOrder(feed[d], Cardinality(HeldOf(d)))
  BY EntryInOrder
<1>5. \A d \in Entry : InOrder(feed'[d], Cardinality(HeldOf(d)'))
  <2> SUFFICES ASSUME NEW d \in Entry, d # e PROVE InOrder(feed'[d], Cardinality(HeldOf(d)'))
    BY <1>3
  <2>1. feed'[d] = feed[d] /\ HeldOf(d)' = HeldOf(d)
    BY <1>3
  <2> QED
    BY <2>1, <1>4
<1>6. \A d \in Entry : current' = d \/ feed'[d].refs > 0 => Excused(d)'
  <2> SUFFICES ASSUME NEW d \in Entry, d # e, current' = d \/ feed'[d].refs > 0 PROVE Excused(d)'
    BY <1>3
  <2>1. current = d \/ feed[d].refs > 0
    BY <1>3, ChainAssumption
  <2>2. Excused(d)
    BY <2>1 DEF ChainInv
  <2> QED
    BY <2>2, <1>3 DEF Excused
<1>7. current' \in Entry \cup {None}
  BY <1>1
<1> QED
  BY <1>3, <1>5, <1>6, <1>7, InvByEntry, ChainAssumption DEF ChainInv, InOrder, ProcessIsOwned

--------------------------------------------------------------------------------
LEMMA AcquireNewSound ==
  ASSUME ChainInv, NEW h \in Holder, AcquireNew(h)
  PROVE  ChainInv'
<1> PICK e \in Entry : /\ Unused(e)
                       /\ current' = e
                       /\ hold' = [hold EXCEPT ![h] = [pc |-> "resolving", on |-> e]]
  BY DEF AcquireNew
<1>1. hold[h].pc = "none" /\ current = None /\ feed' = feed
  BY DEF AcquireNew
<1>2. hold \in [Holder -> HoldState] /\ feed \in [Entry -> FeedState]
  BY DEF ChainInv
<1>3. /\ hold' \in [Holder -> HoldState]
      /\ hold'[h] = [pc |-> "resolving", on |-> e]
      /\ \A g \in Holder : g # h => hold'[g] = hold[g]
  BY <1>2 DEF HoldState
<1>4. \A d : HeldOf(d)' = HeldOf(d)
  BY <1>1, <1>3, NobodyElseHolds
<1>5. feed' = [feed EXCEPT ![e] = feed[e]]
  BY <1>1, <1>2
<1>6. Excused(e)'
  BY <1>3 DEF Excused
<1>7. InOrder(feed[e], Cardinality(HeldOf(e)'))
  BY <1>4, EntryInOrder
<1>8. \A g \in Holder : hold'[g].pc # "none" => hold'[g].on \in Entry
  BY <1>3 DEF ChainInv
<1>9. \A g \in Holder : hold[g].pc = "resolving" /\ hold[g].on # e => hold'[g] = hold[g]
  BY <1>1, <1>3
<1> QED
  BY <1>3, <1>4, <1>5, <1>6, <1>7, <1>8, <1>9, OneEntryChanges

(* One more holds entry e, whose fields have become f.                           *)
LEMMA JoinSound ==
  ASSUME ChainInv, NEW h \in Holder, NEW e \in Entry, NEW f \in FeedState,
         hold[h].pc = "none" \/ hold[h] = [pc |-> "resolving", on |-> e],
         hold' = [hold EXCEPT ![h] = [pc |-> "held", on |-> e]],
         current' = current, feed' = [feed EXCEPT ![e] = Joined(f)],
         f.refs = feed[e].refs,
         hold[h].pc = "resolving" => Accounted(f),
         hold[h].pc = "none" => current = e /\ f = feed[e]
  PROVE  ChainInv'
<1>1. hold \in [Holder -> HoldState] /\ feed \in [Entry -> FeedState]
  BY DEF ChainInv
<1>2. /\ hold' \in [Holder -> HoldState]
      /\ hold'[h] = [pc |-> "held", on |-> e]
      /\ \A g \in Holder : g # h => hold'[g] = hold[g]
  BY <1>1 DEF HoldState
<1>3. hold[h].pc # "held"
  OBVIOUS
<1>4. /\ Cardinality(HeldOf(e)') = Cardinality(HeldOf(e)) + 1
      /\ \A d \in Entry : d # e => HeldOf(d)' = HeldOf(d)
  BY <1>3, OneMoreHolds
<1>5. feed[e].refs = Cardinality(HeldOf(e)) /\ feed[e].refs \in Nat
  BY EntryInOrder DEF InOrder
<1>6. InOrder(Joined(f), Cardinality(HeldOf(e)'))
  <2>1. /\ Joined(f) \in FeedState /\ Joined(f).refs = f.refs + 1 /\ Joined(f).reaper = FALSE
    BY JoinedFields DEF Recount
  <2> QED
    BY <2>1, <1>4, <1>5 DEF InOrder
<1>7. Excused(e)'
  <2>1. feed'[e] = Joined(f) /\ (Accounted(f) => Accounted(Joined(f)))
    BY <1>1, JoinedFields DEF Recount, Accounted
  <2>2. CASE hold[h].pc = "resolving"
    BY <2>1, <2>2 DEF Excused, Accounted
  <2>3. CASE hold[h].pc = "none"
    <3>1. Excused(e)
      BY <2>3 DEF ChainInv
    <3>2. CASE Accounted(feed[e])
      BY <3>2, <2>1, <2>3 DEF Excused, Accounted
    <3>3. CASE \E g \in Holder : hold[g] = [pc |-> "resolving", on |-> e]
      BY <3>3, <1>2, <2>3 DEF Excused
    <3> QED
      BY <3>1, <3>2, <3>3 DEF Excused, Accounted
  <2> QED
    BY <2>2, <2>3
<1>8. \A g \in Holder : hold'[g].pc # "none" => hold'[g].on \in Entry
  BY <1>2 DEF ChainInv
<1>9. \A g \in Holder : hold[g].pc = "resolving" /\ hold[g].on # e => hold'[g] = hold[g]
  BY <1>2
<1> QED
  BY <1>2, <1>4, <1>6, <1>7, <1>8, <1>9, OneEntryChanges

LEMMA AcquireSharedSound ==
  ASSUME ChainInv, NEW h \in Holder, AcquireShared(h)
  PROVE  ChainInv'
<1>1. current \in Entry /\ feed[current] \in FeedState
  BY EntryInOrder DEF ChainInv, AcquireShared
<1>2. feed' = [feed EXCEPT ![current] = Joined(feed[current])] /\ hold[h].pc = "none"
  BY DEF AcquireShared
<1> QED
  BY <1>1, <1>2, JoinSound DEF AcquireShared

LEMMA ResolvedSound ==
  ASSUME ChainInv, NEW h \in Holder, Resolved(h)
  PROVE  ChainInv'
<1> DEFINE e == hold[h].on
<1>1. hold[h].pc = "resolving" /\ e \in Entry /\ hold \in [Holder -> HoldState] /\ current' = current
  BY DEF ChainInv, Resolved
<1>2. hold[h] = [pc |-> "resolving", on |-> e]
  BY <1>1 DEF HoldState
<1>3. PICK f \in spawn(feed[e]) : feed' = [feed EXCEPT ![e] = Joined([f EXCEPT !.pump = TRUE])]
  BY DEF Resolved
<1>4. hold' = [hold EXCEPT ![h] = [pc |-> "held", on |-> e]]
  <2>1. hold' = [hold EXCEPT ![h] = [hold[h] EXCEPT !.pc = "held"]]
    BY DEF Resolved
  <2>2. [hold[h] EXCEPT !.pc = "held"] = [pc |-> "held", on |-> e]
    BY <1>2
  <2> QED
    BY <2>1, <2>2
<1>5. feed[e] \in FeedState
  BY <1>1, EntryInOrder
<1>6. f \in FeedState /\ Accounted(f) /\ f.refs = feed[e].refs
  BY <1>5, SpawnInOrder
<1> DEFINE g == [f EXCEPT !.pump = TRUE]
<1>7. g \in FeedState /\ Accounted(g) /\ g.refs = feed[e].refs
  BY <1>6 DEF FeedState, Accounted
<1> HIDE DEF e, g
<1> QED
  BY <1>1, <1>2, <1>3, <1>4, <1>7, JoinSound DEF g

LEMMA ThrowsSound ==
  ASSUME ChainInv, NEW h \in Holder, Throws(h)
  PROVE  ChainInv'
<1>0. PICK e \in Entry : e = hold[h].on
  BY DEF ChainInv, Throws
<1> DEFINE b == IF current = e \/ feed[e].refs > 0 THEN "unstarted" ELSE feed[e].gone
           f == [feed[e] EXCEPT !.gone = b]
<1>1. /\ hold[h].pc = "resolving" /\ current' = current
      /\ hold \in [Holder -> HoldState] /\ feed \in [Entry -> FeedState]
  BY DEF ChainInv, Throws
<1>2. feed' = [feed EXCEPT ![e] = f]
  BY <1>0, <1>1 DEF Throws
<1>3. /\ hold' \in [Holder -> HoldState] /\ hold'[h].pc = "none"
      /\ \A g \in Holder : g # h => hold'[g] = hold[g]
  BY <1>1 DEF Throws, Free, HoldState
<1>4. \A d : HeldOf(d)' = HeldOf(d)
  BY <1>1, <1>3, NobodyElseHolds
<1>5. feed[e] \in FeedState /\ InOrder(feed[e], Cardinality(HeldOf(e)))
  BY <1>1, EntryInOrder
<1>6. /\ f.bridge = feed[e].bridge /\ f.restart = feed[e].restart /\ f.refs = feed[e].refs
      /\ f.reaper = feed[e].reaper /\ f.gone = b /\ f \in FeedState
  <2>1. b \in {"no", "unstarted", "unheld"}
    BY <1>5 DEF FeedState
  <2> HIDE DEF b
  <2> QED
    BY <1>5, <2>1 DEF FeedState
<1>7. InOrder(f, Cardinality(HeldOf(e)'))
  <2> HIDE DEF f
  <2>1. HeldOf(e)' = HeldOf(e)
    BY <1>4
  <2> QED
    BY <2>1, <1>5, <1>6 DEF InOrder
<1>8. feed'[e] = f
  BY <1>1, <1>2
<1>9. current' = e \/ f.refs > 0 => Excused(e)'
  <2> HIDE DEF f
  <2> QED
    BY <1>1, <1>6, <1>8 DEF Excused
<1>10. \A g \in Holder : hold'[g].pc # "none" => hold'[g].on \in Entry
  BY <1>3 DEF ChainInv
<1>11. \A g \in Holder : hold[g].pc = "resolving" /\ hold[g].on # e => hold'[g] = hold[g]
  BY <1>0, <1>3
<1> HIDE DEF f, b
<1> QED
  BY <1>1, <1>2, <1>3, <1>4, <1>7, <1>9, <1>10, <1>11, OneEntryChanges

LEMMA ReleaseSound ==
  ASSUME ChainInv, NEW h \in Holder, Release(h)
  PROVE  ChainInv'
<1>1. PICK e \in Entry : e = hold[h].on
  BY DEF ChainInv, Release
<1>2. /\ hold[h].pc = "held" /\ current' = current
      /\ hold \in [Holder -> HoldState] /\ feed \in [Entry -> FeedState]
      /\ feed' = [feed EXCEPT ![e] = Released(feed[e])]
      /\ hold' = [hold EXCEPT ![h] = Free]
  BY <1>1 DEF ChainInv, Release
<1>3. /\ hold' \in [Holder -> HoldState] /\ hold'[h].pc = "none"
      /\ \A g \in Holder : g # h => hold'[g] = hold[g]
  BY <1>2 DEF Free, HoldState
<1>4. /\ Cardinality(HeldOf(e)) > 0
      /\ Cardinality(HeldOf(e)') = Cardinality(HeldOf(e)) - 1
      /\ \A d \in Entry : d # e => HeldOf(d)' = HeldOf(d)
  BY <1>1, <1>2, OneLessHolds
<1>5. feed[e] \in FeedState /\ InOrder(feed[e], Cardinality(HeldOf(e))) /\ feed[e].refs \in Nat
  BY EntryInOrder
<1>6. /\ Released(feed[e]) \in FeedState
      /\ Released(feed[e]).refs = feed[e].refs - 1
      /\ Released(feed[e]).reaper = (feed[e].refs = 1)
      /\ Released(feed[e]).bridge = feed[e].bridge
      /\ Released(feed[e]).restart = feed[e].restart
      /\ Released(feed[e]).gone = feed[e].gone
  <2>1. feed[e].refs > 0
    BY <1>4, <1>5 DEF InOrder
  <2> QED
    BY <1>5, <2>1, ReleasedFields DEF Recount
<1>7. InOrder(Released(feed[e]), Cardinality(HeldOf(e)'))
  <2>1. Released(feed[e]).refs = Cardinality(HeldOf(e)')
    BY <1>4, <1>5, <1>6 DEF InOrder
  <2>2. Released(feed[e]).reaper <=> feed[e].refs = 1
    BY <1>6
  <2>3. feed[e].refs > 0
    BY <1>4, <1>5 DEF InOrder
  <2> QED
    BY <1>5, <1>6, <2>1, <2>2, <2>3 DEF InOrder
<1>8. current' = e \/ Released(feed[e]).refs > 0 => Excused(e)'
  <2> SUFFICES ASSUME current = e \/ feed[e].refs > 0 PROVE Excused(e)'
    BY <1>2, <1>5, <1>6
  <2>1. Excused(e)
    BY DEF ChainInv
  <2>2. feed'[e] = Released(feed[e])
    BY <1>2
  <2> QED
    BY <2>1, <2>2, <1>2, <1>3, <1>6 DEF Excused
<1>9. \A g \in Holder : hold'[g].pc # "none" => hold'[g].on \in Entry
  BY <1>3 DEF ChainInv
<1>10. \A g \in Holder : hold[g].pc = "resolving" /\ hold[g].on # e => hold'[g] = hold[g]
  BY <1>2, <1>3
<1> QED
  BY <1>2, <1>3, <1>4, <1>7, <1>8, <1>9, <1>10, OneEntryChanges

(* A step of the entry's own: nobody acquires or releases.                       *)
LEMMA OwnStepSound ==
  ASSUME ChainInv, NEW e \in Entry, NEW f \in FeedState, feed' = [feed EXCEPT ![e] = f],
         hold' = hold, current' \in {current, None},
         f.refs = feed[e].refs, f.reaper => f.refs = 0,
         f.bridge \/ f.restart => f.refs > 0 \/ f.reaper,
         Accounted(feed[e]) => Accounted(f) \/ (f.refs = 0 /\ current' = None)
  PROVE  ChainInv'
<1>1. \A d : HeldOf(d)' = HeldOf(d)
  BY DEF HeldOf
<1>2. InOrder(f, Cardinality(HeldOf(e)'))
  BY <1>1, EntryInOrder DEF InOrder
<1>3. hold' \in [Holder -> HoldState] /\ \A h \in Holder : hold'[h].pc # "none" => hold'[h].on \in Entry
  BY DEF ChainInv
<1>4. current' = e \/ f.refs > 0 => Excused(e)'
  <2> SUFFICES ASSUME current' = e \/ f.refs > 0 PROVE Excused(e)'
    OBVIOUS
  <2>1. current = e \/ feed[e].refs > 0
    BY ChainAssumption
  <2>2. Excused(e)
    BY <2>1 DEF ChainInv
  <2>3. feed'[e] = f
    BY DEF ChainInv
  <2>4. ~(f.refs = 0 /\ current' = None)
    BY ChainAssumption
  <2> QED
    BY <2>2, <2>3, <2>4 DEF Excused, Accounted
<1> QED
  BY <1>1, <1>2, <1>3, <1>4, OneEntryChanges

LEMMA ChainStepSound ==
  ASSUME ChainInv, ChainStep
  PROVE  ChainInv'
<1> PICK e \in Entry : teardown(e) \/ Exit(e) \/ Restart(e) \/ Frame(e)
  BY DEF ChainStep
<1>1. feed[e] \in FeedState /\ InOrder(feed[e], Cardinality(HeldOf(e))) /\ feed[e].refs \in Nat
      /\ feed \in [Entry -> FeedState]
  BY EntryInOrder DEF ChainInv
<1>2. CASE teardown(e)
  <2>1. NewFeed \in FeedState /\ NewFeed.refs = 0 /\ ~NewFeed.bridge /\ ~NewFeed.restart
    BY DEF NewFeed, FeedState
  <2>2. feed[e].refs = 0
    BY <1>1, <1>2 DEF teardown, InOrder
  <2> QED
    BY <1>2, <2>1, <2>2, OwnStepSound DEF teardown
<1>3. CASE Exit(e)
  <2>1. feed' = [feed EXCEPT ![e] = Exited(feed[e])] /\ feed[e].bridge
    BY <1>3 DEF Exit
  <2>2. /\ Exited(feed[e]) \in FeedState /\ Exited(feed[e]).refs = feed[e].refs
        /\ Exited(feed[e]).reaper = feed[e].reaper /\ Accounted(Exited(feed[e]))
        /\ ~Exited(feed[e]).bridge
        /\ Exited(feed[e]).restart => feed[e].refs > 0 \/ feed[e].restart
    BY <1>1 DEF Exited, FeedState, Accounted
  <2> QED
    BY <1>1, <1>3, <2>1, <2>2, OwnStepSound DEF Exit, InOrder
<1>4. CASE Restart(e)
  <2> DEFINE f == [feed[e] EXCEPT !.restart = FALSE]
  <2>1. f \in FeedState /\ f.refs = feed[e].refs /\ f.reaper = feed[e].reaper /\ ~f.restart
        /\ f.bridge = feed[e].bridge
    BY <1>1 DEF FeedState
  <2>2. PICK g \in IF f.refs > 0 THEN spawn(f) ELSE {[f EXCEPT !.gone = "unheld"]} :
               feed' = [feed EXCEPT ![e] = g]
    BY <1>4 DEF Restart
  <2> HIDE DEF f
  <2>3. g \in FeedState /\ g.refs = feed[e].refs /\ g.reaper = feed[e].reaper /\ Accounted(g)
    <3>1. CASE f.refs > 0
      BY <3>1, <2>1, <2>2, SpawnInOrder
    <3>2. CASE ~(f.refs > 0)
      BY <3>2, <2>1, <2>2 DEF FeedState, Accounted
    <3> QED
      BY <3>1, <3>2
  <2>4. g.bridge \/ g.restart => g.refs > 0 \/ g.reaper
    BY <1>1, <1>4, <2>3 DEF Restart, InOrder
  <2>5. g.reaper => g.refs = 0
    BY <1>1, <2>3 DEF InOrder
  <2> QED
    BY <1>4, <2>2, <2>3, <2>4, <2>5, OwnStepSound DEF Restart
<1>5. CASE Frame(e)
  <2> DEFINE f == [feed[e] EXCEPT !.printed = TRUE]
  <2>1. f \in FeedState /\ f.refs = feed[e].refs /\ f.reaper = feed[e].reaper
        /\ f.restart = feed[e].restart /\ f.bridge = feed[e].bridge /\ f.gone = feed[e].gone
    BY <1>1 DEF FeedState
  <2>2. feed' = [feed EXCEPT ![e] = f]
    BY <1>1, <1>5 DEF Frame
  <2> HIDE DEF f
  <2> QED
    BY <1>1, <1>5, <2>1, <2>2, OwnStepSound DEF Frame, InOrder, Accounted
<1> QED
  BY <1>2, <1>3, <1>4, <1>5

LEMMA AcquireSound ==
  ASSUME ChainInv, NEW h \in Holder, Acquire(h)
  PROVE  ChainInv'
  BY AcquireNewSound, AcquireSharedSound DEF Acquire

(* Nothing runs and nobody holds anything.                                        *)
LEMMA ChainInitSound ==
  ASSUME ChainInit
  PROVE  ChainInv
<1>1. HoldState = [pc : {"none", "resolving", "held"}, on : Entry \cup {None}] /\ Free \in HoldState
  BY DEF HoldState, Free
<1>2. NewFeed \in FeedState
  BY DEF NewFeed, FeedState
<1>3. \A e \in Entry : HeldOf(e) = {}
  BY DEF HeldOf, ChainInit, Free
<1>4. \A e \in Entry : Cardinality(HeldOf(e)) = 0
  BY <1>3, FS_EmptySet
<1>5. \A e \in Entry : feed[e].refs = Cardinality(HeldOf(e))
  BY <1>4 DEF ChainInit, NewFeed
<1>6. feed \in [Entry -> FeedState] /\ hold \in [Holder -> HoldState] /\ current = None
  BY <1>1, <1>2 DEF ChainInit
<1>7. \A h \in Holder : hold[h].pc = "none"
  BY DEF ChainInit, Free
<1>8. \A e \in Entry : ~feed[e].reaper /\ feed[e].refs = 0 /\ ~feed[e].bridge /\ ~feed[e].restart
  BY DEF ChainInit, NewFeed
<1> QED
  BY <1>5, <1>6, <1>7, <1>8, ChainAssumption DEF ChainInv, ProcessIsOwned

--------------------------------------------------------------------------------
(* The desks.  The invariant of one desk: what its handle on the chain says of its *)
(* own fields and of the map.                                                    *)
DeskState == [pc : {"none", "eligible", "acquiring", "watching"}, timer : BOOLEAN, age : Nat,
              lost : BOOLEAN]

DeskSound(d) ==
  /\ hold[d].pc # "none" => present = d \/ desk[d].lost
  /\ hold[d].pc = "resolving" <=> desk[d].pc = "acquiring"
  /\ desk[d].pc \in {"none", "eligible"} => hold[d].pc = "none"
  /\ present = d => desk[d].pc \in {"acquiring", "watching"}

DeskInv ==
  /\ present \in Desk \cup {None}
  /\ desk \in [Desk -> DeskState]
  /\ \A d \in Desk : DeskSound(d)

CockpitInv == ChainInv /\ DeskInv

(* What a step of one holder leaves to it, and to the others.                    *)
LEMMA HolderMoves ==
  ASSUME hold \in [Holder -> HoldState], NEW h \in Holder,
         \/ AcquireNew(h) \/ AcquireShared(h) \/ Resolved(h) \/ Throws(h) \/ Release(h)
  PROVE  /\ \A g \in Holder : g # h => hold'[g] = hold[g]
         /\ AcquireNew(h) => hold[h].pc = "none" /\ hold'[h].pc = "resolving"
         /\ AcquireShared(h) => hold[h].pc = "none" /\ hold'[h].pc = "held"
         /\ Resolved(h) => hold[h].pc = "resolving" /\ hold'[h].pc = "held"
         /\ Throws(h) \/ Release(h) => hold[h].pc # "none" /\ hold'[h].pc = "none"
<1>1. CASE AcquireNew(h)
  BY <1>1 DEF AcquireNew, HoldState, AcquireShared, Resolved, Throws, Release
<1>2. CASE AcquireShared(h)
  BY <1>2 DEF AcquireNew, HoldState, AcquireShared, Resolved, Throws, Release
<1>3. CASE Resolved(h)
  <2>1. hold[h].pc = "resolving" /\ hold' = [hold EXCEPT ![h].pc = "held"]
    BY <1>3 DEF Resolved
  <2>2. hold'[h].pc = "held" /\ \A g \in Holder : g # h => hold'[g] = hold[g]
    BY <2>1 DEF HoldState
  <2>3. ~AcquireNew(h) /\ ~AcquireShared(h)
    BY <2>1 DEF AcquireNew, AcquireShared
  <2>4. ~Throws(h) /\ ~Release(h)
    BY <2>1, <2>2 DEF Throws, Release, Free
  <2> QED
    BY <2>1, <2>2, <2>3, <2>4
<1>4. CASE Throws(h)
  BY <1>4 DEF AcquireNew, HoldState, AcquireShared, Resolved, Throws, Release, Free
<1>5. CASE Release(h)
  BY <1>5 DEF AcquireNew, HoldState, AcquireShared, Resolved, Throws, Release, Free
<1> QED
  BY <1>1, <1>2, <1>3, <1>4, <1>5

LEMMA ChainStepHolds ==
  ASSUME ChainStep
  PROVE  hold' = hold
  BY DEF ChainStep, teardown, Exit, Restart, Frame

(* The steps that change nothing but the clocks of desks.                         *)
LEMMA AgesOnly ==
  ASSUME DeskInv, hold' = hold, present' = present, desk' \in [Desk -> DeskState],
         \A d \in Desk : desk'[d].pc = desk[d].pc /\ desk'[d].lost = desk[d].lost
  PROVE  DeskInv'
  BY DEF DeskInv, DeskSound

LEMMA OthersSound ==
  ASSUME CockpitInv, NEW h \in Holder \ Desk,
         Acquire(h) \/ Resolved(h) \/ Throws(h) \/ Release(h), UNCHANGED <<present, desk>>
  PROVE  CockpitInv'
<1>1. ChainInv'
  BY AcquireSound, ResolvedSound, ThrowsSound, ReleaseSound DEF CockpitInv
<1>2. \A d \in Desk : hold'[d] = hold[d]
  BY HolderMoves, CockpitAssumption DEF CockpitInv, ChainInv, Acquire
<1> QED
  BY <1>1, <1>2 DEF CockpitInv, DeskInv, DeskSound

LEMMA OpenDeskSound ==
  ASSUME CockpitInv, NEW d \in Desk, OpenDesk(d) \/ NotEligible(d)
  PROVE  CockpitInv'
<1>1. ChainInv' /\ hold' = hold /\ present' = present /\ present # d
  BY CockpitAssumption DEF CockpitInv, ChainInv, chainVars, OpenDesk, NotEligible, NoDesk, DeskInv, DeskSound,
     HeldOf, Excused, ProcessIsOwned
<1>2. hold[d].pc = "none" /\ desk \in [Desk -> DeskState]
  BY DEF CockpitInv, DeskInv, DeskSound, OpenDesk, NotEligible, Free
<1>3. /\ desk' \in [Desk -> DeskState] /\ desk'[d].pc \in {"none", "eligible"}
      /\ \A c \in Desk : c # d => desk'[c] = desk[c]
  <2>1. CASE OpenDesk(d)
    BY <2>1, <1>2 DEF OpenDesk, DeskState
  <2>2. CASE NotEligible(d)
    <3>1. NewDesk \in DeskState /\ NewDesk.pc = "none"
      BY DEF NewDesk, DeskState
    <3> QED
      BY <2>2, <3>1, <1>2 DEF NotEligible
  <2> QED
    BY <2>1, <2>2
<1> QED
  BY <1>1, <1>2, <1>3 DEF CockpitInv, DeskInv, DeskSound

LEMMA OpenedSound ==
  ASSUME CockpitInv, NEW d \in Desk, Opened(d)
  PROVE  CockpitInv'
<1>0. d \in Holder /\ (AcquireNew(d) \/ AcquireShared(d)) /\ desk[d].pc = "eligible"
      /\ present' = d /\ desk \in [Desk -> DeskState] /\ hold \in [Holder -> HoldState]
      /\ present \in Desk \cup {None}
  BY CockpitAssumption DEF Opened, CockpitInv, ChainInv, DeskInv
<1>1. ChainInv'
  BY <1>0, AcquireNewSound, AcquireSharedSound DEF CockpitInv
<1>2. present # d
  BY <1>0 DEF CockpitInv, DeskInv, DeskSound
<1>3. PICK n \in DeskState : /\ desk' = Replaced([desk EXCEPT ![d] = n], d)
                             /\ \/ AcquireNew(d) /\ n.pc = "acquiring"
                                \/ AcquireShared(d) /\ n.pc = "watching"
  <2>1. CASE AcquireNew(d) /\ desk' = Replaced([desk EXCEPT ![d].pc = "acquiring"], d)
    <3>1. [desk[d] EXCEPT !.pc = "acquiring"] \in DeskState
      BY <1>0 DEF DeskState
    <3>2. [desk[d] EXCEPT !.pc = "acquiring"].pc = "acquiring"
      BY <1>0 DEF DeskState
    <3>3. desk' = Replaced([desk EXCEPT ![d] = [desk[d] EXCEPT !.pc = "acquiring"]], d)
      BY <2>1
    <3> QED
      BY <2>1, <3>1, <3>2, <3>3
  <2>2. CASE AcquireShared(d) /\ desk' = Replaced([desk EXCEPT ![d] = Watching(d)], d)
    <3>1. Watching(d) \in DeskState /\ Watching(d).pc = "watching"
      BY <1>0 DEF DeskState, Watching
    <3> QED
      BY <2>2, <3>1
  <2> QED
    BY <2>1, <2>2 DEF Opened
<1>4. /\ desk' \in [Desk -> DeskState] /\ desk'[d] = n
      /\ \A c \in Desk : c # d => desk'[c].pc = desk[c].pc
      /\ \A c \in Desk : c # d => desk'[c].lost = (desk[c].lost \/ present = c)
  <2> DEFINE ds == [desk EXCEPT ![d] = n]
  <2>1. ds \in [Desk -> DeskState] /\ ds[d] = n /\ \A c \in Desk : c # d => ds[c] = desk[c]
    BY <1>0
  <2> HIDE DEF ds
  <2>2. desk' = IF present = None THEN ds ELSE [ds EXCEPT ![present].lost = TRUE]
    BY <1>3 DEF Replaced, NoDesk, ds
  <2>3. CASE present = None
    BY <2>1, <2>2, <2>3, CockpitAssumption, <1>0 DEF DeskState
  <2>4. CASE present \in Desk
    <3>1. desk' = [ds EXCEPT ![present] = [ds[present] EXCEPT !.lost = TRUE]]
      BY <2>2, <2>4, CockpitAssumption
    <3>2. /\ [ds[present] EXCEPT !.lost = TRUE] \in DeskState
          /\ [ds[present] EXCEPT !.lost = TRUE].lost
          /\ [ds[present] EXCEPT !.lost = TRUE].pc = ds[present].pc
      BY <2>1, <2>4 DEF DeskState
    <3>3. \A c \in Desk : c # d => desk[c].lost \in BOOLEAN
      BY <1>0 DEF DeskState
    <3> QED
      BY <2>1, <3>1, <3>2, <3>3, <2>4, <1>2
  <2> QED
    BY <1>0, <2>3, <2>4
<1>5. /\ \A g \in Holder : g # d => hold'[g] = hold[g]
      /\ n.pc = "acquiring" => hold'[d].pc = "resolving"
      /\ n.pc = "watching" => hold'[d].pc = "held"
  BY <1>0, <1>3, HolderMoves
<1>6. \A c \in Desk : DeskSound(c)'
  <2> SUFFICES ASSUME NEW c \in Desk PROVE DeskSound(c)'
    OBVIOUS
  <2>1. CASE c = d
    BY <2>1, <1>0, <1>3, <1>4, <1>5 DEF DeskSound
  <2>2. CASE c # d
    <3>1. hold'[c] = hold[c] /\ DeskSound(c)
      BY <2>2, <1>5, CockpitAssumption DEF CockpitInv, DeskInv
    <3> QED
      BY <2>2, <3>1, <1>0, <1>4 DEF DeskSound
  <2> QED
    BY <2>1, <2>2
<1> QED
  BY <1>0, <1>1, <1>4, <1>6 DEF CockpitInv, DeskInv

LEMMA AcquiredSound ==
  ASSUME CockpitInv, NEW d \in Desk, Acquired(d)
  PROVE  CockpitInv'
<1>0. d \in Holder /\ (Resolved(d) \/ Throws(d)) /\ desk[d].pc = "acquiring"
      /\ present' = present /\ desk \in [Desk -> DeskState] /\ hold \in [Holder -> HoldState]
  BY CockpitAssumption DEF Acquired, CockpitInv, ChainInv, DeskInv
<1>1. ChainInv'
  BY <1>0, ResolvedSound, ThrowsSound DEF CockpitInv
<1>2. /\ \A g \in Holder : g # d => hold'[g] = hold[g]
      /\ Resolved(d) => hold[d].pc = "resolving" /\ hold'[d].pc = "held"
      /\ Throws(d) => hold'[d].pc = "none"
  BY <1>0, HolderMoves
<1>3. PICK n \in DeskState : /\ desk' = [desk EXCEPT ![d] = n]
                             /\ \/ Resolved(d) /\ n.pc = "watching" /\ n.lost = desk[d].lost
                                \/ Throws(d) /\ present = d /\ n.pc = "watching"
                                \/ Throws(d) /\ present # d /\ n.pc = "none"
  <2>1. CASE Resolved(d) /\ desk' = [desk EXCEPT ![d] = Watching(d)]
    <3>1. Watching(d) \in DeskState /\ Watching(d).pc = "watching" /\ Watching(d).lost = desk[d].lost
      BY <1>0 DEF DeskState, Watching
    <3> QED
      BY <2>1, <3>1
  <2>2. CASE Throws(d) /\ present = d /\ desk' = [desk EXCEPT ![d] = [desk[d] EXCEPT !.pc = "watching"]]
    <3>1. /\ [desk[d] EXCEPT !.pc = "watching"] \in DeskState
          /\ [desk[d] EXCEPT !.pc = "watching"].pc = "watching"
      BY <1>0 DEF DeskState
    <3> QED
      BY <2>2, <3>1
  <2>3. CASE Throws(d) /\ present # d /\ desk' = [desk EXCEPT ![d] = NewDesk]
    <3>1. NewDesk \in DeskState /\ NewDesk.pc = "none"
      BY DEF NewDesk, DeskState
    <3> QED
      BY <2>3, <3>1
  <2> QED
    BY <2>1, <2>2, <2>3 DEF Acquired
<1>4. desk' \in [Desk -> DeskState] /\ desk'[d] = n /\ \A c \in Desk : c # d => desk'[c] = desk[c]
  BY <1>0, <1>3
<1>5. \A c \in Desk : DeskSound(c)'
  <2> SUFFICES ASSUME NEW c \in Desk PROVE DeskSound(c)'
    OBVIOUS
  <2>0. DeskSound(c)
    BY DEF CockpitInv, DeskInv
  <2>1. CASE c = d
    BY <2>0, <2>1, <1>0, <1>2, <1>3, <1>4 DEF DeskSound
  <2>2. CASE c # d
    <3>1. hold'[c] = hold[c]
      BY <2>2, <1>2, CockpitAssumption
    <3> QED
      BY <2>0, <2>2, <3>1, <1>0, <1>4 DEF DeskSound
  <2> QED
    BY <2>1, <2>2
<1> QED
  BY <1>0, <1>1, <1>4, <1>5 DEF CockpitInv, DeskInv

LEMMA CloseSound ==
  ASSUME CockpitInv, closeDesk
  PROVE  CockpitInv'
<1>1. CASE UNCHANGED cockpitVars
  BY <1>1 DEF cockpitVars, CockpitInv, ChainInv, HeldOf, Excused, ProcessIsOwned, DeskInv, DeskSound
<1>2. CASE present # None /\ ~UNCHANGED cockpitVars
  <2>0. present \in Desk /\ present \in Holder /\ present' = None
        /\ desk \in [Desk -> DeskState] /\ hold \in [Holder -> HoldState]
    BY <1>2, CockpitAssumption DEF CockpitInv, DeskInv, ChainInv, closeDesk, NoDesk
  <2>1. PICK d \in Desk : d = present
    BY <2>0
  <2>2. desk' = DeskClosed(desk, d) /\ IF hold[d].pc = "held" THEN Release(d) ELSE UNCHANGED chainVars
    BY <1>2, <2>1 DEF closeDesk, NoDesk
  <2>3. ChainInv'
    BY <2>0, <2>1, <2>2, ReleaseSound
       DEF CockpitInv, ChainInv, chainVars, HeldOf, Excused, ProcessIsOwned
  <2>4. /\ \A g \in Holder : g # d => hold'[g] = hold[g]
        /\ hold[d].pc = "held" => hold'[d].pc = "none"
        /\ hold[d].pc # "held" => hold'[d] = hold[d]
    <3>1. CASE hold[d].pc = "held"
      BY <3>1, <2>0, <2>1, <2>2, HolderMoves
    <3>2. CASE hold[d].pc # "held"
      BY <3>2, <2>2 DEF chainVars
    <3> QED
      BY <3>1, <3>2
  <2>5. PICK n \in DeskState : /\ desk' = [desk EXCEPT ![d] = n]
                               /\ desk[d].pc = "acquiring" => n.pc = "acquiring" /\ n.lost
                               /\ desk[d].pc # "acquiring" => n.pc = "none"
    <3>1. CASE desk[d].pc = "acquiring"
      <4>1. /\ [desk[d] EXCEPT !.lost = TRUE] \in DeskState
            /\ [desk[d] EXCEPT !.lost = TRUE].pc = "acquiring"
            /\ [desk[d] EXCEPT !.lost = TRUE].lost
        BY <2>0, <2>1, <3>1 DEF DeskState
      <4>2. desk' = [desk EXCEPT ![d] = [desk[d] EXCEPT !.lost = TRUE]]
        BY <2>2, <3>1 DEF DeskClosed
      <4> QED
        BY <3>1, <4>1, <4>2
    <3>2. CASE desk[d].pc # "acquiring"
      <4>1. NewDesk \in DeskState /\ NewDesk.pc = "none"
        BY DEF NewDesk, DeskState
      <4>2. desk' = [desk EXCEPT ![d] = NewDesk]
        BY <2>2, <3>2 DEF DeskClosed
      <4> QED
        BY <3>2, <4>1, <4>2
    <3> QED
      BY <3>1, <3>2
  <2>6. desk' \in [Desk -> DeskState] /\ desk'[d] = n /\ \A c \in Desk : c # d => desk'[c] = desk[c]
    <3>1. desk' = [desk EXCEPT ![d] = n] /\ desk \in [Desk -> DeskState]
      BY <2>0, <2>5
    <3> QED
      BY <3>1
  <2>7. \A c \in Desk : DeskSound(c)'
    <3> SUFFICES ASSUME NEW c \in Desk PROVE DeskSound(c)'
      OBVIOUS
    <3>0. DeskSound(c)
      BY DEF CockpitInv, DeskInv
    <3>1. CASE c = d
      <4>1. desk[d].pc = "acquiring" => hold[d].pc = "resolving"
        BY <3>0, <3>1 DEF DeskSound
      <4>2. desk[d].pc # "acquiring" => hold'[d].pc = "none"
        BY <3>0, <3>1, <2>0, <2>1, <2>4 DEF DeskSound, HoldState
      <4>3. present' # d
        BY <2>0, CockpitAssumption
      <4>4. CASE desk[d].pc = "acquiring"
        <5>1. hold'[d].pc = "resolving" /\ desk'[d].pc = "acquiring" /\ desk'[d].lost
          BY <4>1, <4>4, <2>4, <2>5, <2>6
        <5> QED
          BY <3>1, <4>3, <5>1 DEF DeskSound
      <4>5. CASE desk[d].pc # "acquiring"
        <5>1. hold'[d].pc = "none" /\ desk'[d].pc = "none"
          BY <4>2, <4>5, <2>5, <2>6
        <5> QED
          BY <3>1, <4>3, <5>1 DEF DeskSound
      <4> QED
        BY <4>4, <4>5
    <3>2. CASE c # d
      <4>1. hold'[c] = hold[c]
        BY <3>2, <2>4, CockpitAssumption
      <4> QED
        BY <3>0, <3>2, <4>1, <2>0, <2>1, <2>6, CockpitAssumption DEF DeskSound
    <3> QED
      BY <3>1, <3>2
  <2> QED
    BY <2>0, <2>3, <2>6, <2>7 DEF CockpitInv, DeskInv
<1> QED
  BY <1>1, <1>2 DEF closeDesk, NoDesk

LEMMA ClockSound ==
  ASSUME CockpitInv, Poll \/ Minute \/ Publish
  PROVE  CockpitInv'
<1>1. /\ ChainInv' /\ hold' = hold /\ present' = present
      /\ desk \in [Desk -> DeskState] /\ present \in Desk \cup {None}
  BY DEF CockpitInv, ChainInv, chainVars, Poll, Minute, Publish, DeskInv, HeldOf, Excused, ProcessIsOwned
<1>2. \A d \in Desk : \A a \in Nat :
        /\ [desk[d] EXCEPT !.age = a] \in DeskState
        /\ [desk[d] EXCEPT !.age = a].pc = desk[d].pc
        /\ [desk[d] EXCEPT !.age = a].lost = desk[d].lost
  BY <1>1 DEF DeskState
<1>3. \A d \in Desk : desk[d].age \in Nat /\ desk[d].age + 1 \in Nat /\ desk[d] \in DeskState
  BY <1>1 DEF DeskState
<1>4. DOMAIN desk' = Desk /\ desk' = [d \in Desk |-> desk'[d]]
  BY <1>1 DEF Poll, Minute, Publish
<1>5. \A d \in Desk : desk'[d] = desk[d] \/ \E a \in Nat : desk'[d] = [desk[d] EXCEPT !.age = a]
  <2> SUFFICES ASSUME NEW d \in Desk
               PROVE desk'[d] = desk[d] \/ \E a \in Nat : desk'[d] = [desk[d] EXCEPT !.age = a]
    OBVIOUS
  <2>1. CASE Poll
    <3>1. desk' = [desk EXCEPT ![present] = [desk[present] EXCEPT !.age = 0]]
      BY <2>1 DEF Poll
    <3> QED
      BY <3>1, <1>1
  <2>2. CASE Minute
    <3>1. desk'[d] = IF desk[d].pc # "none" /\ desk[d].age < Idle
                       THEN [desk[d] EXCEPT !.age = desk[d].age + 1] ELSE desk[d]
      BY <2>2 DEF Minute
    <3> QED
      BY <3>1, <1>3
  <2>3. CASE Publish
    <3>1. desk'[d] = IF d \in Listeners THEN [desk[d] EXCEPT !.age = 0] ELSE desk[d]
      BY <2>3 DEF Publish
    <3> QED
      BY <3>1
  <2> QED
    BY <2>1, <2>2, <2>3
<1>6. \A d \in Desk : desk'[d] \in DeskState /\ desk'[d].pc = desk[d].pc /\ desk'[d].lost = desk[d].lost
  <2> SUFFICES ASSUME NEW d \in Desk
               PROVE desk'[d] \in DeskState /\ desk'[d].pc = desk[d].pc /\ desk'[d].lost = desk[d].lost
    OBVIOUS
  <2>1. CASE desk'[d] = desk[d]
    BY <1>3, <2>1
  <2>2. ASSUME NEW a \in Nat, desk'[d] = [desk[d] EXCEPT !.age = a]
        PROVE  desk'[d] \in DeskState /\ desk'[d].pc = desk[d].pc /\ desk'[d].lost = desk[d].lost
    BY <1>2, <2>2
  <2> QED
    BY <1>5, <2>1, <2>2
<1>7. desk' \in [Desk -> DeskState]
  BY <1>4, <1>6
<1> QED
  BY <1>1, <1>6, <1>7, AgesOnly DEF CockpitInv

(* Every chain and every desk is in order.                                        *)
THEOREM CockpitInvHolds == CockpitSpec => []CockpitInv
<1>1. CockpitInit => CockpitInv
  <2> SUFFICES ASSUME CockpitInit PROVE CockpitInv
    OBVIOUS
  <2>1. ChainInv
    BY ChainInitSound DEF CockpitInit
  <2>2. NewDesk \in DeskState /\ NewDesk.pc = "none"
    BY DEF NewDesk, DeskState
  <2>3. \A d \in Desk : hold[d].pc = "none"
    BY CockpitAssumption DEF CockpitInit, ChainInit, Free
  <2>4. present = None /\ desk \in [Desk -> DeskState] /\ \A d \in Desk : desk[d].pc = "none"
    BY <2>2 DEF CockpitInit, NoDesk
  <2> QED
    BY <2>1, <2>3, <2>4, CockpitAssumption DEF CockpitInv, DeskInv, DeskSound
<1>2. CockpitInv /\ [CockpitNext]_cockpitVars => CockpitInv'
  <2> SUFFICES ASSUME CockpitInv, [CockpitNext]_cockpitVars PROVE CockpitInv'
    OBVIOUS
  <2>1. ASSUME NEW h \in Holder \ Desk, Acquire(h) \/ Resolved(h) \/ Throws(h) \/ Release(h),
               UNCHANGED <<present, desk>>
        PROVE  CockpitInv'
    BY <2>1, OthersSound
  <2>2. CASE ChainStep /\ UNCHANGED <<present, desk>>
    <3>1. ChainInv' /\ hold' = hold
      BY <2>2, ChainStepSound, ChainStepHolds DEF CockpitInv
    <3> QED
      BY <2>2, <3>1 DEF CockpitInv, DeskInv, DeskSound
  <2>3. ASSUME NEW d \in Desk,
               OpenDesk(d) \/ NotEligible(d) \/ Opened(d) \/ Acquired(d) \/ IdleCheck(d)
        PROVE  CockpitInv'
    BY <2>3, OpenDeskSound, OpenedSound, AcquiredSound, CloseSound DEF IdleCheck
  <2>4. CASE Poll \/ Minute \/ Publish
    BY <2>4, ClockSound
  <2>5. CASE UNCHANGED cockpitVars
    BY <2>5 DEF cockpitVars, CockpitInv, ChainInv, HeldOf, Excused, ProcessIsOwned, DeskInv, DeskSound
  <2> QED
    BY <2>1, <2>2, <2>3, <2>4, <2>5 DEF CockpitNext
<1> QED
  BY <1>1, <1>2, PTL DEF CockpitSpec

(* Whatever is acquired, released, torn down, restarted and closed, and in what    *)
(* order, every process of a chain has somebody who holds it or a reaper.        *)
THEOREM ProcessIsOwnedHolds == CockpitSpec => []ProcessIsOwned
<1>1. CockpitInv => ProcessIsOwned
  BY DEF CockpitInv, ChainInv
<1> QED
  BY <1>1, CockpitInvHolds, PTL

(* A chain somebody holds is without a process for one of the stated reasons only. *)
THEOREM SilentForAReasonHolds == CockpitSpec => []SilentForAReason
<1>1. CockpitInv => SilentForAReason
  BY DEF CockpitInv, ChainInv, SilentForAReason, Excused
<1> QED
  BY <1>1, CockpitInvHolds, PTL

(* A desk that holds a chain is in the map, or an overlapping open or an early     *)
(* close took it out.                                                            *)
THEOREM DeskIsReachableHolds == CockpitSpec => []DeskIsReachable
<1>1. CockpitInv => DeskIsReachable
  BY DEF CockpitInv, DeskInv, DeskSound, DeskIsReachable
<1> QED
  BY <1>1, CockpitInvHolds, PTL

--------------------------------------------------------------------------------
(* BrowserSocket: a page that has left stays left.                               *)

PageInv ==
  /\ sock \in [Socket -> {"gone", "connecting", "open", "closing"}]
  /\ field \in [ws : Socket \cup {NoSocket}, retryTimer : BOOLEAN, closedByUs : BOOLEAN,
                state : {"connecting", "open", "closed"}]
  /\ page \in {"opens", "wants", "done", "left"}
  /\ page \in {"done", "left"} => ~field.retryTimer /\ field.closedByUs /\ field.ws = NoSocket

(* What connect leaves, from fields and sockets that are in order.                *)
LEMMA ConnectTyped ==
  ASSUME NEW sockets \in [Socket -> {"gone", "connecting", "open", "closing"}],
         NEW f \in [ws : Socket \cup {NoSocket}, retryTimer : BOOLEAN, closedByUs : BOOLEAN,
                    state : {"connecting", "open", "closed"}],
         connect(f, sockets)
  PROVE  /\ sock' \in [Socket -> {"gone", "connecting", "open", "closing"}]
         /\ field' \in [ws : Socket \cup {NoSocket}, retryTimer : BOOLEAN, closedByUs : BOOLEAN,
                        state : {"connecting", "open", "closed"}]
<1>1. CASE field' = f /\ sock' = sockets
  BY <1>1
<1>2. ASSUME NEW s \in Socket, sock' = [sockets EXCEPT ![s] = "connecting"],
             field' = [f EXCEPT !.ws = s, !.closedByUs = FALSE, !.state = "connecting"]
      PROVE  /\ sock' \in [Socket -> {"gone", "connecting", "open", "closing"}]
             /\ field' \in [ws : Socket \cup {NoSocket}, retryTimer : BOOLEAN, closedByUs : BOOLEAN,
                            state : {"connecting", "open", "closed"}]
  BY <1>2
<1> QED
  BY <1>1, <1>2 DEF connect

LEMMA CloseTyped ==
  ASSUME PageInv
  PROVE  /\ Hung(field) \in [Socket -> {"gone", "connecting", "open", "closing"}]
         /\ Closed(field) \in [ws : Socket \cup {NoSocket}, retryTimer : BOOLEAN, closedByUs : BOOLEAN,
                               state : {"connecting", "open", "closed"}]
         /\ ~Closed(field).retryTimer /\ Closed(field).closedByUs /\ Closed(field).ws = NoSocket
         /\ \A s \in Socket : Hung(field)[s] = "connecting" => sock[s] = "connecting"
  BY DEF PageInv, Hung, Closed, CloseKeepingTimer

LEMMA OncloseTyped ==
  ASSUME PageInv, NEW s \in Socket, onclose(s)
  PROVE  PageInv' /\ \A t \in Socket : sock'[t] = "connecting" => sock[t] = "connecting"
<1>1. /\ sock' = [sock EXCEPT ![s] = "gone"] /\ page' = page
      /\ field' = IF ~field.closedByUs THEN scheduleRetry(Dropped(field)) ELSE Dropped(field)
  BY DEF onclose, Ended
<1>2. Dropped(field) \in [ws : Socket \cup {NoSocket}, retryTimer : BOOLEAN, closedByUs : BOOLEAN,
                          state : {"connecting", "open", "closed"}]
      /\ Dropped(field).retryTimer = field.retryTimer /\ Dropped(field).closedByUs = field.closedByUs
      /\ Dropped(field).ws = NoSocket
  BY DEF PageInv, Dropped
<1> QED
  BY <1>1, <1>2 DEF PageInv, scheduleRetry

LEMMA PageStep ==
  ASSUME PageInv, [PageNext]_pageVars
  PROVE  /\ PageInv'
         /\ \A s \in Socket : page \in {"done", "left"} /\ sock'[s] = "connecting" => sock[s] = "connecting"
<1>1. CASE Open
  BY <1>1, ConnectTyped DEF Open, PageInv
<1>2. CASE PageLeaves \/ FeedEnds
  BY <1>2, CloseTyped DEF PageLeaves, FeedEnds, PageInv, close
<1>3. CASE check
  BY <1>3, CloseTyped, ConnectTyped DEF check, PageInv
<1>4. CASE Retry
  <2>1. page \notin {"done", "left"}
    BY <1>4 DEF Retry, PageInv
  <2>2. [field EXCEPT !.retryTimer = FALSE]
          \in [ws : Socket \cup {NoSocket}, retryTimer : BOOLEAN, closedByUs : BOOLEAN,
               state : {"connecting", "open", "closed"}]
    BY DEF PageInv
  <2> QED
    BY <1>4, <2>1, <2>2, ConnectTyped DEF Retry, PageInv
<1>5. ASSUME NEW s \in Socket, onopen(s)
      PROVE  /\ PageInv'
             /\ \A t \in Socket : page \in {"done", "left"} /\ sock'[t] = "connecting" => sock[t] = "connecting"
  BY <1>5 DEF onopen, PageInv
<1>6. ASSUME NEW s \in Socket, Closing(s) \/ Fails(s)
      PROVE  /\ PageInv'
             /\ \A t \in Socket : page \in {"done", "left"} /\ sock'[t] = "connecting" => sock[t] = "connecting"
  BY <1>6, OncloseTyped DEF Closing, Fails
<1>7. ASSUME NEW s \in Socket, HalfOpen(s)
      PROVE  /\ PageInv'
             /\ \A t \in Socket : page \in {"done", "left"} /\ sock'[t] = "connecting" => sock[t] = "connecting"
  BY <1>7 DEF HalfOpen, PageInv
<1>8. CASE UNCHANGED pageVars
  BY <1>8 DEF pageVars, PageInv
<1> QED
  BY <1>1, <1>2, <1>3, <1>4, <1>5, <1>6, <1>7, <1>8 DEF PageNext

THEOREM LeftIsLeftHolds == PageSpec => LeftIsLeft
<1>1. PageInit => PageInv
  BY DEF PageInit, PageInitAt, PageInv
<1>2. PageInv /\ [PageNext]_pageVars => PageInv'
  BY PageStep
<1>3. PageInv /\ [PageNext]_pageVars =>
        [\A s \in Socket : page \in {"done", "left"} /\ sock'[s] = "connecting" => sock[s] = "connecting"]_pageVars
  BY PageStep
<1> QED
  BY <1>1, <1>2, <1>3, PTL DEF PageSpec, LeftIsLeft

================================================================================
