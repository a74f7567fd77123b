------------------------------ MODULE WatchMonitor ------------------------------
(* backend/assistant/monitor/engine.ts and watchStore.ts, with their callers in   *)
(* tools/watches.ts, routes/assistant.ts and wsAssistant.ts: which chains the     *)
(* watches and the conversations hold, and what of the watches is on disk.       *)
(* Chains are acquired with the broker's session: without one (nobody has logged   *)
(* in yet, it has expired, a logout) nothing reconciles, and no login does so      *)
(* later.                                                                        *)
(*                                                                              *)
(* A chain's slot in `chains`, and a conversation's in `held`, is empty, reserved *)
(* (PENDING) while acquireChain is awaited, or a handle.  A Call is one run of    *)
(* reconcileChains, from its start to its end.                                   *)
EXTENDS Naturals

CONSTANTS Key, Conv, Call, Nowhere,
  MaxCrashes   \* bound on crashes

ASSUME WatchAssumption ==
  Key \cap Conv = {} /\ Nowhere \notin Key /\ MaxCrashes \in Nat

Slot == Key \cup Conv

VARIABLES
  wanted,   \* the chains of the watches that are not paused: requiredChains()
  disk,     \* those of the watches in watches.json
  writing,  \* the persist timer is pending
  loggedIn, \* getSession() has a session
  started,  \* startAssistant has run
  slot,     \* chains and held
  handles,  \* handles acquired for a slot and not released (history)
  spoiled,  \* slots for which an acquire has failed (history)
  unseen,   \* chains wanted since no reconcile has looked, for want of a session (history)
  call,     \* where each reconcile is, and the chains it has still to visit
  conv,     \* for each conversation: its socket, and its turn
  crashes

watchVars ==
  <<wanted, disk, writing, loggedIn, started, slot, handles, spoiled, unseen, call, conv, crashes>>
broker == <<loggedIn, started>>

Done == [at |-> Nowhere, todo |-> {}]
NewConv == [open |-> TRUE, turn |-> "none", late |-> FALSE]

WatchTypeOK ==
  /\ wanted \subseteq Key /\ disk \subseteq Key
  /\ writing \in BOOLEAN /\ loggedIn \in BOOLEAN /\ started \in BOOLEAN
  /\ slot \in [Slot -> {"empty", "pending", "handle"}]
  /\ handles \in [Slot -> Nat]
  /\ spoiled \subseteq Slot /\ unseen \subseteq Key
  /\ call \in [Call -> [at : Key \cup {Nowhere}, todo : SUBSET Key]]
  /\ conv \in [Conv -> [open : BOOLEAN, turn : {"none", "thinking", "holding"}, late : BOOLEAN]]
  /\ crashes \in 0..MaxCrashes

WatchInit ==
  /\ wanted = {} /\ disk = {} /\ writing = FALSE
  /\ loggedIn = FALSE /\ started = FALSE
  /\ slot = [x \in Slot |-> "empty"]
  /\ handles = [x \in Slot |-> 0]
  /\ spoiled = {} /\ unseen = {}
  /\ call = [r \in Call |-> Done]
  /\ conv = [c \in Conv |-> NewConv]
  /\ crashes = 0

--------------------------------------------------------------------------------
(* The second loop of reconcileChains, by call r of cs, on the slots s: chains    *)
(* that have a slot are passed over, the first without one is reserved.          *)
Visit(cs, r, s, todo) ==
  \/ \E k \in todo : \E passed \in SUBSET {l \in todo : s[l] # "empty"} :
       /\ s[k] = "empty"
       /\ slot' = [s EXCEPT ![k] = "pending"]
       /\ call' = [cs EXCEPT ![r] = [at |-> k, todo |-> (todo \ {k}) \ passed]]
  \/ /\ \A k \in todo : s[k] # "empty"
     /\ slot' = s
     /\ call' = [cs EXCEPT ![r] = Done]

(* The slots X are emptied: their handles are released, a reservation has none.   *)
Without(X) == [x \in Slot |-> IF x \in X THEN "empty" ELSE slot[x]]
HandlesWithout(X) ==
  [x \in Slot |-> IF x \in X /\ slot[x] = "handle" THEN handles[x] - 1 ELSE handles[x]]

(* reconcileChains, up to its first await: what w does not want is let go first.  *)
reconcileChains(r, w) ==
  /\ call[r] = Done
  /\ Visit(call, r, Without(Key \ w), w)
  /\ handles' = HandlesWithout(Key \ w)
  /\ unseen' = {}

(* Watches are created or resumed (one at a time), paused or cancelled, some of    *)
(* them perhaps on a chain that others want as well: the store is to be written.   *)
AfterChange == (SUBSET wanted) \cup {wanted \cup {k} : k \in Key}

(* A change by one who has a session: the reconcile starts in the same turn.       *)
(* Mutant: the reconcile comes before the change.                                 *)
ChangeAfterwards(r) ==
  /\ wanted' \in AfterChange
  /\ reconcileChains(r, wanted)
  /\ writing' = TRUE
  /\ UNCHANGED <<disk, broker, spoiled, crashes>>

Change(r) ==
  /\ \E w \in AfterChange : wanted' = w /\ reconcileChains(r, w)
  /\ writing' = TRUE
  /\ UNCHANGED <<disk, broker, spoiled, crashes>>

(* The routes: they reconcile if there is a session, and only change the watches   *)
(* if there is none.                                                             *)
RouteChanges(r) == loggedIn /\ Change(r) /\ UNCHANGED conv

RouteChangesUnseen ==
  /\ ~loggedIn
  /\ wanted' \in AfterChange
  /\ unseen' = (unseen \cup (wanted' \ wanted)) \cap wanted'
  /\ writing' = TRUE
  /\ UNCHANGED <<disk, broker, slot, handles, spoiled, call, conv, crashes>>

(* A session comes, or goes (a logout, or its time is up): nobody is told.        *)
Session ==
  /\ loggedIn' = ~loggedIn
  /\ UNCHANGED <<wanted, disk, writing, started, slot, handles, spoiled, unseen, call, conv, crashes>>

(* acquireChain comes back for slot x: its handle is kept if the slot is reserved  *)
(* still, by whomever, and released if it is not.                                 *)
(* Mutant: the handle is kept without another look.                              *)
ArrivedUnchecked(x) == [s |-> [slot EXCEPT ![x] = "handle"], n |-> [handles EXCEPT ![x] = @ + 1]]
Arrived(x) ==
  IF slot[x] = "pending"
  THEN [s |-> [slot EXCEPT ![x] = "handle"], n |-> [handles EXCEPT ![x] = @ + 1]]
  ELSE [s |-> slot, n |-> handles]

Reconciled(r) ==
  LET x == call[r].at IN
  /\ x # Nowhere
  /\ Visit(call, r, Arrived(x).s, call[r].todo)
  /\ handles' = Arrived(x).n
  /\ UNCHANGED <<wanted, disk, writing, broker, spoiled, unseen, conv, crashes>>

(* It throws (bound: once for a slot): the slot is emptied, whatever is in it.    *)
ReconcileFails(r) ==
  LET x == call[r].at IN
  /\ x # Nowhere /\ x \notin spoiled
  /\ Visit(call, r, [slot EXCEPT ![x] = "empty"], call[r].todo)
  /\ spoiled' = spoiled \cup {x}
  /\ UNCHANGED <<wanted, disk, writing, broker, handles, unseen, conv, crashes>>

--------------------------------------------------------------------------------
(* A conversation: one turn at a time, which is understood before it does what it *)
(* is about, with the session there was when it was asked; without one it does     *)
(* nothing.                                                                      *)
Ask(c) ==
  /\ started /\ loggedIn
  /\ conv[c].open /\ conv[c].turn = "none"
  /\ conv' = [conv EXCEPT ![c].turn = "thinking"]
  /\ UNCHANGED <<wanted, disk, writing, broker, slot, handles, spoiled, unseen, call, crashes>>

holdChain(c) ==
  /\ conv[c].turn = "thinking" /\ slot[c] = "empty"
  /\ slot' = [slot EXCEPT ![c] = "pending"]
  /\ conv' = [conv EXCEPT ![c].turn = "holding"]
  /\ UNCHANGED <<wanted, disk, writing, broker, handles, spoiled, unseen, call, crashes>>

releaseHeld(c) == slot' = Without({c}) /\ handles' = HandlesWithout({c})

(* A turn that asks to stop streaming, or one that needs no chain.                *)
Answered(c) ==
  /\ conv[c].turn = "thinking"
  /\ conv' = [conv EXCEPT ![c].turn = "none"]
  /\ releaseHeld(c) \/ UNCHANGED <<slot, handles>>
  /\ UNCHANGED <<wanted, disk, writing, broker, spoiled, unseen, call, crashes>>

(* A turn that creates or cancels watches; the rest of it changes nothing more.   *)
TurnChanges(c, r) ==
  /\ conv[c].turn = "thinking"
  /\ conv' = [conv EXCEPT ![c].turn = "none"]
  /\ Change(r)

Held(c) ==
  /\ conv[c].turn = "holding"
  /\ conv' = [conv EXCEPT ![c].turn = "none"]
  /\ \/ slot' = Arrived(c).s /\ handles' = Arrived(c).n /\ UNCHANGED spoiled
     \/ /\ c \notin spoiled /\ spoiled' = spoiled \cup {c}
        /\ slot' = [slot EXCEPT ![c] = "empty"] /\ UNCHANGED handles
  /\ UNCHANGED <<wanted, disk, writing, broker, unseen, call, crashes>>

(* The socket closes.  late is a history: a turn was being understood.            *)
endConversation(c) ==
  /\ started /\ conv[c].open
  /\ conv' = [conv EXCEPT ![c].open = FALSE, ![c].late = (conv[c].turn = "thinking")]
  /\ releaseHeld(c)
  /\ UNCHANGED <<wanted, disk, writing, broker, spoiled, unseen, call, crashes>>

--------------------------------------------------------------------------------
(* flush: the file is replaced by a rename, or is left as it was.                 *)
flush ==
  /\ writing /\ writing' = FALSE
  /\ disk' \in {wanted, disk}
  /\ UNCHANGED <<wanted, broker, slot, handles, spoiled, unseen, call, conv, crashes>>

(* The process dies.  The next one has the watches of the file, loaded when they   *)
(* are first asked for, and no session.                                          *)
Restart ==
  /\ crashes < MaxCrashes /\ crashes' = crashes + 1
  /\ wanted' = disk /\ unseen' = disk /\ writing' = FALSE
  /\ loggedIn' = FALSE /\ started' = FALSE
  /\ slot' = [x \in Slot |-> "empty"]
  /\ handles' = [x \in Slot |-> 0]
  /\ spoiled' = {}
  /\ call' = [r \in Call |-> Done]
  /\ conv' = [c \in Conv |-> NewConv]
  /\ UNCHANGED disk

(* The first conversation connects: once, and only if there is a session by then,  *)
(* the watches that were loaded get their chains.                                *)
startAssistant(r) ==
  /\ ~started /\ started' = TRUE
  /\ \/ loggedIn /\ reconcileChains(r, wanted)
     \/ ~loggedIn /\ UNCHANGED <<slot, handles, unseen, call>>
  /\ UNCHANGED <<wanted, disk, writing, loggedIn, spoiled, conv, crashes>>

WatchNext ==
  \/ \E r \in Call : RouteChanges(r) \/ Reconciled(r) \/ ReconcileFails(r) \/ startAssistant(r)
  \/ \E c \in Conv : \/ Ask(c) \/ holdChain(c) \/ Answered(c) \/ Held(c) \/ endConversation(c)
                     \/ \E r \in Call : TurnChanges(c, r)
  \/ RouteChangesUnseen \/ Session \/ flush \/ Restart

WatchSpec == WatchInit /\ [][WatchNext]_watchVars

--------------------------------------------------------------------------------
(* Once no reconcile is running, every chain a watch needs is held, however many   *)
(* reconciles crossed each other, reserved the same slot, and released on arrival  *)
(* what another had acquired; unless acquiring it has failed, or nothing has        *)
(* reconciled since it was wanted, because there was no session then: what a       *)
(* restart found in the file, or a watch resumed without one (engine.ts 153-183).  *)
WantedIsHeld ==
  (\A r \in Call : call[r] = Done) =>
    \A k \in wanted : slot[k] = "handle" \/ k \in spoiled \/ k \in unseen

(* Every handle has a slot that will release it, and no slot counts on a handle   *)
(* it lacks, unless a failed acquire emptied it without looking (engine.ts        *)
(* 174-181, 216-226); and the slot of a conversation that is over is empty,       *)
(* unless its last turn was still being understood when its socket closed         *)
(* (wsAssistant.ts 174-182).                                                     *)
EveryHandleIsOwned ==
  /\ \A x \in Slot : handles[x] = (IF slot[x] = "handle" THEN 1 ELSE 0) \/ x \in spoiled
  /\ \A c \in Conv :
       ~conv[c].open /\ conv[c].turn = "none" => slot[c] = "empty" \/ conv[c].late

================================================================================
