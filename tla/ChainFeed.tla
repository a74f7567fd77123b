------------------------------- MODULE ChainFeed -------------------------------
(* backend/assistant/chainFeed.ts: one bridge process for each option chain,     *)
(* shared by everybody who acquires it.  One contract: chains of different       *)
(* contracts touch no common state.                                              *)
(*                                                                              *)
(* An Entry is an object of the registry's; `current` is what the registry's map *)
(* holds under the contract's key.  A Holder is one call of acquireChain and the *)
(* handle it returns.  Delays are left out: a timer is pending or it is not.     *)
EXTENDS Naturals, FiniteSets

CONSTANTS Entry, Holder, None

ASSUME ChainAssumption == None \notin Entry /\ IsFiniteSet(Holder)

VARIABLES
  current,  \* entries.get(key), or None
  feed,     \* the fields of every entry
  hold      \* for every holder, where its acquireChain is, and its entry

chainVars == <<current, feed, hold>>

(* bridge: a child process runs.  A handle whose child never ran is as good as    *)
(* none.  gone is a history: the last child could not be started, and only its    *)
(* 'error' told of it, or it was given up while nobody held the chain.           *)
NewFeed == [bridge |-> FALSE, restart |-> FALSE, reaper |-> FALSE, pump |-> FALSE,
            refs |-> 0, printed |-> FALSE, gone |-> "no"]
Free == [pc |-> "none", on |-> None]

ChainTypeOK ==
  /\ current \in Entry \cup {None}
  /\ feed \in [Entry -> [bridge : BOOLEAN, restart : BOOLEAN, reaper : BOOLEAN, pump : BOOLEAN,
                         refs : 0..Cardinality(Holder), printed : BOOLEAN,
                         gone : {"no", "unstarted", "unheld"}]]
  /\ hold \in [Holder -> [pc : {"none", "resolving", "held"}, on : Entry \cup {None}]]

ChainInit ==
  /\ current = None
  /\ feed = [e \in Entry |-> NewFeed]
  /\ hold = [h \in Holder |-> Free]

(* An object nothing refers to any more, which stands for one not yet allocated. *)
Unused(e) == current # e /\ feed[e] = NewFeed /\ \A h \in Holder : hold[h].on # e

--------------------------------------------------------------------------------
(* startBridge: the child runs; or it cannot (no python), which raises 'error'    *)
(* and no 'exit', so that onExit never learns of it; or there is no script to    *)
(* run, which is reported through onExit before spawn has returned.              *)
Exited(f) == IF f.refs > 0 THEN [f EXCEPT !.bridge = FALSE, !.restart = TRUE]
                           ELSE [f EXCEPT !.bridge = FALSE, !.gone = "unheld"]
spawn(f) == {[f EXCEPT !.bridge = TRUE, !.gone = "no"],
             [f EXCEPT !.bridge = FALSE, !.gone = "unstarted"],
             Exited(f)}

(* acquireChain for the first caller, up to its await of the spot symbol.        *)
AcquireNew(h) ==
  /\ hold[h].pc = "none" /\ current = None
  /\ \E e \in Entry :
       /\ Unused(e)
       /\ current' = e
       /\ hold' = [hold EXCEPT ![h] = [pc |-> "resolving", on |-> e]]
  /\ UNCHANGED feed

(* The rest of acquireChain: a pending reap is called off.                       *)
Joined(f) == [f EXCEPT !.reaper = FALSE, !.refs = @ + 1]

AcquireShared(h) ==
  /\ hold[h].pc = "none" /\ current # None
  /\ feed' = [feed EXCEPT ![current] = Joined(@)]
  /\ hold' = [hold EXCEPT ![h] = [pc |-> "held", on |-> current]]
  /\ UNCHANGED current

(* The spot symbol is there, or is not known, which is no reason not to start.    *)
(* An exception on the way is the caller's, and the entry stays as it is.        *)
Resolved(h) ==
  LET e == hold[h].on IN
  /\ hold[h].pc = "resolving"
  /\ \E f \in spawn(feed[e]) : feed' = [feed EXCEPT ![e] = Joined([f EXCEPT !.pump = TRUE])]
  /\ hold' = [hold EXCEPT ![h].pc = "held"]
  /\ UNCHANGED current

Throws(h) ==
  /\ hold[h].pc = "resolving"
  /\ feed' = [feed EXCEPT ![hold[h].on].gone =
                IF current = hold[h].on \/ feed[hold[h].on].refs > 0 THEN "unstarted" ELSE @]
  /\ hold' = [hold EXCEPT ![h] = Free]
  /\ UNCHANGED current

(* handle.release(), for a handle not released before.                           *)
(* Mutant: the entry is given its reaper only while its bridge runs.             *)
ReleasedIfUp(f) == [f EXCEPT !.refs = @ - 1, !.reaper = (f.refs = 1 /\ f.bridge)]
Released(f) == [f EXCEPT !.refs = @ - 1, !.reaper = (f.refs = 1)]
Release(h) ==
  /\ hold[h].pc = "held"
  /\ feed' = [feed EXCEPT ![hold[h].on] = Released(@)]
  /\ hold' = [hold EXCEPT ![h] = Free]
  /\ UNCHANGED current

(* teardown, by the reaper.  The map is cleared by key, whatever entry is there.  *)
(* Mutant: the child is left to itself.                                          *)
teardownKeepsChild(e) ==
  /\ feed[e].reaper
  /\ feed' = [feed EXCEPT ![e] = [NewFeed EXCEPT !.bridge = feed[e].bridge]]
  /\ current' = None
  /\ UNCHANGED hold

teardown(e) ==
  /\ feed[e].reaper
  /\ feed' = [feed EXCEPT ![e] = NewFeed]
  /\ current' = None
  /\ UNCHANGED hold

(* The child exits; the restart timer fires.  An exception in the timer ends the  *)
(* whole backend (lib/logger.ts), which is not modelled.                         *)
(* Mutant: an exit is taken for the end.                                         *)
ExitForGood(e) ==
  /\ feed[e].bridge
  /\ feed' = [feed EXCEPT ![e].bridge = FALSE]
  /\ UNCHANGED <<current, hold>>

Exit(e) ==
  /\ feed[e].bridge
  /\ feed' = [feed EXCEPT ![e] = Exited(@)]
  /\ UNCHANGED <<current, hold>>

Restart(e) ==
  /\ feed[e].restart
  /\ LET f == [feed[e] EXCEPT !.restart = FALSE] IN
     \E g \in IF f.refs > 0 THEN spawn(f) ELSE {[f EXCEPT !.gone = "unheld"]} :
       feed' = [feed EXCEPT ![e] = g]
  /\ UNCHANGED <<current, hold>>

(* handleEvent.                                                                  *)
Frame(e) ==
  /\ feed[e].bridge /\ ~feed[e].printed
  /\ feed' = [feed EXCEPT ![e].printed = TRUE]
  /\ UNCHANGED <<current, hold>>

(* publish, by the pump of any entry of this key: the entry in the map is what    *)
(* it looks up, and that entry's listeners are told.                             *)
Publishing == current # None /\ feed[current].printed /\ \E e \in Entry : feed[e].pump
Listeners == {h \in Holder : hold[h] = [pc |-> "held", on |-> current]}

ChainStep == \E e \in Entry : teardown(e) \/ Exit(e) \/ Restart(e) \/ Frame(e)
Acquire(h) == AcquireNew(h) \/ AcquireShared(h)

--------------------------------------------------------------------------------
(* A child process, or the timer that will start one, is there for somebody who  *)
(* holds it, or the timer that ends it is pending: no acquire, release, exit or   *)
(* restart leaves one nobody can stop (chainFeed.ts 317-333, 388-425), not even   *)
(* of an entry that was torn down while its first caller waited.                 *)
ProcessIsOwned ==
  \A e \in Entry : feed[e].bridge \/ feed[e].restart => feed[e].refs > 0 \/ feed[e].reaper

(* A process that ran and was lost while somebody held its chain is replaced:     *)
(* whatever releases, acquires and reapers cross its exit, a held chain without a *)
(* process has one coming, unless its last child could not be started at all or   *)
(* was lost when nobody held the chain.  Such a chain stays silent for as long as *)
(* it is held: chainFeed.ts 319 and 330 let it go, and nobody hears an 'error'    *)
(* without an 'exit' (liveBridge.ts 166-178).                                    *)
SilentForAReason ==
  \A e \in Entry : feed[e].refs > 0 =>
    \/ feed[e].bridge \/ feed[e].restart
    \/ \E h \in Holder : hold[h] = [pc |-> "resolving", on |-> e]
    \/ feed[e].gone # "no"

(* A process nobody holds comes to an end, unless somebody holds it again.       *)
UnusedIsStopped ==
  \A e \in Entry :
    feed[e].bridge /\ feed[e].refs = 0 ~> ~feed[e].bridge \/ feed[e].refs > 0

================================================================================
