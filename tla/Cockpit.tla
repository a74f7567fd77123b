-------------------------------- MODULE Cockpit --------------------------------
(* backend/expiry/session.ts: the expiry cockpit's sessions for one contract,    *)
(* each of which holds its chain (ChainFeed); the other holders are watches and  *)
(* conversations.  A Desk is an Entry object of session.ts, from the request     *)
(* that found none in the map to the last timer that knows of it.               *)
EXTENDS ChainFeed

CONSTANTS
  Desk,
  Idle   \* IDLE_MS, in minutes

ASSUME CockpitAssumption == Desk \subseteq Holder /\ None \notin Desk

VARIABLES
  present,  \* entries.get(key) of session.ts, or NoDesk
  desk   \* the fields of every desk

cockpitVars == <<current, feed, hold, present, desk>>

NoDesk == None

(* age is how long ago lastTouched is; lost is a history: the desk was dropped     *)
(* from the map by something other than its own close.                           *)
NewDesk == [pc |-> "none", timer |-> FALSE, age |-> 0, lost |-> FALSE]

CockpitTypeOK ==
  /\ ChainTypeOK
  /\ present \in Desk \cup {NoDesk}
  /\ desk \in [Desk -> [pc : {"none", "eligible", "acquiring", "watching"}, timer : BOOLEAN,
                        age : 0..Idle, lost : BOOLEAN]]

CockpitInit ==
  /\ ChainInit
  /\ present = NoDesk
  /\ desk = [d \in Desk |-> NewDesk]

--------------------------------------------------------------------------------
(* open, for a contract not in the map, up to the await of its lot.              *)
OpenDesk(d) ==
  /\ present = NoDesk /\ desk[d] = NewDesk /\ hold[d] = Free
  /\ desk' = [desk EXCEPT ![d].pc = "eligible"]
  /\ UNCHANGED <<chainVars, present>>

(* open, for one that is.                                                       *)
Poll ==
  /\ present # NoDesk
  /\ desk' = [desk EXCEPT ![present].age = 0]
  /\ UNCHANGED <<chainVars, present>>

(* getEligible fails, or answers: the desk goes into the map over whatever came   *)
(* there meanwhile, and acquires the chain.                                      *)
NotEligible(d) ==
  /\ desk[d].pc = "eligible"
  /\ desk' = [desk EXCEPT ![d] = NewDesk]
  /\ UNCHANGED <<chainVars, present>>

Replaced(ds, d) == IF present = NoDesk THEN ds ELSE [ds EXCEPT ![present].lost = TRUE]
Watching(d) == [desk[d] EXCEPT !.pc = "watching", !.timer = TRUE]
Opened(d) ==
  /\ desk[d].pc = "eligible"
  /\ present' = d
  /\ \/ /\ AcquireNew(d)
        /\ desk' = Replaced([desk EXCEPT ![d].pc = "acquiring"], d)
     \/ /\ AcquireShared(d)
        /\ desk' = Replaced([desk EXCEPT ![d] = Watching(d)], d)

(* acquireChain comes back; when it throws the desk stays in the map with neither *)
(* a handle nor a timer.                                                        *)
Acquired(d) ==
  /\ desk[d].pc = "acquiring"
  /\ \/ Resolved(d) /\ desk' = [desk EXCEPT ![d] = Watching(d)]
     \/ Throws(d) /\ desk' = [desk EXCEPT ![d] = IF present = d THEN [@ EXCEPT !.pc = "watching"] ELSE NewDesk]
  /\ UNCHANGED present

(* The idle check, once a minute: close(key) is for the desk in the map, which is *)
(* not always the one whose timer this is.                                       *)
DeskClosed(ds, o) ==
  [ds EXCEPT ![o] = IF ds[o].pc = "acquiring" THEN [@ EXCEPT !.lost = TRUE] ELSE NewDesk]
closeDesk ==
  IF present = NoDesk THEN UNCHANGED cockpitVars
  ELSE /\ present' = NoDesk
       /\ desk' = DeskClosed(desk, present)
       /\ IF hold[present].pc = "held" THEN Release(present) ELSE UNCHANGED chainVars

(* Mutant: the idle check forgets the desk and leaves its chain alone.           *)
IdleCheckForgets(d) ==
  /\ desk[d].timer /\ desk[d].age = Idle
  /\ present' = NoDesk
  /\ desk' = IF present = NoDesk THEN desk ELSE DeskClosed(desk, present)
  /\ UNCHANGED chainVars

IdleCheck(d) ==
  /\ desk[d].timer /\ desk[d].age = Idle
  /\ closeDesk

Minute ==
  /\ \E d \in Desk : desk[d].pc # "none" /\ desk[d].age < Idle
  /\ desk' = [d \in Desk |->
                IF desk[d].pc # "none" /\ desk[d].age < Idle THEN [desk[d] EXCEPT !.age = @ + 1]
                                                             ELSE desk[d]]
  /\ UNCHANGED <<chainVars, present>>

(* publish: sample touches every desk that listens.                              *)
Publish ==
  /\ Publishing
  /\ desk' = [d \in Desk |-> IF d \in Listeners THEN [desk[d] EXCEPT !.age = 0] ELSE desk[d]]
  /\ UNCHANGED <<chainVars, present>>

CockpitNext ==
  \/ \E h \in Holder \ Desk :
       /\ Acquire(h) \/ Resolved(h) \/ Throws(h) \/ Release(h)
       /\ UNCHANGED <<present, desk>>
  \/ ChainStep /\ UNCHANGED <<present, desk>>
  \/ \E d \in Desk : OpenDesk(d) \/ NotEligible(d) \/ Opened(d) \/ Acquired(d) \/ IdleCheck(d)
  \/ Poll \/ Minute \/ Publish

(* Timers fire and time passes.  Nobody has to ask for anything, and no child has *)
(* to print or to exit.                                                          *)
CockpitFairness ==
  /\ \A e \in Entry : WF_cockpitVars(teardown(e) /\ UNCHANGED <<present, desk>>)
  /\ \A d \in Desk : WF_cockpitVars(IdleCheck(d)) /\ WF_cockpitVars(Acquired(d))
  /\ WF_cockpitVars(Minute)

CockpitSpec == CockpitInit /\ [][CockpitNext]_cockpitVars /\ CockpitFairness

--------------------------------------------------------------------------------
(* A desk that holds a chain is the one in the map, which its idle check can     *)
(* close, unless an overlapping open took its place or it was closed before its  *)
(* chain had come (session.ts 315-346, 371-376).                                 *)
DeskIsReachable ==
  \A d \in Desk : hold[d].pc = "held" => present = d \/ desk[d].lost

================================================================================
