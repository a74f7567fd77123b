------------------------------- MODULE HubProofs -------------------------------
(* Machine-checked proofs about Hub, for every set of contracts, sessions and   *)
(* subscribers, every queue length and every number of broadcasts.              *)
EXTENDS Hub, TLAPS

(* A caller between its first h.mu section and the end of Unsubscribe holds a   *)
(* session that has been filed under a contract.                                *)
Holding(s) == pc[s] \in {"attach", "greet", "greetPush", "on", "detach"}
Pointers ==
  /\ \A s \in Sub : Holding(s) => ref[s] \in Session /\ key[ref[s]] \in Key
  /\ \A k \in Key : sessions[k] # NoSession => key[sessions[k]] = k
  /\ \A x \in Session : engine[x] = "unborn" => key[x] = NoKey

(* The h.mu owner, the caller's pointers and the maps keep their types, however *)
(* the critical sections of the hub interleave.                                 *)
LEMMA TypeStep == TypeOK /\ Pointers /\ [Next]_vars => TypeOK' /\ Pointers'
<1> SUFFICES ASSUME TypeOK, Pointers, [Next]_vars PROVE TypeOK' /\ Pointers'
  OBVIOUS
<1> USE HubAssumption DEF TypeOK, Pointers, Holding, Up, EngineStates, CallerStates, Frames
<1>1. ASSUME NEW s \in Sub, Caller(s) PROVE TypeOK' /\ Pointers'
  <2>1. ASSUME NEW k \in Key, Join(s, k) PROVE TypeOK' /\ Pointers'
    BY <2>1 DEF Join, sessVars, shutVars
  <2>2. ASSUME NEW k \in Key, Reject(s, k) PROVE TypeOK' /\ Pointers'
    BY <2>2 DEF Reject, sessVars, shutVars
  <2>3. ASSUME NEW k \in Key, NEW x \in Session, Start(s, k, x) PROVE TypeOK' /\ Pointers'
    BY <2>3 DEF Start, shutVars
  <2>4. CASE Attach(s)
    BY <2>4 DEF Attach, AttachWith, shutVars
  <2>5. CASE Greet(s)
    BY <2>5 DEF Greet, sessVars, shutVars
  <2>6. CASE GreetPush(s)
    BY <2>6 DEF GreetPush, Push, sessVars, shutVars
  <2>7. CASE Drain(s)
    BY <2>7 DEF Drain, sessVars, shutVars
  <2>8. CASE Lookup(s)
    BY <2>8 DEF Lookup, sessVars, shutVars
  <2>9. CASE Detach(s)
    BY <2>9 DEF Detach, DetachWith, shutVars
  <2>10. CASE CloseOwn(s)
    BY <2>10 DEF CloseOwn, sessVars, shutVars
  <2> QED BY <1>1, <2>1, <2>2, <2>3, <2>4, <2>5, <2>6, <2>7, <2>8, <2>9, <2>10 DEF Caller
<1>2. ASSUME NEW x \in Session, Timer(x) PROVE TypeOK' /\ Pointers'
  <2>1. CASE GraceFires(x)
    BY <2>1 DEF GraceFires, subVars, shutVars
  <2>2. CASE RetireCheck(x)
    BY <2>2 DEF RetireCheck, subVars, shutVars
  <2>3. CASE RetireDrop(x)
    BY <2>3 DEF RetireDrop, RetireDropIf, Without, sessVars, subVars, shutVars
  <2> QED BY <1>2, <2>1, <2>2, <2>3 DEF Timer
<1>3. ASSUME NEW x \in Session, Goroutine(x) PROVE TypeOK' /\ Pointers'
  <2>1. CASE Broadcast(x)
    <3>1. PICK saved \in SUBSET Frames : Snapshot(x, saved)
      BY <2>1 DEF Broadcast
    <3>2. last' \in [Session -> SUBSET Frames] /\ cast' \in [Session -> SUBSET Sub]
      BY <3>1 DEF Snapshot
    <3>3. casts' \in [Session -> Nat]
      BY <2>1 DEF Broadcast
    <3>4. UNCHANGED <<sessions, hmu, key, ctxDone, engine, subs, grace, retiring, pushing,
                      closing, subVars, shutVars, panicked>>
      BY <2>1 DEF Broadcast
    <3> QED BY <3>2, <3>3, <3>4 DEF subVars, shutVars
  <2>2. CASE SendPush(x)
    BY <2>2 DEF SendPush, Push, shutVars
  <2>3. ASSUME NEW s \in Sub, SendCheck(x, s) PROVE TypeOK' /\ Pointers'
    BY <2>3 DEF SendCheck, subVars, shutVars
  <2>4. CASE EngineFail(x)
    BY <2>4 DEF EngineFail, subVars, shutVars
  <2>5. CASE EngineReturn(x)
    BY <2>5 DEF EngineReturn, subVars, shutVars
  <2>6. CASE BroadcastError(x)
    BY <2>6 DEF BroadcastError, Snapshot, subVars, shutVars
  <2>7. CASE Unregister(x)
    BY <2>7 DEF Unregister, Without, subVars, shutVars
  <2>8. CASE CloseAll(x)
    BY <2>8 DEF CloseAll, CloseAllOf, subVars, shutVars
  <2>9. CASE Exit(x)
    BY <2>9 DEF Exit, subVars, shutVars
  <2>10. ASSUME NEW s \in Sub, CloseEach(x, s) PROVE TypeOK' /\ Pointers'
    BY <2>10 DEF CloseEach, shutVars
  <2> QED BY <1>3, <2>1, <2>2, <2>3, <2>4, <2>5, <2>6, <2>7, <2>8, <2>9, <2>10
         DEF Goroutine, Send, Teardown
<1>4. CASE Shutdown
  <2>1. CASE ShutdownCollect
    BY <2>1 DEF ShutdownCollect, sessVars, subVars
  <2>2. CASE ShutdownCancelled
    BY <2>2 DEF ShutdownCancelled, sessVars, subVars
  <2>3. CASE ShutdownReturn
    BY <2>3 DEF ShutdownReturn, sessVars, subVars
  <2>4. ASSUME NEW x \in Session, ShutdownCancel(x) PROVE TypeOK' /\ Pointers'
    BY <2>4 DEF ShutdownCancel, sessVars, subVars, shutVars
  <2>5. ASSUME NEW x \in Session, ShutdownDrop(x) PROVE TypeOK' /\ Pointers'
    BY <2>5 DEF ShutdownDrop, subVars
  <2>6. ASSUME NEW s \in Sub, ShutdownCloseEach(s) PROVE TypeOK' /\ Pointers'
    BY <2>6 DEF ShutdownCloseEach, sessVars
  <2> QED BY <1>4, <2>1, <2>2, <2>3, <2>4, <2>5, <2>6 DEF Shutdown
<1>5. CASE UNCHANGED vars
  BY <1>5 DEF vars, sessVars, subVars, shutVars
<1> QED BY <1>1, <1>2, <1>3, <1>4, <1>5 DEF Next

LEMMA InitTypes == Init => TypeOK /\ Pointers
<1> SUFFICES ASSUME Init PROVE TypeOK /\ Pointers
  OBVIOUS
<1>1. TypeOK
  <2>1. queue \in [Sub -> 0..SendQueue]
    BY HubAssumption DEF Init
  <2> QED BY <2>1, HubAssumption DEF Init, TypeOK, EngineStates, CallerStates, Frames
<1>2. Pointers
  BY HubAssumption DEF Init, Pointers, Holding
<1> QED BY <1>1, <1>2

(* Type correctness of the hub. *)
THEOREM TypeCorrect == Spec => []TypeOK
BY InitTypes, TypeStep, PTL DEF Spec

--------------------------------------------------------------------------------
(* The life of a session object. *)
LifeInv ==
  /\ \A x \in Session : engine[x] = "unborn" => ~ctxDone[x] /\ grace[x] = "nil" /\ key[x] = NoKey
  /\ \A s \in Sub : Holding(s) => engine[ref[s]] # "unborn"
  /\ \A x \in shutList :
       /\ engine[x] # "unborn"
       /\ ~Registered(x)
       /\ shut # "cancel" => ctxDone[x]
  /\ shut = "up" => shutList = {}
  /\ RegisteredIsLive
  /\ NoOrphan

LEMMA Unlisted ==
  ASSUME LifeInv, NEW x \in shutList
  PROVE  ~Registered(x) /\ engine[x] # "unborn"
BY DEF LifeInv

LEMMA LifeStep == TypeOK /\ Pointers /\ LifeInv /\ [Next]_vars => LifeInv'
<1> SUFFICES ASSUME TypeOK, Pointers, LifeInv, [Next]_vars PROVE LifeInv'
  OBVIOUS
<1> USE HubAssumption DEF TypeOK, Pointers, Holding, LifeInv, RegisteredIsLive, NoOrphan,
        Registered, Alive, Up, Locked, EngineStates
<1>1. ASSUME NEW s \in Sub, Caller(s) PROVE LifeInv'
  <2>1. ASSUME NEW k \in Key, Join(s, k) PROVE LifeInv'
    BY <2>1 DEF Join, sessVars, shutVars
  <2>2. ASSUME NEW k \in Key, Reject(s, k) PROVE LifeInv'
    BY <2>2 DEF Reject, sessVars, shutVars
  <2>3. ASSUME NEW k \in Key, NEW x \in Session, Start(s, k, x) PROVE LifeInv'
    BY <2>3 DEF Start, shutVars
  <2>4. CASE Attach(s)
    BY <2>4 DEF Attach, AttachWith, shutVars
  <2>5. CASE Greet(s)
    BY <2>5 DEF Greet, sessVars, shutVars
  <2>6. CASE GreetPush(s)
    BY <2>6 DEF GreetPush, sessVars, shutVars, Push
  <2>7. CASE Drain(s)
    BY <2>7 DEF Drain, sessVars, shutVars
  <2>8. CASE Lookup(s)
    BY <2>8 DEF Lookup, sessVars, shutVars
  <2>9. CASE Detach(s)
    BY <2>9 DEF Detach, DetachWith, shutVars
  <2>10. CASE CloseOwn(s)
    BY <2>10 DEF CloseOwn, sessVars, shutVars
  <2> QED BY <1>1, <2>1, <2>2, <2>3, <2>4, <2>5, <2>6, <2>7, <2>8, <2>9, <2>10 DEF Caller
<1>2. ASSUME NEW x \in Session, Timer(x) PROVE LifeInv'
  <2>1. CASE GraceFires(x)
    BY <2>1 DEF GraceFires, subVars, shutVars
  <2>2. CASE RetireCheck(x)
    BY <2>2 DEF RetireCheck, subVars, shutVars
  <2>3. CASE RetireDrop(x)
    <3>1. UNCHANGED <<key, engine, grace, pc, ref, shut, shutList>>
      BY <2>3 DEF RetireDrop, RetireDropIf, sessVars, subVars, shutVars
    <3>2. CASE ~Registered(x)
      <4>1. UNCHANGED <<sessions, ctxDone>>
        BY <2>3, <3>2 DEF RetireDrop, RetireDropIf
      <4> QED BY <3>1, <4>1
    <3>3. CASE Registered(x)
      <4>1. /\ ctxDone' = [ctxDone EXCEPT ![x] = TRUE]
            /\ \A k \in Key : sessions'[k] = IF sessions[k] = x THEN NoSession ELSE sessions[k]
        BY <2>3, <3>3 DEF RetireDrop, RetireDropIf, Without
      <4>2. \A y \in Session : Registered(y)' <=> Registered(y) /\ y # x
        BY <3>1, <4>1
      <4>3. engine[x] # "unborn"
        BY <3>3
      <4>4. RegisteredIsLive'
        BY <3>1, <4>1
      <4>5. NoOrphan'
        BY <3>1, <4>1, <4>2
      <4>6. \A y \in shutList' :
          (engine[y] # "unborn" /\ ~Registered(y) /\ (shut # "cancel" => ctxDone[y]))'
        BY <3>1, <4>1, <4>2
      <4> QED BY <3>1, <4>1, <4>3, <4>4, <4>5, <4>6
    <3> QED BY <3>2, <3>3
  <2> QED BY <1>2, <2>1, <2>2, <2>3 DEF Timer
<1>3. ASSUME NEW x \in Session, Goroutine(x) PROVE LifeInv'
  <2>1. CASE Broadcast(x)
    BY <2>1 DEF Broadcast, subVars, shutVars, Snapshot
  <2>2. CASE SendPush(x)
    BY <2>2 DEF SendPush, shutVars, Push
  <2>3. ASSUME NEW s \in Sub, SendCheck(x, s) PROVE LifeInv'
    BY <2>3 DEF SendCheck, subVars, shutVars
  <2>4. CASE EngineFail(x)
    BY <2>4 DEF EngineFail, subVars, shutVars
  <2>5. CASE EngineReturn(x)
    BY <2>5 DEF EngineReturn, subVars, shutVars
  <2>6. CASE BroadcastError(x)
    BY <2>6 DEF BroadcastError, subVars, shutVars, Snapshot
  <2>7. CASE Unregister(x)
    <3>1. /\ engine[x] = "returned"
          /\ engine' = [engine EXCEPT ![x] = "unregistered"]
          /\ \A k \in Key : sessions'[k] = IF sessions[k] = x THEN NoSession ELSE sessions[k]
          /\ UNCHANGED <<key, ctxDone, grace, pc, ref, shut, shutList>>
      BY <2>7 DEF Unregister, Without, subVars, shutVars
    <3>2. \A y \in Session : Registered(y)' <=> Registered(y) /\ y # x
      BY <3>1
    <3>3. RegisteredIsLive'
      BY <3>1
    <3>4. NoOrphan'
      BY <3>1, <3>2 DEF Registered
    <3>5. \A y \in shutList' :
          (engine[y] # "unborn" /\ ~Registered(y) /\ (shut # "cancel" => ctxDone[y]))'
      BY <3>1, <3>2
    <3> QED BY <3>1, <3>3, <3>4, <3>5
  <2>8. CASE CloseAll(x)
    BY <2>8 DEF CloseAll, CloseAllOf, subVars, shutVars
  <2>9. CASE Exit(x)
    BY <2>9 DEF Exit, subVars, shutVars
  <2>10. ASSUME NEW s \in Sub, CloseEach(x, s) PROVE LifeInv'
    BY <2>10 DEF CloseEach, shutVars
  <2> QED BY <1>3, <2>1, <2>2, <2>3, <2>4, <2>5, <2>6, <2>7, <2>8, <2>9, <2>10 DEF Goroutine, Send, Teardown
<1>4. CASE Shutdown
  <2>1. CASE ShutdownCollect
    BY <2>1 DEF ShutdownCollect, sessVars, subVars
  <2>2. CASE ShutdownCancelled
    BY <2>2 DEF ShutdownCancelled, sessVars, subVars
  <2>3. CASE ShutdownReturn
    BY <2>3 DEF ShutdownReturn, sessVars, subVars
  <2>4. ASSUME NEW x \in Session, ShutdownCancel(x) PROVE LifeInv'
    <3>0. x \in shutList /\ ~Registered(x) /\ engine[x] # "unborn"
      BY <2>4, Unlisted DEF ShutdownCancel
    <3>1. \A k \in Key : sessions[k] # x
      BY <3>0
    <3>2. /\ ctxDone' = [ctxDone EXCEPT ![x] = TRUE]
          /\ UNCHANGED <<sessions, key, engine, grace, pc, ref, shut, shutList>>
      BY <2>4 DEF ShutdownCancel, sessVars, subVars, shutVars
    <3> QED BY <3>0, <3>1, <3>2
  <2>5. ASSUME NEW x \in Session, ShutdownDrop(x) PROVE LifeInv'
    BY <2>5 DEF ShutdownDrop, subVars
  <2>6. ASSUME NEW s \in Sub, ShutdownCloseEach(s) PROVE LifeInv'
    BY <2>6 DEF ShutdownCloseEach, sessVars
  <2> QED BY <1>4, <2>1, <2>2, <2>3, <2>4, <2>5, <2>6 DEF Shutdown
<1>5. CASE UNCHANGED vars
  BY <1>5 DEF vars, sessVars, subVars, shutVars
<1> QED BY <1>1, <1>2, <1>3, <1>4, <1>5 DEF Next

(* Who watches a session, and what its grace timer is doing about it. *)
WatchInv ==
  /\ RetiringSoonIsHonest
  /\ \A x \in Session : Registered(x) /\ grace[x] = "fired" => retiring[x] > 0 \/ hmu = x
  /\ \A x \in Session :
       Registered(x) /\ subs[x] = {} /\ grace[x] = "nil"
         => \E s \in Sub : pc[s] = "attach" /\ ref[s] = x
  /\ \A s \in Sub :
       pc[s] \in {"greet", "greetPush", "on"} /\ ~closed[s] /\ Registered(ref[s])
         => s \in subs[ref[s]]

LEMMA WatchStep ==
  TypeOK /\ Pointers /\ LifeInv /\ WatchInv /\ [Next]_vars => WatchInv'
<1> SUFFICES ASSUME TypeOK, Pointers, LifeInv, WatchInv, [Next]_vars PROVE WatchInv'
  OBVIOUS
<1> USE HubAssumption DEF TypeOK, Pointers, Holding, LifeInv, RegisteredIsLive, Registered,
        Alive, WatchInv, RetiringSoonIsHonest, Up, Locked, EngineStates, CallerStates
<1>1. ASSUME NEW s \in Sub, Caller(s) PROVE WatchInv'
  <2>1. ASSUME NEW k \in Key, Join(s, k) PROVE WatchInv'
    BY <2>1 DEF Join, sessVars, shutVars
  <2>2. ASSUME NEW k \in Key, Reject(s, k) PROVE WatchInv'
    BY <2>2 DEF Reject, sessVars, shutVars
  <2>3. ASSUME NEW k \in Key, NEW x \in Session, Start(s, k, x) PROVE WatchInv'
    BY <2>3 DEF Start, shutVars
  <2>4. CASE Attach(s)
    <3>1. PICK y \in Session : y = ref[s]
      BY <2>4 DEF Attach, AttachWith
    <3>2. /\ grace' = [grace EXCEPT ![y] = "nil"]
          /\ subs' = [subs EXCEPT ![y] = @ \cup {s}]
          /\ pc[s] = "attach"
          /\ pc' = [pc EXCEPT ![s] = pc'[s]] /\ pc'[s] \in {"on", "greet"}
          /\ UNCHANGED <<sessions, key, hmu, retiring, ref, closed>>
      BY <2>4, <3>1 DEF Attach, AttachWith
    <3>3. s \in subs'[y]
      BY <3>2
    <3>4. RetiringSoonIsHonest'
      BY <3>2
    <3>5. \A x \in Session : (Registered(x) /\ grace[x] = "fired" => retiring[x] > 0 \/ hmu = x)'
      BY <3>2
    <3>6. ASSUME NEW x \in Session, (Registered(x) /\ subs[x] = {} /\ grace[x] = "nil")'
          PROVE  \E t \in Sub : (pc[t] = "attach" /\ ref[t] = x)'
      <4>1. x # y
        BY <3>3, <3>6
      <4>2. PICK t \in Sub : pc[t] = "attach" /\ ref[t] = x
        BY <3>2, <3>6, <4>1
      <4> QED BY <3>1, <3>2, <4>1, <4>2
    <3>7. ASSUME NEW t \in Sub,
                 (pc[t] \in {"greet", "greetPush", "on"} /\ ~closed[t] /\ Registered(ref[t]))'
          PROVE  (t \in subs[ref[t]])'
      BY <3>1, <3>2, <3>3, <3>7
    <3> QED BY <3>4, <3>5, <3>6, <3>7
  <2>5. CASE Greet(s)
    BY <2>5 DEF Greet, sessVars, shutVars
  <2>6. CASE GreetPush(s)
    BY <2>6 DEF GreetPush, sessVars, shutVars, Push
  <2>7. CASE Drain(s)
    BY <2>7 DEF Drain, sessVars, shutVars
  <2>8. CASE Lookup(s)
    BY <2>8 DEF Lookup, sessVars, shutVars
  <2>9. CASE Detach(s)
    <3>1. PICK y \in Session : y = ref[s]
      BY <2>9 DEF Detach, DetachWith
    <3>2. /\ pc[s] = "detach"
          /\ pc' = [pc EXCEPT ![s] = "close"]
          /\ subs' = [subs EXCEPT ![y] = @ \ {s}]
          /\ grace' = IF subs'[y] = {} /\ grace[y] = "nil"
                      THEN [grace EXCEPT ![y] = "armed"] ELSE grace
          /\ UNCHANGED <<sessions, key, hmu, retiring, ref, closed>>
      BY <2>9, <3>1 DEF Detach, DetachWith
    <3>3. RetiringSoonIsHonest'
      BY <3>2
    <3>4. \A x \in Session : (Registered(x) /\ grace[x] = "fired" => retiring[x] > 0 \/ hmu = x)'
      BY <3>2
    <3>5. ASSUME NEW x \in Session, (Registered(x) /\ subs[x] = {} /\ grace[x] = "nil")'
          PROVE  \E t \in Sub : (pc[t] = "attach" /\ ref[t] = x)'
      <4>1. x # y
        BY <3>2, <3>5
      <4>2. PICK t \in Sub : pc[t] = "attach" /\ ref[t] = x
        BY <3>2, <3>5, <4>1
      <4> QED BY <3>2, <4>1, <4>2
    <3>6. ASSUME NEW t \in Sub,
                 (pc[t] \in {"greet", "greetPush", "on"} /\ ~closed[t] /\ Registered(ref[t]))'
          PROVE  (t \in subs[ref[t]])'
      BY <3>1, <3>2, <3>6
    <3> QED BY <3>3, <3>4, <3>5, <3>6
  <2>10. CASE CloseOwn(s)
    BY <2>10 DEF CloseOwn, sessVars, shutVars
  <2> QED BY <1>1, <2>1, <2>2, <2>3, <2>4, <2>5, <2>6, <2>7, <2>8, <2>9, <2>10 DEF Caller
<1>2. ASSUME NEW x \in Session, Timer(x) PROVE WatchInv'
  <2>1. CASE GraceFires(x)
    BY <2>1 DEF GraceFires, subVars, shutVars
  <2>2. CASE RetireCheck(x)
    BY <2>2 DEF RetireCheck, subVars, shutVars
  <2>3. CASE RetireDrop(x)
    BY <2>3 DEF RetireDrop, RetireDropIf, Without, sessVars, subVars, shutVars
  <2> QED BY <1>2, <2>1, <2>2, <2>3 DEF Timer
<1>3. ASSUME NEW x \in Session, Goroutine(x) PROVE WatchInv'
  <2>1. CASE Broadcast(x)
    BY <2>1 DEF Broadcast, subVars, shutVars, Snapshot
  <2>2. CASE SendPush(x)
    BY <2>2 DEF SendPush, shutVars, Push
  <2>3. ASSUME NEW s \in Sub, SendCheck(x, s) PROVE WatchInv'
    BY <2>3 DEF SendCheck, subVars, shutVars
  <2>4. CASE EngineFail(x)
    BY <2>4 DEF EngineFail, subVars, shutVars
  <2>5. CASE EngineReturn(x)
    BY <2>5 DEF EngineReturn, subVars, shutVars
  <2>6. CASE BroadcastError(x)
    BY <2>6 DEF BroadcastError, subVars, shutVars, Snapshot
  <2>7. CASE Unregister(x)
    BY <2>7 DEF Unregister, Without, subVars, shutVars
  <2>8. CASE CloseAll(x)
    <3>1. /\ engine[x] = "unregistered"
          /\ subs' = [subs EXCEPT ![x] = {}]
          /\ UNCHANGED <<sessions, key, hmu, grace, retiring, pc, ref, closed>>
      BY <2>8 DEF CloseAll, CloseAllOf, subVars, shutVars
    <3>2. ~Registered(x)
      BY <3>1
    <3> QED BY <3>1, <3>2
  <2>9. CASE Exit(x)
    BY <2>9 DEF Exit, subVars, shutVars
  <2>10. ASSUME NEW s \in Sub, CloseEach(x, s) PROVE WatchInv'
    BY <2>10 DEF CloseEach, shutVars
  <2> QED BY <1>3, <2>1, <2>2, <2>3, <2>4, <2>5, <2>6, <2>7, <2>8, <2>9, <2>10 DEF Goroutine, Send, Teardown
<1>4. CASE Shutdown
  <2>1. CASE ShutdownCollect
    BY <2>1 DEF ShutdownCollect, sessVars, subVars
  <2>2. CASE ShutdownCancelled
    BY <2>2 DEF ShutdownCancelled, sessVars, subVars
  <2>3. CASE ShutdownReturn
    BY <2>3 DEF ShutdownReturn, sessVars, subVars
  <2>4. ASSUME NEW x \in Session, ShutdownCancel(x) PROVE WatchInv'
    BY <2>4 DEF ShutdownCancel, sessVars, subVars, shutVars
  <2>5. ASSUME NEW x \in Session, ShutdownDrop(x) PROVE WatchInv'
    <3>1. ~Registered(x)
      BY <2>5, Unlisted DEF ShutdownDrop
    <3>2. /\ subs' = [subs EXCEPT ![x] = {}]
          /\ UNCHANGED <<sessions, key, hmu, grace, retiring, pc, ref, closed>>
      BY ONLY <2>5 DEF ShutdownDrop, subVars
    <3> QED BY <3>1, <3>2
  <2>6. ASSUME NEW s \in Sub, ShutdownCloseEach(s) PROVE WatchInv'
    BY <2>6 DEF ShutdownCloseEach, sessVars
  <2> QED BY <1>4, <2>1, <2>2, <2>3, <2>4, <2>5, <2>6 DEF Shutdown
<1>5. CASE UNCHANGED vars
  BY <1>5 DEF vars, sessVars, subVars, shutVars
<1> QED BY <1>1, <1>2, <1>3, <1>4, <1>5 DEF Next

--------------------------------------------------------------------------------
Inv == TypeOK /\ Pointers /\ LifeInv /\ WatchInv

THEOREM Invariance == Spec => []Inv
<1>1. Init => Inv
  <2> SUFFICES ASSUME Init PROVE Inv
    OBVIOUS
  <2>1. TypeOK /\ Pointers
    BY InitTypes
  <2>2. LifeInv
    BY HubAssumption DEF Init, LifeInv, Holding, RegisteredIsLive, NoOrphan, Registered
  <2>3. WatchInv
    BY HubAssumption DEF Init, WatchInv, RetiringSoonIsHonest, Registered
  <2> QED BY <2>1, <2>2, <2>3 DEF Inv
<1>2. Inv /\ [Next]_vars => Inv'
  BY TypeStep, LifeStep, WatchStep DEF Inv
<1> QED BY <1>1, <1>2, PTL DEF Spec

(* Subscribe never finds a session in the map that has been cancelled or has    *)
(* begun its teardown, and every engine nobody has told to stop can be reached  *)
(* by whoever has to stop it.                                                   *)
THEOREM MapIsSound == Spec => []MapIsHonest
<1>1. Inv => MapIsHonest
  BY DEF Inv, LifeInv, MapIsHonest
<1> QED BY <1>1, Invariance, PTL

(* An unwatched session is always on its way out, however Subscribe,            *)
(* Unsubscribe, the timer and the teardown interleave.                          *)
THEOREM NothingIsLeaked == Spec => []UnwatchedIsRetiring
<1>1. Inv => UnwatchedIsRetiring
  BY DEF Inv, TypeOK, WatchInv, UnwatchedIsRetiring
<1> QED BY <1>1, Invariance, PTL

(* /health's RetiringSoon, and the fan-out reaching every open client.          *)
THEOREM WatchersAreServed == Spec => [](RetiringSoonIsHonest /\ WatcherIsServed)
<1>1. Inv => RetiringSoonIsHonest /\ WatcherIsServed
  BY DEF Inv, WatchInv, WatcherIsServed
<1> QED BY <1>1, Invariance, PTL

--------------------------------------------------------------------------------
(* A list is made once: closeAll's section runs when the list before it is done.  *)
ListInv ==
  /\ NobodyIsForgotten
  /\ \A x \in Session : engine[x] # "closing" => closing[x] = {}

LEMMA ListStep == TypeOK /\ Pointers /\ ListInv /\ [Next]_vars => ListInv'
<1> SUFFICES ASSUME TypeOK, Pointers, ListInv, [Next]_vars PROVE ListInv'
  OBVIOUS
<1> USE HubAssumption DEF TypeOK, Pointers, Holding, ListInv, NobodyIsForgotten, Up,
        EngineStates, CallerStates
<1>1. ASSUME NEW s \in Sub, Caller(s) PROVE ListInv'
  <2>1. CASE Attach(s)
    BY <2>1 DEF Attach, AttachWith, shutVars
  <2>2. CASE GreetPush(s)
    BY <2>2 DEF GreetPush, Push, sessVars, shutVars
  <2>3. CASE Detach(s)
    BY <2>3 DEF Detach, DetachWith, shutVars
  <2>4. CASE Greet(s) \/ Drain(s) \/ Lookup(s) \/ CloseOwn(s)
    BY <2>4 DEF Greet, Drain, Lookup, CloseOwn, sessVars, shutVars
  <2>5. ASSUME NEW k \in Key, Join(s, k) \/ Reject(s, k) PROVE ListInv'
    BY <2>5 DEF Join, Reject, sessVars, shutVars
  <2>6. ASSUME NEW k \in Key, NEW x \in Session, Start(s, k, x) PROVE ListInv'
    BY <2>6 DEF Start, shutVars
  <2> QED BY <1>1, <2>1, <2>2, <2>3, <2>4, <2>5, <2>6 DEF Caller
<1>2. ASSUME NEW x \in Session, Timer(x) PROVE ListInv'
  BY <1>2 DEF Timer, GraceFires, RetireCheck, RetireDrop, RetireDropIf, sessVars, subVars, shutVars
<1>3. ASSUME NEW x \in Session, Goroutine(x) PROVE ListInv'
  <2>1. CASE CloseAll(x)
    <3>1. /\ engine[x] = "unregistered" /\ closing[x] = {}
          /\ closing' = [closing EXCEPT ![x] = subs[x]]
          /\ subs' = [subs EXCEPT ![x] = {}]
          /\ engine' = [engine EXCEPT ![x] = "closing"]
          /\ UNCHANGED <<pc, ref, closed, dropping>>
      BY <2>1 DEF CloseAll, CloseAllOf, subVars, shutVars
    <3> QED BY <3>1
  <2>2. ASSUME NEW s \in Sub, CloseEach(x, s) PROVE ListInv'
    BY <2>2 DEF CloseEach, shutVars
  <2>3. CASE Exit(x)
    BY <2>3 DEF Exit, subVars, shutVars
  <2>4. CASE SendPush(x)
    BY <2>4 DEF SendPush, Push, shutVars
  <2>5. ASSUME NEW s \in Sub, SendCheck(x, s) PROVE ListInv'
    BY <2>5 DEF SendCheck, subVars, shutVars
  <2>6. CASE Broadcast(x) \/ EngineFail(x) \/ EngineReturn(x) \/ BroadcastError(x) \/ Unregister(x)
    BY <2>6 DEF Broadcast, EngineFail, EngineReturn, BroadcastError, Unregister, Snapshot, subVars, shutVars
  <2> QED BY <1>3, <2>1, <2>2, <2>3, <2>4, <2>5, <2>6 DEF Goroutine, Send, Teardown
<1>4. CASE Shutdown
  <2>1. ASSUME NEW x \in Session, ShutdownDrop(x) PROVE ListInv'
    BY <2>1 DEF ShutdownDrop, subVars
  <2>2. ASSUME NEW s \in Sub, ShutdownCloseEach(s) PROVE ListInv'
    BY <2>2 DEF ShutdownCloseEach, sessVars
  <2>3. ASSUME NEW x \in Session, ShutdownCancel(x) PROVE ListInv'
    BY <2>3 DEF ShutdownCancel, sessVars, subVars, shutVars
  <2>4. CASE ShutdownCollect \/ ShutdownCancelled \/ ShutdownReturn
    BY <2>4 DEF ShutdownCollect, ShutdownCancelled, ShutdownReturn, sessVars, subVars
  <2> QED BY <1>4, <2>1, <2>2, <2>3, <2>4 DEF Shutdown
<1>5. CASE UNCHANGED vars
  BY <1>5 DEF vars, sessVars, subVars, shutVars
<1> QED BY <1>1, <1>2, <1>3, <1>4, <1>5 DEF Next

(* An open client is in a fan-out or on a list of those to be closed, whichever    *)
(* of the session's teardown and Shutdown took it off (hub.go 366-377, 436-443).   *)
THEOREM NobodyIsForgottenHolds == Spec => []NobodyIsForgotten
<1>1. Init => ListInv
  BY HubAssumption DEF Init, ListInv, NobodyIsForgotten
<1>2. Inv /\ ListInv /\ [Next]_vars => ListInv'
  BY ListStep DEF Inv
<1>3. ListInv => NobodyIsForgotten
  BY DEF ListInv
<1> QED BY <1>1, <1>2, <1>3, Invariance, PTL DEF Spec

================================================================================
