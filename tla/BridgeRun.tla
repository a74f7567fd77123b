------------------------------- MODULE BridgeRun --------------------------------
(* backend-go/feed/bridge.go: BridgeSource.Run and runOnce, which supervise the   *)
(* Python child of one subscription, with the helpers of feed.go they use.       *)
(*                                                                              *)
(* The goroutines are Run's, the watchdog of the current child, and watchdogs of  *)
(* earlier ones still waiting to report.  The router reads `out` when it likes.  *)
EXTENDS Naturals

CONSTANTS
  OutCap,      \* capacity of the router's raw channel
  Silence,     \* Silence, in units of Tick
  Min, Max,    \* Backoff.Min, Backoff.Max, in units of Tick
  MaxAttempt,  \* bound on the attempts counted
  MaxStrays    \* bound on late watchdogs; each lasts two seconds at most

VARIABLES
  cancelled,  \* the context has ended
  pc,         \* where Run's goroutine is, and how it has returned
  child,      \* the child process
  runDone,    \* runCtx of this child has been cancelled
  dog,        \* its watchdog
  strays,     \* watchdogs of earlier children, in EmitBlocking still
  out,        \* frames in the channel
  clock,      \* while a child runs, time since lastData; in the back-off, time left
  sawData,
  attempt,    \* Backoff.attempt
  abandoned   \* history: the scan of this child's output ended before the child did

reporting == <<strays, out>>
vars == <<cancelled, pc, child, runDone, dog, strays, out, clock, sawData, attempt, abandoned>>

TypeOK ==
  /\ cancelled \in BOOLEAN
  /\ pc \in {"script", "loop", "connecting", "scan", "telling", "drain", "notFound", "report", "wait",
            "stopped", "gaveUp"}
  /\ child \in {"none", "up", "gone"}
  /\ runDone \in BOOLEAN /\ sawData \in BOOLEAN /\ abandoned \in BOOLEAN
  /\ dog \in {"off", "watching", "stalled"}
  /\ strays \in 0..MaxStrays /\ out \in 0..OutCap /\ attempt \in 0..MaxAttempt
  /\ clock \in Nat

Init ==
  /\ cancelled = FALSE
  /\ pc = "script" /\ child = "none" /\ runDone = FALSE /\ dog = "off"
  /\ strays = 0 /\ out = 0 /\ clock = 0 /\ sawData = FALSE /\ attempt = 0 /\ abandoned = FALSE

--------------------------------------------------------------------------------
(* Emit drops what does not fit; EmitBlocking waits two seconds for room, or for  *)
(* the context to end.                                                           *)
Emit == out' = IF out < OutCap THEN out + 1 ELSE out
EmitBlocking == out' \in out .. (IF out < OutCap THEN out + 1 ELSE out)

(* Backoff.Next, full jitter; the shift is capped at 16, where Max has long been  *)
(* reached.                                                                      *)
Delays(n) == LET d == Min * 2^n IN Min .. (IF d > Max THEN Max ELSE d)

Returned == pc \in {"stopped", "gaveUp"}

(* No script: the one error that is known before anything has been tried.        *)
Script ==
  /\ pc = "script" /\ pc' = "loop"
  /\ UNCHANGED <<cancelled, child, runDone, dog, reporting, clock, sawData, attempt, abandoned>>

NoScript ==
  /\ pc = "script" /\ pc' = "gaveUp" /\ EmitBlocking
  /\ UNCHANGED <<cancelled, child, runDone, dog, strays, clock, sawData, attempt, abandoned>>

LoopEnds ==
  /\ pc = "loop" /\ cancelled /\ pc' = "stopped"
  /\ UNCHANGED <<cancelled, child, runDone, dog, reporting, clock, sawData, attempt, abandoned>>

(* runOnce.  cmd.Start may fail, for want of an interpreter or otherwise.        *)
Start ==
  /\ pc = "loop" /\ ~cancelled
  /\ runDone' = FALSE /\ sawData' = FALSE /\ abandoned' = FALSE
  /\ \/ pc' = "connecting" /\ child' = "up"
     \/ pc' \in {"notFound", "report"} /\ child' = "none"
  /\ UNCHANGED <<cancelled, dog, reporting, clock, attempt>>

(* Mutant: the watchdog is started with the first frame.                         *)
ConnectingUnwatched ==
  /\ pc = "connecting" /\ pc' = "scan" /\ EmitBlocking
  /\ clock' = 0
  /\ UNCHANGED <<cancelled, child, runDone, dog, strays, sawData, attempt, abandoned>>

Connecting ==
  /\ pc = "connecting" /\ pc' = "scan" /\ EmitBlocking
  /\ dog' = "watching" /\ clock' = 0
  /\ UNCHANGED <<cancelled, child, runDone, strays, sawData, attempt, abandoned>>

(* A line of the child's: data is never waited for, anything else is.            *)
Data ==
  /\ pc = "scan" /\ child = "up" /\ Emit
  /\ clock' = 0 /\ sawData' = TRUE
  /\ UNCHANGED <<cancelled, pc, child, runDone, dog, strays, attempt, abandoned>>

Tell ==
  /\ pc = "scan" /\ child = "up" /\ pc' = "telling"
  /\ UNCHANGED <<cancelled, child, runDone, dog, reporting, clock, sawData, attempt, abandoned>>

Told ==
  /\ pc = "telling" /\ pc' = "scan" /\ EmitBlocking
  /\ UNCHANGED <<cancelled, child, runDone, dog, strays, clock, sawData, attempt, abandoned>>

(* The scan is over: close(stopWatch).  It ends with the child, or before it: a   *)
(* line beyond the buffer, or a child that closes its output.                    *)
ScanEnds ==
  /\ pc = "scan" /\ pc' = "drain"
  /\ abandoned' = (child = "up")
  /\ dog' = "off"
  /\ IF dog = "stalled" THEN strays < MaxStrays /\ strays' = strays + 1 ELSE UNCHANGED strays
  /\ UNCHANGED <<cancelled, child, runDone, out, clock, sawData, attempt>>

(* Both pipes are drained and the child waited for.  The watchdog of a child that *)
(* is gone has no more use for runCtx.                                           *)
(* Mutant: a child that leaves by itself has finished the subscription.          *)
WaitedForGood ==
  /\ pc = "drain" /\ child = "gone"
  /\ child' = "none" /\ runDone' = TRUE
  /\ pc' = "stopped"
  /\ UNCHANGED <<cancelled, dog, reporting, clock, sawData, attempt, abandoned>>

Waited ==
  /\ pc = "drain" /\ child = "gone"
  /\ child' = "none" /\ runDone' = TRUE
  /\ pc' = "report"
  /\ UNCHANGED <<cancelled, dog, reporting, clock, sawData, attempt, abandoned>>

(* Run, after runOnce: a cancelled context goes first.                            *)
Stopped ==
  /\ pc \in {"notFound", "report", "wait"} /\ cancelled /\ pc' = "stopped"
  /\ UNCHANGED <<cancelled, child, runDone, dog, reporting, clock, sawData, attempt, abandoned>>

NotFound ==
  /\ pc = "notFound" /\ pc' = "gaveUp" /\ EmitBlocking
  /\ UNCHANGED <<cancelled, child, runDone, dog, strays, clock, sawData, attempt, abandoned>>

Report ==
  /\ pc = "report" /\ pc' = "wait" /\ EmitBlocking
  /\ LET n == IF sawData THEN 0 ELSE attempt IN
       /\ clock' \in Delays(n)
       /\ attempt' = IF n < MaxAttempt THEN n + 1 ELSE n
  /\ UNCHANGED <<cancelled, child, runDone, dog, strays, sawData, abandoned>>

Again ==
  /\ pc = "wait" /\ clock = 0 /\ pc' = "loop"
  /\ UNCHANGED <<cancelled, child, runDone, dog, reporting, clock, sawData, attempt, abandoned>>

--------------------------------------------------------------------------------
(* The watchdog: it reports first and cancels then.                               *)
Stall ==
  /\ dog = "watching" /\ clock > Silence /\ dog' = "stalled"
  /\ UNCHANGED <<cancelled, pc, child, runDone, reporting, clock, sawData, attempt, abandoned>>

(* Mutant: a stall is reported and that is all.                                  *)
KillOnlyReports ==
  /\ dog = "stalled" /\ dog' = "off" /\ EmitBlocking
  /\ UNCHANGED <<cancelled, pc, child, runDone, strays, clock, sawData, attempt, abandoned>>

Kill ==
  /\ dog = "stalled" /\ dog' = "off" /\ EmitBlocking
  /\ runDone' = TRUE
  /\ UNCHANGED <<cancelled, pc, child, strays, clock, sawData, attempt, abandoned>>

DogLeaves ==
  /\ dog = "watching" /\ cancelled /\ dog' = "off"
  /\ UNCHANGED <<cancelled, pc, child, runDone, reporting, clock, sawData, attempt, abandoned>>

Stray ==
  /\ strays > 0 /\ strays' = strays - 1 /\ EmitBlocking
  /\ UNCHANGED <<cancelled, pc, child, runDone, dog, clock, sawData, attempt, abandoned>>

(* The child: by itself, or killed with runCtx, which ends with the context.      *)
Exits ==
  /\ child = "up" /\ child' = "gone"
  /\ UNCHANGED <<cancelled, pc, runDone, dog, reporting, clock, sawData, attempt, abandoned>>
Killed == (runDone \/ cancelled) /\ Exits

Cancel ==
  /\ ~cancelled /\ cancelled' = TRUE
  /\ UNCHANGED <<pc, child, runDone, dog, reporting, clock, sawData, attempt, abandoned>>

Read ==
  /\ out > 0 /\ out' = out - 1
  /\ UNCHANGED <<cancelled, pc, child, runDone, dog, strays, clock, sawData, attempt, abandoned>>

Tick ==
  /\ \/ pc \in {"scan", "telling", "drain"} /\ clock <= Silence /\ clock' = clock + 1
     \/ pc = "wait" /\ clock > 0 /\ clock' = clock - 1
  /\ UNCHANGED <<cancelled, pc, child, runDone, dog, reporting, sawData, attempt, abandoned>>

Run ==
  \/ Script \/ NoScript \/ LoopEnds \/ Start \/ Connecting \/ Told \/ Waited
  \/ Stopped \/ NotFound \/ Report \/ Again
  \/ child # "up" /\ ScanEnds

Next ==
  \/ Run \/ Data \/ Tell \/ ScanEnds
  \/ Stall \/ Kill \/ DogLeaves \/ Stray
  \/ Exits \/ Cancel \/ Read \/ Tick

(* Goroutines are scheduled, a killed process dies, time passes.  The router may  *)
(* never read, the child may be silent or talk for ever.                         *)
Fairness ==
  /\ WF_vars(Run) /\ WF_vars(Stall) /\ WF_vars(Kill) /\ WF_vars(Stray)
  /\ WF_vars(Killed) /\ WF_vars(Tick)

Spec == Init /\ [][Next]_vars /\ Fairness

--------------------------------------------------------------------------------
(* BridgeSource is a Source: whatever its child, its watchdogs and the reader of  *)
(* its channel do, Run returns nil only when the context has ended, returns then, *)
(* and gives up otherwise only by an error (feed.go 116-125).                    *)
S == INSTANCE Source WITH run <- IF Returned THEN pc ELSE "serving"
ImplementsSource == S!Spec

(* A child process is watched for silence, is being ended, or Run has lost sight  *)
(* of it (the scan of its output ended first, bridge.go 374-377); and no child is *)
(* left behind when Run returns.                                                 *)
ChildIsWatched ==
  child = "up" =>
    /\ ~Returned
    /\ pc = "connecting" \/ dog # "off" \/ runDone \/ cancelled \/ abandoned

(* A child that is alive and silent is ended, however full the channel and       *)
(* however much the child has to say that is not data (bridge.go 303-326).       *)
SilentIsEnded ==
  child = "up" /\ pc \in {"scan", "telling"} /\ clock > Silence
    ~> child # "up" \/ clock = 0 \/ abandoned

================================================================================
