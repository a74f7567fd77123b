----------------------------- MODULE StraddleHistory -----------------------------
(* The history of today's session: backend/routes/straddle.ts over the cache of    *)
(* computed sessions (lib/computeCache.ts), the walks that compute one              *)
(* (engine/rollingStraddle.ts, engine/bandGreeks.ts), and the catch-up that         *)
(* continues a cached one (engine/straddleCatchUp.ts).                             *)
(*                                                                              *)
(* Time is counted in bars, and a bar is not revised once it has ended.  A strike   *)
(* stands for its contracts, and what they print for one number: the straddle's     *)
(* mid, and for the band of deltas the vega.  Out is a print that is no quote:      *)
(* nothing two-sided, no delta in the band.  The spot and the forward are the       *)
(* strikes nearest to them, and strikes are a step of one apart.  The cache is one  *)
(* key of it, of a kind: a straddle or a band (the skew's session is a band's       *)
(* without baselines).                                                           *)
EXTENDS Integers, Sequences, FiniteSetsExt, SequencesExt

CONSTANTS
  Strike,    \* a set of integers above zero
  Ticks,     \* what one bar can be: the spot, and for each strike Silent, Out or a number
  Silent,
  Forward,   \* put-call parity: the forward, from a strike and what it is quoted at
  Band,      \* BAND: how far around the forward, or the spot, a strike is a candidate
  Wing,      \* WING_WIDE or WING_NARROW: how far beyond the spot legs are fetched
  Request,
  LeadIn,    \* LEAD_IN_MS, in bars
  MinGap,    \* MIN_GAP_MS, in bars
  LastBar    \* the close of the session

ASSUME HistoryAssumption ==
  /\ Strike \subseteq Nat \ {0} /\ Silent \notin Nat
  /\ Ticks \subseteq [spot : Strike, print : [Strike -> Nat \cup {Silent}]]
  /\ \A tick \in Ticks, s \in Strike :
       tick.print[s] \notin {Silent, 0} => Forward[s][tick.print[s]] \in Strike
  /\ Band \in Nat /\ Wing \in Nat
  /\ LeadIn \in Nat /\ MinGap \in Nat /\ LastBar \in Nat

VARIABLES
  kind,   \* what is asked for
  tape,   \* the spot and what has printed, bar by bar
  cache,  \* the session cached: <<>> or <<session>>
  req     \* the requests under way, with what they read when they were asked

history == <<kind, tape, cache, req>>

Out == 0
None == -1

Idle == [pc |-> "idle", at |-> 0, cached |-> <<>>]

HistoryInit ==
  /\ kind \in {"straddle", "band"}
  /\ tape = <<>> /\ cache = <<>>
  /\ req = [r \in Request |-> Idle]

BarEnds ==
  /\ Len(tape) < LastBar
  /\ \E tick \in Ticks : tape' = Append(tape, tick)
  /\ UNCHANGED <<kind, cache, req>>

--------------------------------------------------------------------------------
(* The walks *)

(* The cursors carry forward what was last printed; before the first print of the  *)
(* window there is nothing.                                                        *)
Unread == [s \in Strike |-> Out]
advanceQuote(quote, print) == [s \in Strike |-> IF print[s] = Silent THEN quote[s] ELSE print[s]]

Cold == [strike |-> None, entry |-> [s \in Strike |-> None], anchor |-> None]

(* The contracts whose series a walk fetches: a straddle's every candidate it will  *)
(* have, a band's those about the range of the spot between its ends.              *)
fetched(from, to) ==
  IF kind = "straddle" THEN Strike
  ELSE {s \in Strike : \E i, j \in from .. to : tape[i].spot - Wing <= s /\ s <= tape[j].spot + Wing}

(* A leg in the band is measured against what it was worth when it joined it; one   *)
(* that is not forgets that, and one that is not fetched is not looked at.          *)
Entries(legs, entry, quote) ==
  [s \in Strike |-> IF s \notin legs THEN entry[s]
                    ELSE IF quote[s] = Out THEN None
                    ELSE IF entry[s] = None THEN quote[s] ELSE entry[s]]

aggregateSide(legs, entry, quote) ==
  [s \in Strike |-> IF s \notin legs \/ quote[s] = Out THEN None ELSE quote[s] - entry[s]]

candidateStrikes(x) == {s \in Strike : x - Band <= s /\ s <= x + Band}

(* What the candidates of a bar are about: a straddle's the spot, a band's the      *)
(* forward of the bar before, and without one the spot the walk began at.           *)
Around(of, resume, tick) ==
  IF of = "straddle" \/ resume.anchor = None THEN tick.spot ELSE resume.anchor

(* The cheapest of the strikes quoted, and of equals the lowest.                    *)
Cheapest(quote, quoted) ==
  CHOOSE s \in quoted :
    \A r \in quoted : quote[s] < quote[r] \/ (quote[s] = quote[r] /\ s <= r)

(* One bar of a walk, of a straddle or a band.  It makes none of a bar at which no  *)
(* candidate is quoted.                                                           *)
Walked(of, legs, w, t, tick) ==
  LET quote == advanceQuote(w.quote, tick.print)
      around == Around(of, w.resume, tick)
      quoted == {s \in candidateStrikes(around) \cap legs : quote[s] # Out}
      best == Cheapest(quote, quoted)
      roll == w.resume.strike \notin {None, best}
      entry == IF of = "band" THEN Entries(legs, w.resume.entry, quote) ELSE w.resume.entry
  IN IF quoted = {}
     THEN [w EXCEPT !.quote = quote, !.resume.anchor = IF of = "band" THEN around ELSE @]
     ELSE [quote |-> quote,
           bars |-> Append(w.bars,
             [at |-> t, strike |-> best, roll |-> roll,
              value |-> IF of = "band" THEN aggregateSide(legs, entry, quote) ELSE quote[best]]),
           rolls |-> IF roll THEN Append(w.rolls, [at |-> t, old |-> w.resume.strike, new |-> best])
                     ELSE w.rolls,
           resume |-> [strike |-> best, entry |-> entry,
                       anchor |-> IF of = "band" THEN Forward[best][quote[best]] ELSE w.resume.anchor]]

walk(from, to, resume) ==
  LET upTo[t \in from - 1 .. to] ==
        IF t < from THEN [quote |-> Unread, bars |-> <<>>, rolls |-> <<>>, resume |-> resume]
        ELSE Walked(kind, fetched(from, to), upTo[t - 1], t, tape[t])
  IN upTo[to]

--------------------------------------------------------------------------------
(* The catch-up *)

Seam(c) == Last(c.bars).at
Start(seam) == Max({1, seam - LeadIn})

needsCatchUp(c) == Len(tape) - Seam(c) > MinGap

(* Those of a sequence that are later than a bar.                                  *)
Later(s, m) ==
  LET upTo[n \in 0 .. Len(s)] ==
        IF n = 0 THEN <<>>
        ELSE IF s[n].at > m THEN Append(upTo[n - 1], s[n]) ELSE upTo[n - 1]
  IN upTo[Len(s)]

(* What a walk has that a session lacks.                                           *)
Fresh(c, w) == [bars |-> Later(w.bars, Seam(c)), rolls |-> Later(w.rolls, Seam(c))]

(* A change of strike at the seam that the walk had no bar to see by.               *)
(* Mutant: the walk is trusted with it.                                            *)
JoinedUnchecked(c, f) == f

Joined(c, f) ==
  LET head == Head(f.bars)
      old == Last(c.bars).strike
  IN IF head.strike = old \/ head.roll THEN f
     ELSE [bars |-> <<[head EXCEPT !.roll = TRUE]>> \o Tail(f.bars),
           rolls |-> <<[at |-> head.at, old |-> old, new |-> head.strike]>> \o f.rolls]

(* A session with the bars up to one appended: walked again from a lead-in before   *)
(* its seam, a band from where it stood, a straddle from nothing.  Without a bar    *)
(* to append it stays.  `seams` is history: where it has been continued.           *)
(* Mutant: walked from the seam on.                                                *)
CaughtUpAtTheSeam(c, to) ==
  LET w == walk(Seam(c), to, IF kind = "band" THEN c.resume ELSE Cold)
      f == Joined(c, Fresh(c, w))
  IN IF Fresh(c, w).bars = <<>> THEN c
     ELSE [bars |-> c.bars \o f.bars, rolls |-> c.rolls \o f.rolls, resume |-> w.resume,
           seams |-> c.seams \cup {Seam(c)}]

CaughtUp(c, to) ==
  LET w == walk(Start(Seam(c)), to, IF kind = "band" THEN c.resume ELSE Cold)
      f == Joined(c, Fresh(c, w))
  IN IF Fresh(c, w).bars = <<>> THEN c
     ELSE [bars |-> c.bars \o f.bars, rolls |-> c.rolls \o f.rolls, resume |-> w.resume,
           seams |-> c.seams \cup {Seam(c)}]

--------------------------------------------------------------------------------
(* The requests *)

(* A request reads the cache, and answers from it when that is current.             *)
Asks(r) ==
  /\ req[r].pc = "idle"
  /\ \/ /\ cache = <<>>
        /\ req' = [req EXCEPT ![r] = [pc |-> "computing", at |-> Len(tape), cached |-> <<>>]]
     \/ /\ cache # <<>> /\ needsCatchUp(cache[1])
        /\ req' = [req EXCEPT ![r] = [pc |-> "catching", at |-> Len(tape), cached |-> cache]]
  /\ UNCHANGED <<kind, tape, cache>>

(* A full walk of what the feed had when it was asked, or by now.                   *)
Computes(r) ==
  /\ req[r].pc = "computing"
  /\ \E t \in req[r].at .. Len(tape) :
       LET w == walk(1, t, Cold) IN
       cache' = IF w.bars = <<>> THEN cache
                ELSE <<[bars |-> w.bars, rolls |-> w.rolls, resume |-> w.resume, seams |-> {}]>>
  /\ req' = [req EXCEPT ![r] = Idle]
  /\ UNCHANGED <<kind, tape>>

(* A tail is appended to the session the request read, whatever is cached by now,   *)
(* and stored in its place.  Nothing is stored where there was no tail.            *)
CatchesUp(r) ==
  /\ req[r].pc = "catching"
  /\ LET c == CaughtUp(req[r].cached[1], req[r].at) IN
     cache' = IF c = req[r].cached[1] THEN cache ELSE <<c>>
  /\ req' = [req EXCEPT ![r] = Idle]
  /\ UNCHANGED <<kind, tape>>

(* The feed throws.  A failed catch-up answers with the cached session.             *)
HistoryFails(r) ==
  /\ req[r].pc # "idle"
  /\ req' = [req EXCEPT ![r] = Idle]
  /\ UNCHANGED <<kind, tape, cache>>

(* The entry is evicted, expires, or is invalidated.                               *)
Dropped ==
  /\ cache # <<>> /\ cache' = <<>>
  /\ UNCHANGED <<kind, tape, req>>

HistoryNext ==
  \/ BarEnds
  \/ Dropped
  \/ \E r \in Request : Asks(r) \/ Computes(r) \/ CatchesUp(r) \/ HistoryFails(r)

HistorySpec == HistoryInit /\ [][HistoryNext]_history

--------------------------------------------------------------------------------
(* Properties *)

(* A walk from one bar on sees at another what a walk of the day sees there.        *)
Sees(from, t) == walk(from, t, Cold).quote = walk(1, t, Cold).quote

(* What a continued straddle's correctness rests on: that the lead-in saw the       *)
(* quotes at the seam.                                                            *)
Warm(m) == Sees(Start(m), m)

SameAsComputed(c) ==
  LET w == walk(1, Seam(c), Cold) IN c.bars = w.bars /\ c.rolls = w.rolls

(* However often, and by however many requests at once, a cached straddle has been  *)
(* continued, it is the session a full walk computes (straddleCatchUp.ts:11-13,     *)
(* "a caught-up bar and a freshly computed bar are the same object"), provided each *)
(* lead-in was warm.  Of a band that cannot be said: its legs are those about the   *)
(* spot of its own window, and its search starts from another bar's forward.        *)
CaughtUpIsComputed ==
  kind = "straddle" =>
    \A i \in DOMAIN cache : (\A m \in cache[i].seams : Warm(m)) => SameAsComputed(cache[i])

(* Bars ascend in time, a change of strike between two of them is a roll, and the   *)
(* list has the rolls, in their order.                                             *)
RollsAreMarked(bars, rolls) ==
  /\ \A j \in 1 .. Len(bars) - 1 :
       /\ bars[j].at < bars[j + 1].at
       /\ bars[j].strike # bars[j + 1].strike => bars[j + 1].roll
  /\ \A j \in 1 .. Len(rolls) - 1 : rolls[j].at < rolls[j + 1].at
  /\ {rolls[j].at : j \in DOMAIN rolls} = {bars[j].at : j \in {k \in DOMAIN bars : bars[k].roll}}

(* Whatever the lead-ins saw, a cached session's bars ascend in time and every      *)
(* change of strike between two of them is marked as a roll, with an entry in the   *)
(* list of rolls (straddleCatchUp.ts:25-28, "checked explicitly rather than         *)
(* trusted").                                                                      *)
EveryRollIsMarked ==
  \A i \in DOMAIN cache : RollsAreMarked(cache[i].bars, cache[i].rolls)

(* straddleCatchUp.ts:245-247, "replaying the same bars reproduces the same map      *)
(* rather than disturbing it": a band continued with the quotes at its seam in view *)
(* measures every leg as a full walk does.                                         *)
ReplayIsHarmless ==
  \A i \in DOMAIN cache :
    (kind = "band" /\ \A m \in cache[i].seams : Sees(Start(m), m)) => SameAsComputed(cache[i])

================================================================================
