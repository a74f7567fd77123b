------------------------------ MODULE MCNodeFeeds ------------------------------
(* What keeps a broker answering, side by side in one instance: the breakers and  *)
(* logins that calls go through (NodeFeeds), and the brokers' own sockets          *)
(* (BrokerStream).  They touch no common state, so a behaviour is one of the two   *)
(* and `part` says which.                                                        *)
(* Of the first: two feeds, a caller and the prober; a reset lets the caller       *)
(* overtake a probe, whose answer then comes late.  One code of each kind;         *)
(* UNSUPPORTED, which fails over and is no fault, does what AUTH does.            *)
EXTENDS NodeFeeds, BrokerStream

CONSTANTS c1, p1, l1, l2, l3

VARIABLE part

MCCaller == {c1}
MCProber == {p1}
MCLogin == {l1, l2, l3}
MCNeeds == [c \in MCCaller |-> {{1, 2}}]
MCCode == {"AUTH", "TRANSIENT", "NOT_FOUND"}
MCLadder == <<1>>

AnAssignment == CHOOSE f \in Injection(Key, Topic) : TRUE

MCInit ==
  /\ part \in {"feeds", "broker"} /\ Init /\ BrokerInit
  /\ part = "feeds" => kind = "kotak" /\ broker = "drops" /\ assign = AnAssignment

MCNext ==
  \/ part = "feeds" /\ Next /\ UNCHANGED <<part, brokerVars>>
  \/ part = "broker" /\ BrokerNext /\ UNCHANGED <<part, vars>>

(* NodeFeeds!Fairness, with the prober's timer running while its part does.        *)
MCFairness ==
  /\ WF_vars(Tick)
  /\ \A a \in Actor : WF_vars(Continue(a))
  /\ \A l \in Login : WF_vars(LoginEnds(l))
  /\ \A a \in Prober : WF_vars(part = "feeds" /\ Probe(a))

MCSpec == MCInit /\ [][MCNext]_<<part, vars, brokerVars>> /\ MCFairness /\ BrokerFairness

================================================================================
