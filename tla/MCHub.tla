-------------------------------- MODULE MCHub ----------------------------------
(* The Go process's state, side by side in one instance: the hub's sessions and    *)
(* clients (Hub), and the data of one session's engine (StraddlePoint).  They       *)
(* touch no common state, so a behaviour is one of the two and `part` says which;  *)
(* the other stays as it starts.                                                  *)
EXTENDS Hub, StraddlePoint, TLC

VARIABLE part

MCMetered == {<<1, "CE">>, <<1, "PE">>}

Symmetric == Permutations(Session) \cup Permutations(Sub)

(* Two sessions that never broadcast, or one that does: with both the instance   *)
(* is out of reach.                                                              *)
Bound ==
  \/ \A x \in Session : casts[x] = 0
  \/ Cardinality({x \in Session : engine[x] # "unborn"}) <= 1

MCInit == part \in {"hub", "data"} /\ Init /\ PointInit

MCNext ==
  \/ part = "hub" /\ Next /\ UNCHANGED <<part, dataVars>>
  \/ part = "data" /\ PointNext /\ UNCHANGED <<part, vars>>

MCSpec == MCInit /\ [][MCNext]_<<part, vars, dataVars>>

HubSpec == MCInit /\ part = "hub" /\ [][MCNext]_<<part, vars, dataVars>>
DataSpec == MCInit /\ part = "data" /\ [][MCNext]_<<part, vars, dataVars>>

================================================================================
