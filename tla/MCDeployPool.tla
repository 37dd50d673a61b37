----------------------------- MODULE MCDeployPool -----------------------------
(* The pool of deploy workers, or the scaler that makes pools of its own, for   *)
(* TLC: a behaviour is about one of them. Two agents and two starts: the second *)
(* generation of threads meets what the first one and the stop between them     *)
(* have left in the queue. Two jobs compete with the pills for those agents;    *)
(* three are more than one generation handles.                                  *)
EXTENDS DeployPool, AutoScaler

VARIABLE part

PoolInit == part \in {"pool", "scaler"} /\ Init /\ ScaleInit
PoolNext ==
  \/ part = "pool" /\ Next /\ UNCHANGED <<scaleVars, part>>
  \/ part = "scaler" /\ ScaleNext /\ UNCHANGED <<vars, part>>
PoolSpec == PoolInit /\ [][PoolNext]_<<vars, scaleVars, part>> /\ Fairness

\* Two of the four destinations: one that fails before and one that fails after another.
TwoDestinations == <<"csv", "rl">>
=============================================================================
