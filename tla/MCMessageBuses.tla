---------------------------- MODULE MCMessageBuses ----------------------------
(* The two ways by which agents of different processes hear of each other, for  *)
(* TLC: the relay of the sovereign bus to MCP files (McpRelay; two runs, one    *)
(* message for the inbox and one for the adapter) and the Redis bus with its    *)
(* listeners (RedisBus; two patterns that overlap, an event of this process and *)
(* one of another). They share nothing: a behaviour is about one of them.       *)
EXTENDS McpRelay, RedisBus, TLC

VARIABLE part

Overlapping == [p \in Patterns |-> IF p = "all" THEN Events ELSE {CHOOSE e \in Events : e \in Ours}]

BusesInit == part \in {"relay", "bus"} /\ Init /\ BusInit
BusesNext ==
  \/ part = "relay" /\ Next /\ UNCHANGED <<busVars, part>>
  \/ part = "bus" /\ BusNext /\ UNCHANGED <<vars, part>>
BusesSpec == BusesInit /\ [][BusesNext]_<<vars, busVars, part>> /\ BusFairness

\* The runs of the relay have no part in the behaviours that the liveness property is
\* about: there the permutations change nothing.
RelaySymmetry == Permutations(Runs)
=============================================================================
