-------------------------- MODULE MCDashboardBackend --------------------------
(* The dashboard backend for TLC: its handlers of links (LinkRegistry; two demo  *)
(* links and a third one) and those of decisions with the autonomous loop        *)
(* (DecisionBrain; three requests at the thresholds and a service that answers   *)
(* in each of the ways the poller tells apart). The two share threads and no     *)
(* data, and a behaviour is about one of them.                                   *)
EXTENDS LinkRegistry, DecisionBrain, TLC

CONSTANTS l1, l2, l3

TwoLinks == <<l1, l2>>
SomeCoverage == [l \in Links |-> CASE l = l1 -> 4 [] l = l2 -> 2 [] OTHER -> 1]

Asking == {[env |-> "DEV", cpu |-> 29, memory |-> 90], [env |-> "DEV", cpu |-> 30, memory |-> 86],
           [env |-> "PROD", cpu |-> 81, memory |-> 0]}
Weathers ==
  {Unasked, [Unasked EXCEPT !.reach = "timeout"], [Unasked EXCEPT !.ok = FALSE],
   [Unasked EXCEPT !.sick = TRUE, !.ok = FALSE], [Unasked EXCEPT !.slow = TRUE]}

BackendInit == Init /\ BrainInit
BackendNext == \/ cast = "other" /\ Next /\ UNCHANGED brainVars
               \/ BrainNext /\ UNCHANGED vars
BackendSpec == BackendInit /\ [][BackendNext]_<<vars, brainVars>> /\ BrainFairness

\* No thread has a part in the behaviours that the liveness property is about: there the
\* permutations change nothing.
ThreadSymmetry == Permutations(Handlers)
=============================================================================
