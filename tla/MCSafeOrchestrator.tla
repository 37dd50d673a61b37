-------------------------- MODULE MCSafeOrchestrator --------------------------
(* SafeOrchestrator for TLC: applications and operators are interchangeable. *)
EXTENDS SafeOrchestrator, TLC

OverrideSymmetry == Permutations(Apps) \cup Permutations(Operators)
\* Each switch where it meets another environment; "stage" has the rules of "prod".
SomeModes ==
  {[env |-> "dev", emergency |-> FALSE, demo |-> FALSE],
   [env |-> "stage", emergency |-> FALSE, demo |-> FALSE],
   [env |-> "dev", emergency |-> TRUE, demo |-> FALSE],
   [env |-> "prod", emergency |-> FALSE, demo |-> TRUE]}

=============================================================================
