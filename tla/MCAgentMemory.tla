----------------------------- MODULE MCAgentMemory -----------------------------
(* AgentMemory for TLC: two applications, two kinds of decision. *)
EXTENDS AgentMemory

CONSTANTS a1, a2, restart, noop

TwoApps == {a1, a2}
TwoKinds == {[app |-> a1, action |-> restart, outcome |-> "failed"],
             [app |-> a2, action |-> noop, outcome |-> "executed"]}

=============================================================================
