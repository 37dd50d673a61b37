--------------------------- MODULE MCAgentRuntime ---------------------------
(* The agent runtime with interchangeable request threads, for TLC.        *)
EXTENDS AgentRuntime, TLC

RequestSymmetry == Permutations(Requests)

=============================================================================
