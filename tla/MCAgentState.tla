---------------------------- MODULE MCAgentState ----------------------------
(* Values of the constants of AgentState for TLC. *)
EXTENDS AgentState, TLC

CONSTANTS i1, i2

MCImage == {i1, i2}
MCSymmetry == Permutations(MCImage)

=============================================================================
