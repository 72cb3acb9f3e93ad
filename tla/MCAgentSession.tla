---------------------------- MODULE MCAgentSession ----------------------------
(* Two queries that may share a conversation, on a development and a        *)
(* production cluster, with one namespace that is protected.                *)
EXTENDS AgentSession, TLC

AgentSymmetry == Permutations(Agents)
=============================================================================
