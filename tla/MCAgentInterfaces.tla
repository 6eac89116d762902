-------------------------- MODULE MCAgentInterfaces -------------------------
(***************************************************************************)
(* Two interfaces, which nothing but their names tells apart.              *)
(***************************************************************************)
EXTENDS AgentInterfaces, TLC

MCSymmetry == Permutations(Ifaces)
=============================================================================
