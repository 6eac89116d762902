----------------------------- MODULE MCAgentSpf -----------------------------
(***************************************************************************)
(* Three topologies: one with nothing to disaggregate, and two that differ *)
(* in the prefix to disaggregate.                                          *)
(***************************************************************************)
EXTENDS AgentSpf

MCTopologies == {"healthy", "moved", "cut"}
MCDisagg == [t \in MCTopologies |->
    CASE t = "healthy" -> {} [] t = "moved" -> {"q"} [] t = "cut" -> {"p"}]
=============================================================================
