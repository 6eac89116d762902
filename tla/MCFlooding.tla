----------------------------- MODULE MCFlooding -----------------------------
(***************************************************************************)
(* Small fabrics: leaves 1 and 2 (level 0), spine 3 (level 1).             *)
(***************************************************************************)
EXTENDS Flooding

NorthNode(n) == [dir |-> North, orig |-> n, type |-> NodeTIE]
NorthPrefix(n) == [dir |-> North, orig |-> n, type |-> PrefixTIE]
Disagg(n) == [dir |-> South, orig |-> n, type |-> PosDisaggTIE]

MCLevel == [n \in Nodes |-> IF n <= 2 THEN 0 ELSE 1]
MCFixedPrefixes == [n \in Nodes |-> {{"p"}}]
MCNoDisagg == {}
MCDisagg == {{}, {"p"}}

\* A leaf and a spine, or two leaves under a spine.
MCPairLinks == {{1, 3}}
MCLeavesLinks == {{1, 3}, {2, 3}}

MCNodeTIE == {NorthNode(1)}
MCPrefixTIE == {NorthPrefix(1)}
MCBothWays == {NorthNode(1), Disagg(3)}
=============================================================================
