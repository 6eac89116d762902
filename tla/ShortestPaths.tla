---------------------------- MODULE ShortestPaths ---------------------------
(***************************************************************************)
(* What ComputeSouthbound of internal/spf/southbound.go promises, said by  *)
(* paths and without an algorithm: in one step the routes of a graph are   *)
(* those of its shortest paths, with every first hop of every shortest     *)
(* path to every node that offers the prefix at the least total metric.    *)
(***************************************************************************)
EXTENDS Integers, Sequences, FiniteSetsExt

CONSTANTS None, Nodes, Prefixes

VARIABLES
    root,         \* the node that computes
    link,         \* link[u][v]: the cost from u to v, or None
    attached,     \* attached[n]: the prefixes of n with their metrics
    routes        \* prefix -> [metric, nextHops] or None; None at first

vars == <<root, link, attached, routes>>

\* The paths from node r over the links W, with nodes that are all different.
IsPath(r, W, p) ==
    /\ p[1] = r
    /\ \A i, j \in 1..Len(p) : p[i] = p[j] => i = j
    /\ \A i \in 1..Len(p) - 1 : W[p[i]][p[i + 1]] # None
Paths(r, W) ==
    UNION {{p \in [1..k -> Nodes] : IsPath(r, W, p)} : k \in 2..Cardinality(Nodes)}

\* The costs up to each node of path p, and up to its end.
Costs(W, p) ==
    LET upto[i \in 1..Len(p)] ==
          IF i = 1 THEN 0 ELSE upto[i - 1] + W[p[i - 1]][p[i]]
    IN  upto
Length(W, p) == Costs(W, p)[Len(p)]

\* The ways to prefix x, of which node n has those of A[n]: paths to a node that
\* has it, with the total metric.
Ways(r, W, A, x) ==
    {[hop |-> p[2], metric |-> Length(W, p) + A[p[Len(p)]][x]] :
        p \in {q \in Paths(r, W) : x \in DOMAIN A[q[Len(q)]]}}

ShortestRoute(r, W, A, x) ==
    LET ways == Ways(r, W, A, x)
        least == Min({w.metric : w \in ways})
    IN  IF ways = {} THEN None
        ELSE [metric |-> least,
              nextHops |-> {w.hop : w \in {v \in ways : v.metric = least}}]

Init == routes = None

\* (The links are named so that TLC evaluates them once.)
Compute ==
    /\ routes = None
    /\ \E W \in {link} :
         routes' = [x \in Prefixes |-> ShortestRoute(root, W, attached, x)]
    /\ UNCHANGED <<root, link, attached>>

Safety == Init /\ [][Compute]_vars
Spec == Safety /\ WF_vars(Compute)
=============================================================================
