----------------------------- MODULE Southbound -----------------------------
(***************************************************************************)
(* ComputeSouthbound of internal/spf/southbound.go step by step: whichever *)
(* of several equally near items the heap returns, the routes are those of *)
(* the shortest paths (ShortestPaths).                                     *)
(***************************************************************************)
EXTENDS Spf

CONSTANT Snapshots      \* what a node may know when it runs SPF

\* The prefixes that node n announces to the nodes above it.
NorthPrefixes(s, n) == s.entries[[dir |-> North, orig |-> n, type |-> PrefixTIE]]

\* The code issues links of cost 1 and takes a missing cost for 1.
ASSUME SnapshotsAssumption ==
    /\ IsFiniteSet(Nodes)
    /\ \A s \in Snapshots :
         /\ s.systemID \in Nodes
         /\ \A u \in Nodes : /\ Usable(s, u) \subseteq Nodes
                             /\ \A v \in Usable(s, u) : Cost(s, u, v) \in Nat \ {0}
         /\ \A n \in Nodes : \/ NorthPrefixes(s, n) = None
                             \/ \E P \in SUBSET AllPrefixes :
                                  NorthPrefixes(s, n) \in PrefixElements(P)

VARIABLES
    snap,        \* the snapshot
    spf,         \* the locals: dist, nextHops and pq
    rib          \* the result, or None

spfVars == <<snap, spf, rib>>

SpfInit ==
    /\ snap \in Snapshots
    /\ spf = StartDijkstra(snap)
    /\ rib = None

\* One turn of the loop.
Pop ==
    /\ \E item \in Least(spf.pq) : spf' = Visit(snap, spf, item)
    /\ UNCHANGED <<snap, rib>>

\* After the loop.
Attach ==
    /\ spf.pq = {} /\ rib = None
    /\ rib' = AttachPrefixes(snap, spf)
    /\ UNCHANGED <<snap, spf>>

SpfNext == Pop \/ Attach

SpfSpec == SpfInit /\ [][SpfNext]_spfVars /\ WF_spfVars(SpfNext)

-----------------------------------------------------------------------------
(* Properties *)

Reached == {n \in Nodes : spf.dist[n] # None}

\* The nodes whose item has been taken from the queue.
Settled == {n \in Reached : Item(n, spf.dist[n]) \notin spf.pq}

\* u is a last hop of a shortest way to v.
Tight(u, v) == /\ v \in Usable(snap, u)
               /\ spf.dist[v] = spf.dist[u] + Cost(snap, u, v)

\* The variables keep their types, and there are no routes before the loop has
\* ended.
SpfTypeOK == spf \in Locals /\ (rib # None => spf.pq = {})

\* What makes one visit per node enough: the queue holds nothing nearer than a
\* settled node, settled nodes have relaxed all their links, and the next hops
\* of a node are those of its settled tight predecessors, none left out.
DijkstraInv ==
    /\ SpfTypeOK
    /\ spf.dist[snap.systemID] = 0
    /\ \A i \in spf.pq : i.node \in Reached /\ spf.dist[i.node] <= i.dist
    /\ \A n \in Settled : \A i \in spf.pq : spf.dist[n] <= i.dist
    /\ \A u \in Settled : \A v \in Usable(snap, u) :
         v \in Reached /\ spf.dist[v] <= spf.dist[u] + Cost(snap, u, v)
    /\ \A v \in Reached \ {snap.systemID} :
         LET before == {u \in Settled : Tight(u, v)}
         IN  /\ before # {}
             /\ spf.nextHops[v] = UNION {HopsVia(snap, spf, u, v) : u \in before}

\* When the loop ends, distances and next hops solve the equations of shortest
\* paths: no link offers a shorter way, each node is reached over a link that
\* is on one, and its next hops are those of all such links.
SolvesEquations ==
    spf.pq = {} =>
        /\ \A u \in Reached : \A v \in Usable(snap, u) :
             v \in Reached /\ spf.dist[v] <= spf.dist[u] + Cost(snap, u, v)
        /\ \A v \in Reached \ {snap.systemID} :
             LET before == {u \in Reached : Tight(u, v)}
             IN  /\ before # {}
                 /\ spf.nextHops[v] =
                      UNION {HopsVia(snap, spf, u, v) : u \in before}

\* The routes without their type, which is always RouteTypeNorthPrefix.
Untyped(r) == IF r = None THEN None
              ELSE [metric |-> r.metric, nextHops |-> r.nextHops]

\* The graph that a snapshot describes: its links with their costs, and the
\* prefixes of its nodes with their metrics.
Links(s) == [u \in Nodes |-> [v \in Nodes |->
                IF v \in Usable(s, u) THEN Cost(s, u, v) ELSE None]]
PrefixMetrics(s) == [n \in Nodes |-> IF NorthPrefixes(s, n) = None THEN <<>>
                                     ELSE NorthPrefixes(s, n)]

\* The algorithm computes what ShortestPaths promises, and it ends: no tie in
\* the heap, stale item or missing backlink makes it lose or add a next hop.
Abstract == INSTANCE ShortestPaths WITH
    Prefixes <- AllPrefixes,
    root <- snap.systemID,
    link <- Links(snap),
    attached <- PrefixMetrics(snap),
    routes <- IF rib = None THEN None
              ELSE [p \in AllPrefixes |-> Untyped(rib[p])]
ComputesShortestPaths == Abstract!Spec
=============================================================================
