-------------------------------- MODULE Spf ---------------------------------
(***************************************************************************)
(* The route computations of internal/spf as operators on a snapshot s of  *)
(* what one node knows: its identity, its adjacencies (neighbor -> level)  *)
(* and the LSDB (TIE ID -> element, or None).                              *)
(*                                                                         *)
(* A Node TIE holds a level, the overload flag and its neighbors, each     *)
(* with a level and a cost (None: not given); a Prefix TIE maps prefixes   *)
(* to metrics.  There is one link between two nodes, so that a next hop is *)
(* a neighbor, and MergeNextHops, which tells next hops apart by their     *)
(* neighbor, is a union.                                                   *)
(***************************************************************************)
EXTENDS Tie, FiniteSetsExt

CONSTANTS
    None,         \* no TIE, no cost, no route
    Nodes,        \* system IDs
    Prefixes      \* without the default route

RouteTypeNorthPrefix == 6
RouteTypeSouthPrefix == 8
DefaultDistance == 1

AllPrefixes == Prefixes \cup {DefaultRoute}
EmptyRIB == [p \in AllPrefixes |-> None]

\* The elements of a Node TIE with neighbors N and of a Prefix TIE with prefixes
\* P, and routes.
NodeElements(N) ==
    [level : Nat, overload : BOOLEAN,
     neighbors : [N -> [level : Nat, cost : Nat \cup {None}]]]
PrefixElements(P) == [P -> Nat]
Routes == [metric : Nat, type : Nat, nextHops : SUBSET Nodes]
RIBs == [AllPrefixes -> Routes \cup {None}]

\* Go's nil is none of the values that it stands beside.
ASSUME NoneAssumption ==
    /\ None \notin Nat \cup Routes \cup RIBs
    /\ \A N \in SUBSET Nodes : None \notin NodeElements(N)
    /\ \A P \in SUBSET AllPrefixes : None \notin PrefixElements(P)

-----------------------------------------------------------------------------
(* helpers.go *)

FindNodeTIE(s, dir, n) == s.entries[[dir |-> dir, orig |-> n, type |-> NodeTIE]]

\* FindPrefixTIEs and FindPositiveDisaggPrefixTIEs, as <<prefix, metric>>.
FindPrefixes(s, dir, n, type) ==
    LET tie == s.entries[[dir |-> dir, orig |-> n, type |-> type]]
    IN  IF tie = None THEN {} ELSE {<<p, tie[p]>> : p \in DOMAIN tie}

LinkCost(nbr) == IF nbr.cost = None THEN DefaultDistance ELSE nbr.cost

Route(metric, type, nextHops) ==
    [metric |-> metric, type |-> type, nextHops |-> nextHops]

\* Mutant: of two equally good routes the first one stays as it is.
addRoute_KeepsFirst(existing, r) ==
    IF \/ existing = None
       \/ r.type < existing.type
       \/ r.type = existing.type /\ r.metric < existing.metric
    THEN r ELSE existing

\* addRoute, for the entry of its prefix: a lower route type wins, then a lower
\* metric; equals share their next hops.
addRoute(existing, r) ==
    IF \/ existing = None
       \/ r.type < existing.type
       \/ r.type = existing.type /\ r.metric < existing.metric
    THEN r
    ELSE IF r.type = existing.type /\ r.metric = existing.metric
    THEN [existing EXCEPT !.nextHops = @ \cup r.nextHops]
    ELSE existing

\* The entry of a prefix after candidates for it were added, in whatever order
\* the code's maps give (AddRouteCommutes: it does not matter).
addAll(entry, candidates) ==
    FoldSet(LAMBDA r, existing : addRoute(existing, r), entry, candidates)

addRoutes(rib, candidates) ==
    [p \in AllPrefixes |-> addAll(rib[p], candidates[p])]

-----------------------------------------------------------------------------
(* northbound.go *)

\* The northbound neighbors whose South Node TIE lists this node.
Validated(s) ==
    {m \in DOMAIN s.adjacencies :
        /\ s.adjacencies[m] > s.level
        /\ LET tie == FindNodeTIE(s, South, m)
           IN  tie # None /\ s.systemID \in DOMAIN tie.neighbors}

CostNorth(s, m) ==
    LET own == FindNodeTIE(s, North, s.systemID)
    IN  IF own # None /\ m \in DOMAIN own.neighbors
        THEN LinkCost(own.neighbors[m]) ELSE DefaultDistance

ComputeNorthbound(s) ==
    LET V == Validated(s)
        minCost == Min({CostNorth(s, m) : m \in V})
        default == Route(minCost, RouteTypeSouthPrefix,
                         {m \in V : CostNorth(s, m) = minCost})
        Attached(p, m) ==
            {Route(e[2] + CostNorth(s, m), RouteTypeSouthPrefix, {m}) :
                e \in {f \in FindPrefixes(s, South, m, PrefixTIE)
                             \cup FindPrefixes(s, South, m, PosDisaggTIE) :
                         f[1] = p}}
        candidates == [p \in AllPrefixes |->
                         (UNION {Attached(p, m) : m \in V})
                         \cup (IF p = DefaultRoute THEN {default} ELSE {})]
    IN  IF V = {} THEN EmptyRIB ELSE addRoutes(EmptyRIB, candidates)

-----------------------------------------------------------------------------
(* southbound.go: Dijkstra's algorithm, with d for its locals *)

\* The neighbors that the loop over u's South Node TIE gets to: lower, with a
\* backlink, and, next to this node, adjacent.  Overloaded nodes are terminal.
Usable(s, u) ==
    LET tie == FindNodeTIE(s, South, u)
        Listed(v) == LET back == FindNodeTIE(s, North, v)
                     IN  back # None /\ u \in DOMAIN back.neighbors
    IN  IF tie = None \/ tie.overload THEN {}
        ELSE {v \in DOMAIN tie.neighbors :
                /\ tie.neighbors[v].level < tie.level
                /\ Listed(v)
                /\ u = s.systemID => v \in DOMAIN s.adjacencies}

Cost(s, u, v) == LinkCost(FindNodeTIE(s, South, u).neighbors[v])

\* The next hops that u passes on to its neighbor v.
HopsVia(s, d, u, v) == IF u = s.systemID THEN {v} ELSE d.nextHops[u]

Locals == [dist : [Nodes -> Nat \cup {None}],
           nextHops : [Nodes -> SUBSET Nodes],
           pq : SUBSET [node : Nodes, dist : Nat]]

Item(n, distance) == [node |-> n, dist |-> distance]

StartDijkstra(s) ==
    [dist |-> [n \in Nodes |-> IF n = s.systemID THEN 0 ELSE None],
     nextHops |-> [n \in Nodes |-> {}],
     pq |-> {Item(s.systemID, 0)}]

\* What heap.Pop may return.
Least(pq) == {i \in pq : \A j \in pq : i.dist <= j.dist}

\* The links of a visited node: over which a neighbor is nearer than before,
\* and over which it is just as near.
NewDist(s, item, v) == item.dist + Cost(s, item.node, v)
Better(s, d, item) ==
    {v \in Usable(s, item.node) :
        d.dist[v] = None \/ NewDist(s, item, v) < d.dist[v]}
Equal(s, d, item) ==
    {v \in Usable(s, item.node) : NewDist(s, item, v) = d.dist[v]}

\* Mutant: at an equal distance the next hops are not merged.
relaxHops_NoMerge(s, d, item) ==
    [v \in Nodes |-> IF v \in Better(s, d, item)
                     THEN HopsVia(s, d, item.node, v) ELSE d.nextHops[v]]

relaxHops(s, d, item) ==
    [v \in Nodes |->
        CASE v \in Better(s, d, item) -> HopsVia(s, d, item.node, v)
          [] v \in Equal(s, d, item) ->
               d.nextHops[v] \cup HopsVia(s, d, item.node, v)
          [] OTHER -> d.nextHops[v]]

relaxDist(s, d, item) ==
    [v \in Nodes |-> IF v \in Better(s, d, item)
                     THEN NewDist(s, item, v) ELSE d.dist[v]]

\* Mutant: a node that is found to be nearer is not queued again.
relaxQueue_NoRequeue(s, d, item) ==
    (d.pq \ {item}) \cup {Item(v, NewDist(s, item, v)) :
                           v \in {w \in Better(s, d, item) : d.dist[w] = None}}

relaxQueue(s, d, item) ==
    (d.pq \ {item}) \cup {Item(v, NewDist(s, item, v)) : v \in Better(s, d, item)}

\* One turn of the loop.  A stale item is dropped; else the links of its node
\* are relaxed, each of which has its own entry in dist.
Visit(s, d, item) ==
    IF item.dist > d.dist[item.node]
    THEN [d EXCEPT !.pq = @ \ {item}]
    ELSE [dist |-> relaxDist(s, d, item),
          nextHops |-> relaxHops(s, d, item),
          pq |-> relaxQueue(s, d, item)]

\* The North Prefix TIEs of the nodes that were reached.
AttachPrefixes(s, d) ==
    LET reached == {n \in Nodes \ {s.systemID} :
                      d.dist[n] # None /\ d.nextHops[n] # {}}
        Attached(p, n) ==
            {Route(e[2] + d.dist[n], RouteTypeNorthPrefix, d.nextHops[n]) :
                e \in {f \in FindPrefixes(s, North, n, PrefixTIE) : f[1] = p}}
    IN  addRoutes(EmptyRIB, [p \in AllPrefixes |->
                                UNION {Attached(p, n) : n \in reached}])

\* ComputeSouthbound: the RIBs that the loop may end with, as heap.Pop chooses
\* among equals.  There is at most one item per link and one for this node.
\* (Visit stays in Locals; that this is asked makes TLC tabulate its result.)
ComputeSouthbound(s) ==
    LET Turn(d) == IF d.pq = {} THEN {d}
                   ELSE {e \in {Visit(s, d, item) : item \in Least(d.pq)} :
                           e \in Locals}
        after[k \in Nat] == IF k = 0 THEN {StartDijkstra(s)}
                            ELSE UNION {Turn(d) : d \in after[k - 1]}
    IN  {AttachPrefixes(s, d) :
            d \in after[1 + Cardinality(Nodes) * Cardinality(Nodes)]}

-----------------------------------------------------------------------------
(* Engine.Run of spf.go: the results it may have *)

RunEngine(s) ==
    LET northRIB == ComputeNorthbound(s)
        northern == [p \in AllPrefixes |-> {northRIB[p]} \ {None}]
    IN  IF s.level = LeafLevel THEN {[rib |-> northRIB, southRIB |-> None]}
        ELSE {[rib |-> addRoutes(southRIB, northern), southRIB |-> southRIB] :
                southRIB \in ComputeSouthbound(s)}

-----------------------------------------------------------------------------
(* disagg.go *)

\* The nodes below a node at the given level that its South Node TIE lists.
SouthOf(tie, level) ==
    {m \in DOMAIN tie.neighbors : tie.neighbors[m].level < level}

\* The nodes at this level that share a southern neighbor with this one.
Peers(s, mine) ==
    {n \in Nodes \ {s.systemID} :
        LET tie == FindNodeTIE(s, South, n)
        IN  /\ tie # None /\ tie.level = s.level
            /\ SouthOf(tie, s.level) \cap mine # {}}

\* This node's southern neighbors that some peer does not have.
PartialNeighbors(s) ==
    LET mine == {m \in DOMAIN s.adjacencies : s.adjacencies[m] < s.level}
    IN  {m \in mine : \E n \in Peers(s, mine) :
                         m \notin SouthOf(FindNodeTIE(s, South, n), s.level)}

\* The prefixes with a next hop among them, with the distance of the route.
ComputeDisaggregation(s, southRIB) ==
    [p \in {q \in AllPrefixes : /\ southRIB[q] # None
                                /\ southRIB[q].nextHops \cap PartialNeighbors(s) # {}}
        |-> southRIB[p].metric]
=============================================================================
