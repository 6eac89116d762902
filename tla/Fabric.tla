------------------------------- MODULE Fabric -------------------------------
(***************************************************************************)
(* A fabric of spines and leaves: the adjacencies and TIEs of every node,  *)
(* its SPF runs (internal/spf) and its disaggregation (runDisaggregation   *)
(* of internal/agent/disagg.go and handleDisaggUpdate of                   *)
(* internal/tie/flood.go), while links fail and recover.                   *)
(*                                                                         *)
(* The components below this level are taken at their word: an adjacency   *)
(* follows its link at each end in its own time (LieLink), a TIE in scope  *)
(* gets over an adjacency that both ends have (Flooding), and a node runs  *)
(* SPF after a change (AgentSpf) and then has its routes in the FIB        *)
(* (RouteSync).  A version of a TIE counts the changes of its content: a   *)
(* TIE issued again as it was would change no route.  Prefix TIEs do not   *)
(* change and are known everywhere.                                        *)
(***************************************************************************)
EXTENDS Spf

CONSTANTS
    Leaves,          \* the nodes at level 0; the others are spines
    LeafPrefixes,    \* leaf -> its prefixes
    Starts           \* the links with which the fabric may start, and how often
                     \* each may fail or recover

Spines == Nodes \ Leaves
Level(n) == IF n \in Leaves THEN LeafLevel ELSE 1
Link == Spines \X Leaves
LinkOf(n, m) == IF n \in Spines THEN <<n, m>> ELSE <<m, n>>

\* A version of a TIE, and nothing.
Version(C) == {None} \cup [seq : Nat, content : C]

ASSUME FabricConstants ==
    /\ IsFiniteSet(Nodes) /\ Leaves \subseteq Nodes
    /\ DefaultRoute \notin Prefixes /\ LeafPrefixes \in [Leaves -> SUBSET Prefixes]
    /\ Starts \subseteq [links : SUBSET Link, faults : [Link -> Nat]]
    /\ None \notin [seq : Nat, content : SUBSET Nodes]
    /\ \A P \in SUBSET AllPrefixes :
         None \notin [seq : Nat, content : PrefixElements(P)]

VARIABLES
    links,           \* the links that are up
    adjacencies,     \* adjacencies[n]: the flood engine's, by neighbor
    lsdb,            \* lsdb[n][id]: version and content, or None
    disaggUpdateCh,  \* disaggUpdateCh[n]: the update under way, or None
    fib,             \* fib[n]: prefix -> next hops
    touched,         \* the leaves that had a change of their links
    faults           \* faults[l]: how often link l may still change

vars == <<links, adjacencies, lsdb, disaggUpdateCh, fib, touched, faults>>

-----------------------------------------------------------------------------
(* TIEs *)

\* The TIEs whose content changes: the neighbors of a node (those below a
\* spine, those above a leaf), and the prefixes that a spine disaggregates.
NodeID(n) == [dir |-> IF n \in Leaves THEN North ELSE South,
              orig |-> n, type |-> NodeTIE]
DisaggID(n) == [dir |-> South, orig |-> n, type |-> PosDisaggTIE]
TieIDs == {NodeID(n) : n \in Nodes} \cup {DisaggID(n) : n \in Spines}

\* What the routes are computed from: the content of each TIE, the unchanging
\* ones included.  Every link and every local prefix costs 1.
NodeElement(id, version) ==
    [level |-> Level(id.orig), overload |-> id.orig \in Leaves,
     neighbors |-> [m \in version.content |-> [level |-> Level(m), cost |-> 1]]]
Entries(db) ==
    [id \in TIEID(Nodes) |->
        CASE id \in TieIDs ->
               IF db[id] = None THEN None
               ELSE IF id.type = NodeTIE THEN NodeElement(id, db[id])
               ELSE db[id].content
          [] id.type = PrefixTIE /\ id.dir = South /\ id.orig \in Spines ->
               [p \in {DefaultRoute} |-> 1]
          [] id.type = PrefixTIE /\ id.dir = North /\ id.orig \in Leaves ->
               [p \in LeafPrefixes[id.orig] |-> 1]
          [] OTHER -> None]

Snapshot(n, adj, db) ==
    [systemID |-> n, level |-> Level(n),
     adjacencies |-> [m \in adj |-> Level(m)],
     entries |-> Entries(db)]

\* The next hops of the routes: what a FIB tells apart.
NextHops(rib) == [p \in AllPrefixes |-> IF rib[p] = None THEN {} ELSE rib[p].nextHops]

\* Engine.Run and then, on a spine, ComputeDisaggregation.
Computed(s) ==
    {[fib |-> NextHops(result.rib),
      disagg |-> IF result.southRIB = None THEN None
                 ELSE ComputeDisaggregation(s, result.southRIB)] :
        result \in RunEngine(s)}

\* What node n may compute from its adjacencies and its LSDB.
Results(n, adj, db) == UNION {Computed(s) : s \in {Snapshot(n, adj, db)}}

-----------------------------------------------------------------------------
(* Start: a fabric that has settled on some links *)

Adjacent(L, n) == {m \in Nodes : LinkOf(n, m) \in L}

\* Before any disaggregation.  South Node TIEs are reflected to all the spines
\* that have a link at all.
SettledNodeTies(L, n) ==
    [id \in TieIDs |->
        IF id.type = NodeTIE
           /\ \/ id.orig \in {n} \cup Adjacent(L, n)
              \/ id.dir = South /\ Adjacent(L, n) # {}
        THEN [seq |-> 1, content |-> Adjacent(L, id.orig)] ELSE None]

Disaggregated(L, s) ==
    (CHOOSE r \in Results(s, Adjacent(L, s), SettledNodeTies(L, s)) : TRUE).disagg

SettledTies(L, n) ==
    [id \in TieIDs |->
        IF id.type = PosDisaggTIE /\ id.orig \in {n} \cup Adjacent(L, n)
           /\ DOMAIN Disaggregated(L, id.orig) # {}
        THEN [seq |-> 1, content |-> Disaggregated(L, id.orig)]
        ELSE SettledNodeTies(L, n)[id]]

Init ==
    /\ \E s \in Starts : links = s.links /\ faults = s.faults
    /\ adjacencies = [n \in Nodes |-> Adjacent(links, n)]
    /\ lsdb = [n \in Nodes |-> SettledTies(links, n)]
    /\ disaggUpdateCh = [n \in Spines |-> None]
    /\ fib = [n \in Nodes |->
                (CHOOSE r \in Results(n, adjacencies[n], lsdb[n]) : TRUE).fib]
    /\ touched = {}

-----------------------------------------------------------------------------
(* Steps *)

LinkChanges(l) ==
    /\ faults[l] > 0 /\ faults' = [faults EXCEPT ![l] = @ - 1]
    /\ links' = IF l \in links THEN links \ {l} ELSE links \cup {l}
    /\ touched' = touched \cup {l[2]}
    /\ UNCHANGED <<adjacencies, lsdb, disaggUpdateCh, fib>>

\* Mutant: the sequence number is kept when the content changes.
insertSelfOriginated_KeepsNumber(db, id, content) ==
    [db EXCEPT ![id] = [seq |-> IF @ = None THEN 1 ELSE @.seq,
                        content |-> content]]

\* A new version of n's own TIE in n's LSDB.
insertSelfOriginated(db, id, content) ==
    [db EXCEPT ![id] = [seq |-> IF @ = None THEN 1 ELSE @.seq + 1,
                        content |-> content]]

\* Mutant: a TIE issued after a loss lists none of the other neighbors.
handleAdjChange_DownFlushes(n, m) ==
    /\ (m \in adjacencies[n]) # (LinkOf(n, m) \in links)
    /\ adjacencies' = [adjacencies EXCEPT ![n] = IF m \in @ THEN @ \ {m}
                                                 ELSE @ \cup {m}]
    /\ lsdb' = [lsdb EXCEPT ![n] =
                  insertSelfOriginated(@, NodeID(n), IF m \in adjacencies[n] THEN {}
                                                     ELSE adjacencies'[n])]
    /\ UNCHANGED <<links, disaggUpdateCh, fib, touched, faults>>

\* handleAdjChange of n's flood engine, after its FSM went to or left ThreeWay.
handleAdjChange(n, m) ==
    /\ (m \in adjacencies[n]) # (LinkOf(n, m) \in links)
    /\ adjacencies' = [adjacencies EXCEPT ![n] = IF m \in @ THEN @ \ {m}
                                                 ELSE @ \cup {m}]
    /\ lsdb' = [lsdb EXCEPT ![n] =
                  insertSelfOriginated(@, NodeID(n), adjacencies'[n])]
    /\ UNCHANGED <<links, disaggUpdateCh, fib, touched, faults>>

\* m installs n's newer version of a TIE.
Flood(n, m, id) ==
    /\ LinkOf(n, m) \in links /\ m \in adjacencies[n] /\ n \in adjacencies[m]
    /\ lsdb[n][id] # None /\ id.orig # m
    /\ ShouldFloodTIE(id, n, Level(n), Level(m))
    /\ IF lsdb[m][id] = None THEN shouldAcceptTIE(id, m, Level(m), Level(n))
       ELSE lsdb[n][id].seq > lsdb[m][id].seq
    /\ lsdb' = [lsdb EXCEPT ![m][id] = lsdb[n][id]]
    /\ UNCHANGED <<links, adjacencies, disaggUpdateCh, fib, touched, faults>>

\* The last update of n, taken by the engine or not.
LastUpdate(n) ==
    LET own == lsdb[n][DisaggID(n)]
    IN  CASE disaggUpdateCh[n] # None -> disaggUpdateCh[n]
          [] disaggUpdateCh[n] = None /\ own # None -> own.content
          [] OTHER -> <<>>

\* Mutant: no update is sent when there is nothing to disaggregate.
runDisaggregation_NoWithdrawal(n, prefixes) ==
    IF n \in Leaves \/ prefixes \in {LastUpdate(n), <<>>} THEN disaggUpdateCh
    ELSE [disaggUpdateCh EXCEPT ![n] = prefixes]

\* runDisaggregation: an update that the engine has not taken is replaced.  One
\* that says nothing new is left out, with the version it would be given.
runDisaggregation(n, prefixes) ==
    IF n \in Leaves \/ prefixes = LastUpdate(n) THEN disaggUpdateCh
    ELSE [disaggUpdateCh EXCEPT ![n] = prefixes]

\* case <-spfTimerC of the event loop: SPF, runDisaggregation and syncRoutes.  A
\* run that changes nothing is left out.
Run(n) ==
    \E result \in Results(n, adjacencies[n], lsdb[n]) :
        /\ \/ result.fib # fib[n]
           \/ runDisaggregation(n, result.disagg) # disaggUpdateCh
        /\ fib' = [fib EXCEPT ![n] = result.fib]
        /\ disaggUpdateCh' = runDisaggregation(n, result.disagg)
        /\ UNCHANGED <<links, adjacencies, lsdb, touched, faults>>

handleDisaggUpdate(n) ==
    /\ disaggUpdateCh[n] # None
    /\ disaggUpdateCh' = [disaggUpdateCh EXCEPT ![n] = None]
    /\ lsdb' = [lsdb EXCEPT ![n] =
                  LET old == @[DisaggID(n)]
                      prefixes == disaggUpdateCh[n]
                  IN  IF DOMAIN prefixes = {}
                         /\ (old = None \/ DOMAIN old.content = {})
                      THEN @ ELSE insertSelfOriginated(@, DisaggID(n), prefixes)]
    /\ UNCHANGED <<links, adjacencies, fib, touched, faults>>

\* Whatever is left to do is done in the end; links need not change.
Progress ==
    \/ \E n, m \in Nodes : handleAdjChange(n, m)
    \/ \E n, m \in Nodes, id \in TieIDs : Flood(n, m, id)
    \/ \E n \in Spines : handleDisaggUpdate(n)
    \/ \E n \in Nodes : Run(n)

Next == (\E l \in Link : LinkChanges(l)) \/ Progress

Spec == Init /\ [][Next]_vars /\ WF_vars(Progress)

-----------------------------------------------------------------------------
(* Properties *)

Metrics == UNION {[P -> 1..3] : P \in SUBSET Prefixes}

\* The variables keep their types, and what a node has of a TIE is a version
\* that its originator issued: not newer than the last, and the last as it is.
TypeOK ==
    /\ links \subseteq Link /\ touched \subseteq Leaves
    /\ adjacencies \in [Nodes -> SUBSET Nodes]
    /\ \A n \in Nodes : \A id \in TieIDs :
         LET held == lsdb[n][id]
             issued == lsdb[id.orig][id]
         IN  /\ held \in IF id.type = NodeTIE THEN Version(SUBSET Nodes)
                         ELSE Version(Metrics)
             /\ held # None => issued # None /\ held.seq <= issued.seq
             /\ held # None /\ held.seq = issued.seq => held = issued
    /\ disaggUpdateCh \in [Spines -> {None} \cup Metrics]
    /\ fib \in [Nodes -> [AllPrefixes -> SUBSET Nodes]]
    /\ faults \in [Link -> Nat]

\* Leaf l sends a packet for p by its own route to p or else by default, over
\* any of the next hops; a spine by its route to p.  It arrives if each of
\* them has a link to the next, and the last of them has p.
Via(l, p) == IF fib[l][p] # {} THEN fib[l][p] ELSE fib[l][DefaultRoute]
Arrives(l, p) ==
    /\ Via(l, p) # {}
    /\ \A s \in Via(l, p) :
         /\ <<s, l>> \in links /\ fib[s][p] # {}
         /\ \A t \in fib[s][p] : <<s, t>> \in links /\ p \in LeafPrefixes[t]

Holders(p) == {t \in Leaves : p \in LeafPrefixes[t]}
Reachable(l, p) ==
    \E s \in Spines : <<s, l>> \in links /\ \E t \in Holders(p) : <<s, t>> \in links

\* While links fail and recover elsewhere, a leaf keeps all its spines for the
\* default route, and its traffic to the prefixes of leaves that are not touched
\* either arrives at every moment: no step of origination, flooding,
\* disaggregation or SPF anywhere diverts it to a node that cannot deliver.
BystandersUndisturbed ==
    \A l \in Leaves \ touched :
        /\ fib[l][DefaultRoute] = Adjacent(links, l)
        /\ \A p \in Prefixes \ LeafPrefixes[l] :
             Holders(p) \cap touched = {} /\ Reachable(l, p) => Arrives(l, p)

\* When links have stopped changing, traffic from every leaf gets to every
\* prefix that some spine links it with: disaggregation has drawn it away from
\* the spines that cannot deliver, and no stale TIE keeps it on a dead way.
TrafficFlows ==
    <>[](\A l \in Leaves : \A p \in Prefixes \ LeafPrefixes[l] :
            Reachable(l, p) => Arrives(l, p))

\* Two spines hear of each other through a leaf that both have.
Share(s, r) == Adjacent(links, s) \cap Adjacent(links, r) # {}

\* The prefixes of leaves that some other spine has lost.
ToDisaggregate(s) ==
    UNION {LeafPrefixes[t] : t \in {u \in Adjacent(links, s) :
                                  \E r \in Spines : <<r, u>> \notin links}}

\* When links have stopped changing, a spine disaggregates the prefixes of the
\* leaves that another spine has lost, and its leaves know; it has withdrawn
\* what a recovery has made superfluous, also if updates overtook each other.
DisaggSettles ==
    <>[](\A s \in Spines : (\A r \in Spines : Share(s, r)) =>
            \A n \in {s} \cup Adjacent(links, s) :
                LET tie == lsdb[n][DisaggID(s)]
                IN  (IF tie = None THEN {} ELSE DOMAIN tie.content)
                      = ToDisaggregate(s))
=============================================================================
