------------------------------ MODULE Flooding ------------------------------
(***************************************************************************)
(* Flood engines on the links of a fabric: LSDB synchronisation by TIE,    *)
(* TIDE and TIRE packets while adjacencies flap, packets are lost,         *)
(* duplicated and reordered, and nodes restart.                            *)
(*                                                                         *)
(* net[n][m] is everything between n's FloodSendCh and m's FloodRecvCh.    *)
(* The tickers' intervals are long against the delay of a link: that an    *)
(* engine sends while earlier packets of its are still in flight counts as *)
(* a fault.  A packet for which a channel or a socket buffer has no room   *)
(* is one that Fault loses.                                                *)
(***************************************************************************)
EXTENDS FloodEngine, SequencesExt

CONSTANTS
    Links,             \* set of two-element sets of nodes
    LocalPrefixes,     \* node -> the sets of local prefixes it may start with
    DisaggSets,        \* what the agent may ask a node to disaggregate
    MaxFlaps, MaxFaults, MaxRestarts, MaxDisagg, MaxTicks,  \* bounds on each
    MaxTotal           \* kind of disturbance, and on all of them together

ASSUME FloodConstants ==
    /\ \A l \in Links : l \subseteq Nodes /\ Cardinality(l) = 2
    /\ {MaxFlaps, MaxFaults, MaxRestarts, MaxDisagg, MaxTicks, MaxTotal}
         \subseteq Nat
    /\ \A n \in Nodes : LocalPrefixes[n] \subseteq SUBSET STRING
    /\ DisaggSets \subseteq SUBSET STRING

VARIABLES
    engine,      \* node -> engine
    net,         \* sender -> receiver -> packets in flight
    used,        \* how much of each bound is used up
    issued       \* history: TIE -> the highest sequence number ever issued

vars == <<engine, net, used, issued>>

Neighbors(n) == {m \in Nodes : {n, m} \in Links}

Init ==
    /\ \E p \in [Nodes -> UNION {LocalPrefixes[n] : n \in Nodes}] :
         /\ \A n \in Nodes : p[n] \in LocalPrefixes[n]
         /\ engine = [n \in Nodes |-> NewEngine(p[n])]
    /\ net = [n \in Nodes |-> [m \in Nodes |-> <<>>]]
    /\ used = [flaps |-> 0, faults |-> 0, restarts |-> 0, disagg |-> 0,
               ticks |-> 0, total |-> 0]
    /\ issued = [id \in TieIDs |-> 0]

\* One more disturbance of a kind, within its bound.
Use(kind, max) ==
    /\ used[kind] < max /\ used.total < MaxTotal
    /\ used' = [used EXCEPT ![kind] = @ + 1, !.total = @ + 1]

\* Node n's engine becomes e; what it has newly issued is recorded.
Become(n, e) ==
    /\ engine' = [engine EXCEPT ![n] = e]
    /\ issued' = [id \in TieIDs |->
          IF id.orig = n /\ e.lsdb[id] # None /\ e.lsdb[id].seq > issued[id]
          THEN e.lsdb[id].seq ELSE issued[id]]

\* sendFloodPacket, for the packets of all adjacencies.
Sent(n, pkts) ==
    [net EXCEPT ![n] = [m \in Nodes |-> IF m \in engine[n].adjacencies
                                        THEN @[m] \o pkts[m] ELSE @[m]]]

\* A ticker of n fires after or, as a fault, before the last delivery.
TickerFires(n) ==
    \/ (\A m \in Nodes : net[n][m] = <<>>) /\ UNCHANGED used
    \/ (\E m \in Nodes : net[n][m] # <<>>) /\ Use("faults", MaxFaults)

Running(n) == ~engine[n].wedged

AdjacencyUp(n, m) ==
    /\ Running(n) /\ m \in Neighbors(n)
    /\ \/ m \notin engine[n].adjacencies /\ UNCHANGED used
       \/ m \in engine[n].adjacencies /\ Use("flaps", MaxFlaps)
    /\ Become(n, handleAdjChange(n, engine[n], m, TRUE))
    /\ UNCHANGED net

AdjacencyDown(n, m) ==
    /\ Running(n) /\ m \in engine[n].adjacencies /\ Use("flaps", MaxFlaps)
    /\ Become(n, handleAdjChange(n, engine[n], m, FALSE))
    /\ UNCHANGED net

\* A TIE packet in FloodSendCh points to the TIE in the LSDB, which bumpOwnTIE
\* changes in place: until it is encoded, the packet gets the new number too.
Bumped(n, e, pkt) ==
    IF /\ pkt.kind = "TIE" /\ pkt.id.orig = n /\ engine[n].lsdb[pkt.id] # None
       /\ pkt.seq = engine[n].lsdb[pkt.id].seq
       /\ pkt.content = e.lsdb[pkt.id].content
    THEN [pkt EXCEPT !.seq = e.lsdb[pkt.id].seq] ELSE pkt

Receive(n, m) ==
    /\ Running(n) /\ net[m][n] # <<>>
    /\ LET e == handleFloodPacket(n, engine[n], m, Head(net[m][n]))
           rest == [net EXCEPT ![m][n] = Tail(@)]
       IN  /\ Become(n, e)
           /\ \/ net' = rest
              \/ net' = [rest EXCEPT ![n] = [k \in Nodes |->
                           [i \in DOMAIN @[k] |-> Bumped(n, e, @[k][i])]]]
    /\ UNCHANGED used

\* tideTicker: generateAndSendTIDEs.
SendTIDEs(n) ==
    /\ Running(n) /\ engine[n].adjacencies # {}
    /\ TickerFires(n)
    /\ net' = Sent(n, [m \in Nodes |-> TIDEPackets(n, engine[n], m)])
    /\ UNCHANGED <<engine, issued>>

\* txTicker: drainQueues.
DrainQueues(n) ==
    /\ Running(n) /\ TickerFires(n)
    /\ \E m \in engine[n].adjacencies :
         engine[n].tx[m] \cup engine[n].ack[m] \cup engine[n].req[m] # {}
    /\ net' = Sent(n, [m \in Nodes |-> drainPackets(engine[n], m)])
    /\ Become(n, drainQueues(engine[n]))

\* lifetimeTicker: tickLifetimes.
TickLifetimes(n) ==
    /\ Running(n) /\ Use("ticks", MaxTicks)
    /\ Become(n, tickLifetimes(engine[n]))
    /\ UNCHANGED net

\* The agent's disaggregation result arrives.
DisaggUpdate(n, prefixes) ==
    /\ Running(n) /\ Level[n] > LeafLevel /\ Use("disagg", MaxDisagg)
    /\ [dir |-> South, orig |-> n, type |-> PosDisaggTIE] \in TieIDs
    /\ Become(n, handleDisaggUpdate(n, engine[n], prefixes))
    /\ UNCHANGED net

\* The agent of node n restarts with a new engine, perhaps with other local
\* prefixes.  The neighbors need not notice (LieLink).
Restart(n) ==
    /\ Use("restarts", MaxRestarts)
    /\ \E p \in LocalPrefixes[n] : Become(n, NewEngine(p))
    /\ net' = [m \in Nodes |-> [net[m] EXCEPT ![n] = <<>>]]

\* A packet is lost, is delivered twice, or is overtaken by those behind it.
Fault(n, m) ==
    /\ Use("faults", MaxFaults)
    /\ \E i \in DOMAIN net[n][m] : LET rest == RemoveAt(net[n][m], i) IN
         \E s \in {rest, Append(net[n][m], net[n][m][i]),
                   Append(rest, net[n][m][i])} : net' = [net EXCEPT ![n][m] = s]
    /\ UNCHANGED <<engine, issued>>

Next ==
    \E n \in Nodes :
        \/ SendTIDEs(n)
        \/ DrainQueues(n)
        \/ TickLifetimes(n)
        \/ Restart(n)
        \/ \E p \in DisaggSets : DisaggUpdate(n, p)
        \/ \E m \in Nodes : \/ AdjacencyUp(n, m)
                            \/ AdjacencyDown(n, m)
                            \/ Receive(n, m)
                            \/ Fault(n, m)

Spec == Init /\ [][Next]_vars

\* The tickers fire, the receive loops run, and a LIE adjacency that is down
\* comes up again.
FairSpec ==
    /\ Spec
    /\ \A n \in Nodes :
         /\ SF_vars(SendTIDEs(n)) /\ SF_vars(DrainQueues(n))
         /\ \A m \in Nodes : /\ WF_vars(Receive(n, m))
                             /\ WF_vars(AdjacencyUp(n, m)
                                        /\ m \notin engine[n].adjacencies)

-----------------------------------------------------------------------------
(* Properties *)

\* The variables keep their types.
TypeOK ==
    /\ engine \in [Nodes -> Engine]
    /\ \A n \in Nodes :
         /\ \A id \in Held(engine[n]) : engine[n].lsdb[id].self <=> id.orig = n
         /\ engine[n].adjacencies \subseteq Neighbors(n)
    /\ issued \in [TieIDs -> Nat]

\* The TIE packets in flight.
TIEsInFlight ==
    UNION {UNION {{net[n][m][i] : i \in {j \in 1..Len(net[n][m]) :
                                          net[n][m][j].kind = "TIE"}}
                  : m \in Nodes} : n \in Nodes}

\* The copies of a TIE, in the LSDBs and on the wire, as <<version, content>>.
Copies(id) ==
    {<<engine[n].lsdb[id].seq, engine[n].lsdb[id].content>> :
        n \in {k \in Nodes : engine[k].lsdb[id] # None}}
    \cup {<<t.seq, t.content>> : t \in {u \in TIEsInFlight : u.id = id}}

\* CompareTIEHeader takes two copies with one sequence number for the same TIE.
\* While no node has restarted it is right to: no version of a TIE has two
\* contents, however copies are delayed, duplicated, sent back or bumped.
VersionDeterminesContent ==
    used.restarts = 0 =>
        \A id \in TieIDs : \A c, d \in Copies(id) : c[1] = d[1] => c[2] = d[2]

\* Nobody has a version its originator never issued; and while nobody has
\* restarted, the originator's own copy is the newest there is, so that no
\* engine is ever told a higher number for its own TIE.
OriginatorIsAhead ==
    \A id \in TieIDs : \A c \in Copies(id) :
        /\ c[1] <= issued[id]
        /\ used.restarts = 0 =>
             /\ engine[id.orig].lsdb[id] # None
             /\ c[1] <= engine[id.orig].lsdb[id].seq

\* The flooding scope of TIE id has node n in it.
MayHold(n, id) ==
    \/ id.orig = n
    \/ id.dir = North /\ Level[id.orig] < Level[n]
    \/ id.dir = South /\ id.type = NodeTIE
    \/ id.dir = South /\ Level[id.orig] > Level[n]

\* ARCHITECTURE.md M2: a node holds only TIEs within its flooding scope.  North
\* TIEs climb, prefix TIEs of the south reach only lower levels, and a leaf
\* never holds another leaf's North TIE, whatever TIDEs and requests say.
ScopeRespected ==
    \A n \in Nodes : \A id \in Held(engine[n]) : MayHold(n, id)

\* An engine never goes back to an older version of a TIE (a restart aside).
NoRegression ==
    [][\A n \in Nodes : \A id \in TieIDs :
          /\ used'.restarts = used.restarts
          /\ engine[n].lsdb[id] # None /\ engine'[n].lsdb[id] # None
          => engine'[n].lsdb[id].seq >= engine[n].lsdb[id].seq]_vars

\* The scope rules of sender and receiver let TIE id go from n to m.
FloodsTo(n, m, id) ==
    /\ m \in Neighbors(n)
    /\ ShouldFloodTIE(id, n, Level[n], Level[m])
    /\ shouldAcceptTIE(id, m, Level[m], Level[n])

\* Node n must end up with TIE id: it is flooded there in one hop or in two,
\* which is as far as any TIE travels in the fabrics that are checked.
InScope(n, id) ==
    /\ n # id.orig
    /\ \/ FloodsTo(id.orig, n, id)
       \/ \E k \in Nodes : FloodsTo(id.orig, k, id) /\ FloodsTo(k, n, id)

\* Every node has the originator's version and content of the TIEs it needs.
Synced ==
    \A id \in TieIDs : LET own == engine[id.orig].lsdb[id] IN
        own # None => \A n \in Nodes : InScope(n, id) =>
            LET copy == engine[n].lsdb[id] IN
            copy # None /\ copy.seq = own.seq /\ copy.content = own.content

\* Once flaps, faults and restarts have stopped, the LSDBs synchronise and
\* stay so: a packet lost or dropped anywhere is made up for by TIDEs.
Converges == <>[]Synced

\* flood.go:494: tickLifetimes "decrements all TIE lifetimes and handles expiry
\* and re-origination": the engine goes on after it.
EngineKeepsRunning == \A n \in Nodes : Running(n)
=============================================================================
