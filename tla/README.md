# srl-rift in TLA+

A verification project for srl-rift, a RIFT (RFC 9692) routing agent for Nokia
SR Linux. The modules are translated from the Go code, `TLC` checks them on
small instances, and `TLAPS` proves the main invariants for every value of the
constants. `PROJECT.json` maps each definition to the lines it models and lists
the runs, mutants, findings, hazards and theorems.

## 1. The system

| Part | Code | State | Operations | Correct when |
|---|---|---|---|---|
| LIE FSM | `internal/lie` | state, current neighbor, two clocks, event queue | ticks, received LIEs, 15 events in 4 states | the handshake is two-sided, the neighbor is dropped after its holdtime, the agent hears of every change |
| Flood engine | `internal/tie` | LSDB, adjacencies with their TX/ACK/REQ queues, own prefixes | origination, TIE/TIDE/TIRE handlers, tickers | LSDBs synchronise, versions only grow, TIEs stay in scope |
| Agent | `internal/agent` | configuration, running interfaces, channels, SPF timer, programmed routes | NDK, configuration, adjacency and LSDB events; route sync | goroutines and sockets are neither lost nor doubled, routes follow the LSDB |
| SPF | `internal/spf` | the two RIBs | northbound, southbound (Dijkstra), disaggregation | routes are those of all shortest paths; in the fabric traffic arrives where there is a way |
| Transport | `internal/transport` | multicast and flood sockets | open, close, receive loops, send | no use of a closed or nil socket |
| NDK client | `internal/ndk` | gRPC clients | routes, next-hop groups, notifications, telemetry | - |
| Encoding, configuration | `internal/encoding`, `internal/config` | none | Thrift codec, envelope, JSON | round trip |

How they interact. Each interface has a LIE goroutine, fed by a receive loop
and a one-second ticker, that sends `AdjacencyEvent`s on a channel shared with
the agent's event loop. The event loop opens the interface's flood socket,
starts its receive loop and forwards the change on `AdjChangeCh` to the flood
engine, a goroutine of its own. The flood engine writes packets to
`FloodSendCh` (dropped when full), from which one goroutine sends on the
sockets that the event loop opens and closes. It signals a changed LSDB by one
token in `LSDBChangeCh`; the event loop debounces with a timer, runs SPF on
snapshots of LSDB and adjacencies, sends what is to be disaggregated back on
`DisaggUpdateCh`, and programs routes by a sequence of NDK calls.

What is hard here: event queues and channels between goroutines whose states
move on meanwhile; lost, repeated and reordered packets; restarts that forget
sequence numbers; holdtimes and lifetimes; single-slot channels; in-place
changes of shared packets; NDK calls that fail half-way; route computations on
TIEs of different age, in the random order of Go's maps and of ties in a heap.
The hazards are listed by line in `PROJECT.json`.

## 2. The modules

| Module | Models | Notes |
|---|---|---|
| `LieFsm` | `lie/fsm.go` as operators on one FSM value | same function names; `drainOne` is one turn of `drainQueue` |
| `LieInterface` | one FSM, its goroutine, an arbitrary link and a slow agent | `stateChangeCh` is bounded: a full channel blocks |
| `LieSteps`, `LieView` | abstract: the states and steps of an FSM as the agent sees them, and the channel that announces them | `LieInterface` implements `LieView`; `AgentInterfaces` is built on its steps |
| `LieLink` | the FSMs of a link's stations, with loss, restart and replacement of a station | a LIE that is not lost arrives within its second |
| `Tie` | TIE IDs and the scope rules of `tie/scope.go` | shared by flooding and SPF |
| `FloodEngine` | `tie/flood.go`, `originate.go`, `lsdb.go` as operators on one engine value | |
| `Flooding` | engines on the links of a fabric, with flaps, faults, restarts, ageing | `net[n][m]` is all between two engines' channels |
| `AgentInterfaces` | interface start/stop, configuration, adjacency events, flood sockets, the goroutines that use them | a step per shared access: check and use of a socket are separate |
| `AgentSpf` | LSDB change to SPF, disaggregation and route sync on one node | what SPF computes is a parameter |
| `RouteSync` | `syncRoutes` and the five NDK calls, each of which may fail | a failed call may have had its effect, or part of it |
| `Spf` | `spf/*.go` as operators on a snapshot of LSDB and adjacencies | one turn of Dijkstra's loop is `Visit`; what may depend on ties in the heap is a set of results |
| `ShortestPaths` | abstract: the routes of all shortest paths, by enumerating paths | |
| `Southbound` | `ComputeSouthbound` step by step | implements `ShortestPaths` |
| `Fabric` | adjacencies, TIEs, SPF, disaggregation and FIBs of all nodes of a two-level fabric | composes `Spf` and `Tie` with what the other modules show |
| `LieFsmProofs`, `LieInterfaceProofs`, `LieLinkProofs`, `FloodingProofs`, `AgentInterfacesProofs`, `AgentSpfProofs`, `RouteSyncProofs`, `SpfProofs` | lemmas and theorems | those of `LieFsmProofs` serve the interface and the link; `SpfProofs` is about `Spf`, `Southbound` and `Fabric` |
| `MC*` | instances for TLC | |

Abstractions. Time is in whole seconds and clocks saturate past the longest
timeout. A TIE is its ID, sequence number, lifetime and a set as its content;
TIENr is always 1 in the code and is left out. There is one link between two
nodes, so that a next hop is a neighbor. Logging, telemetry and byte formats are
left out. In `AgentInterfaces` the FSM is reduced to the steps of `LieSteps`
(MultipleNeighborsWait is another OneWay, and its end a second OneWay event);
that this is sound is the refinement `ImplementsLieView`.

`Fabric` takes the layers below it at their word: an adjacency follows its link
at each end in its own time (shown by `lie_link` and `agent_interfaces`), a TIE
in scope gets over an adjacency that both ends have (`flood_converge`), SPF runs
after a change (`agent_spf`) and its routes get into the FIB (`route_sync`). A
version there counts changes of content: the code issues the same TIE again
with a higher number, which changes no route. Steps that would change nothing
(an SPF run with the same result) are left out.

A definition named `X_Y` is a deliberately wrong version of `X` (a mutant):
each property is violated when `PROJECT.json`'s mutant for it takes the place
of `X`. Nothing else uses them.

## 3. The runs

`tlc -workers 2 -config <cfg> <module>` in this directory.

| Run | cfg | Shows |
|---|---|---|
| lie_interface | MCLieInterface | 14 kinds of LIE in any order: every branch of `processLIE`. The interface implements `LieView` (ThreeWay only from TwoWay; every change announced once, in order, whatever the agent's pace), reflections never outlive their neighbor, the agent has the FSM's neighbor, the holdtime bounds it, and the wait for multiple neighbors is not cut short and ends although LIEs keep arriving |
| lie_link | MCLieLink | three lost LIEs and two restarts or replacements: a one-sided adjacency ends within the holdtime, no restart looks like a second neighbor, and the adjacency comes up for good, after the wait if a station was replaced |
| flood_safety | MCFloodSafety | two leaves under a spine, any three disturbances: one version has one content, no engine is told a higher number for its own TIE, no engine goes back, no leaf holds the other's North TIE |
| flood_converge | MCFloodConverge | LSDBs synchronise in spite of any two of a fault, a restart, ageing and disaggregation updates, with one header per TIDE, so that every boundary between chunks occurs |
| agent_interfaces | MCAgentInterfaces | receive loops, sockets and the flood engine's adjacencies through up, down, stop, start and reconfiguration of two interfaces with events in flight |
| agent_progress | MCAgentProgress | no cycle of full channels; cancelled loops end |
| agent_spf | MCAgentSpf | no change of the LSDB is missed; routes and disaggregation catch up |
| route_sync | MCRouteSync | any three calls fail: the next clean sync sets the routes right, no clean step withdraws a route that stays, groups exist before routes refer to them, and a group is wrong only if its own update failed or went unrecorded |
| spf_south | MCSouthbound | `ComputeSouthbound` on 1900 topologies, for every order of equally near nodes: the loop's invariant, the equations of shortest paths, and the refinement of `ShortestPaths` |
| fabric | MCFabric | links fail and recover in a fabric: traffic between leaves that are not affected arrives at every moment; in the end all traffic for which there is a way arrives, and exactly the prefixes of partially connected leaves are disaggregated |

Runs that end in a violation, each of a sentence of the documentation or a
comment in the code:

| Run | What the code does |
|---|---|
| lie_foreign | A LIE with another major version (or an illegal or own system ID) calls `cleanup` without an event. The FSM stays in ThreeWay with no neighbor and a zero `lastLIERcvd`, so `checkHoldtime` never fires: the adjacency outlives every holdtime. |
| flood_wedge | `tickLifetimes` re-originates inside `ForEachSorted`, whose read lock `Insert` wants for writing: the engine's goroutine waits for itself. |

Some properties hold only with an exception they state, and the exception is
the code's doing:

- `EventsAreHandled` and `CancelledLoopsEnd` hold up to a panic: `SendFlood` and
  `FloodRecvLoop` check `floodConn`, and the event loop may set it to nil before
  they use it.
- `SpfSettlesWithoutDisagg`: while anything is disaggregated, each update counts
  as a change of the LSDB (`insertSelfOriginated` always returns true), so SPF
  runs again every 100 ms.
- `WrongOnlyIfSuspect`: a next-hop group whose update failed is recorded as
  programmed and not tried again while its next hops stay the same; and after a
  failed SyncStart the updated groups are not recorded, so that a RIB that goes
  back to the old next hops leaves the new ones in place. The history variable
  `suspect` holds exactly these.
- `FollowsLie` is about interfaces that were never stopped:
  `stopInterfaceLocked` does not tell the flood engine, and later events find no
  interface, so that a stopped one stays in the map (docs/ARCHITECTURE.md:359
  says it drops to one-way).
- `Converges` is checked for restarts with the same local prefixes. A restarted
  node numbers from 1 again (`originate.go:194`); if its TIE has other content
  than the old one with that number, both compare as equal and the neighbor
  keeps the old one (`LocalPrefixes` with two sets for one node shows it).
- `TrafficFlows` is about the end: between a failure, or a recovery, and the
  disaggregation that answers it, traffic of the leaf concerned is lost.
  `BystandersUndisturbed` says that nobody else's is.
- `DisaggSettles` is about spines that share a leaf with every other spine: the
  others cannot know what a spine has lost.

### Bounds

Every bound is a constant. `StateChangeCap`, `AdjEventCap` and `AdjChangeCap`
are 1 or 2 so that channels fill up. Holdtimes and timeouts keep their order
(holdtime < multiple-neighbors timeout < `AgeCap`) at values of a few seconds.
In `Flooding` each kind of disturbance has a bound, and `MaxTotal` bounds them
together: `flood_safety` lets a flap or a restart meet an old packet and its
duplicate, `flood_converge` lets any two kinds meet. `flood_safety` follows one
TIE, for the engine treats TIEs separately except in TIDE ranges, which
`flood_converge` covers with two TIEs and one header per TIDE. TIEs are
re-originated `ReoriginateBeforeExpiry` before their end; since that step stops
the engine (flood_wedge), the other runs keep to fewer ticks. Two instances and
two sockets per interface allow events and loops of an old instance to meet a
new one; the two interfaces are interchangeable, and the run uses that symmetry
(it checks invariants only). `MCRouteSync` takes two prefixes over all lists of
two next hops.

`MCSouthbound` takes node 1 above 2 above 3 above 4 and every set of the six
links, each missing, of no given cost (which counts as 1), of cost 3 (so that
detours are shorter, or just as long), or listed from above only; with an
overloaded node and with an adjacency that the TIE still lists. Four nodes allow
a node to be queued twice, a tie between nodes at different depth, and next hops
inherited over two nodes. `MCFabric` takes two spines and three leaves, of which
two share a prefix, and ten starts: whole with any link of a spine to fail, with
one to recover, with two links lost already and a third to fail; and the square
of two leaves with a failure and recovery of one link, failures of two links of
different spines, and the loss of all links of a spine. Two spines are the least
for disaggregation; a third leaf is what bystanders need.

No bound is in a theorem: the constants are arbitrary there.

### Fairness

- Goroutines that can run do run: weak fairness of each step (Go's scheduler).
- Go's `select` picks at random, so a case that is ready again and again is
  taken: strong fairness of the ticker's cases and of `SpfSnapshot`.
- Seconds pass and timers fire.
- `Flooding`: an adjacency that is down comes up again; `lie_link` shows that
  it does. Losses, faults, flaps and restarts are bounded in number, so that
  from some point on there are none: without this nothing converges.
- `AgentInterfaces`: on a socket in use packets keep arriving (TIDEs every few
  seconds). A cancelled receive loop that has slipped to the transport's next
  socket needs one to notice.

- `Southbound`: the loop runs. `Fabric`: weak fairness of everything but the
  links: what the modules below it show to happen in the end does happen. Links
  change a bounded number of times.

Deadlock is checked for the LIE modules, where a second can always pass. The
others come to rest when their bounds are used up, and so does the system when
nothing happens; there progress is stated as a liveness property instead.

## 4. The proofs

`tlapm <module>` checks them. Assumptions are the named `ASSUME`s on constants
of the modules, which TLC also evaluates.

**LieFsmProofs.** No theorem of a specification, but what both LIE modules need
of the FSM. `QueueOrder` says which events can wait behind which: an outside
stimulus is alone in the queue, an event that leads to OneWay is the last one
and has no NewNeighbor before it, a neighbor is new once, and events about the
neighbor need one. `OneWayNeighborIsNew` says that OneWay with a neighbor has
NewNeighbor queued. Lemmas state what each helper pushes and changes; `DrainOne`
combines them for each state's table and shows that both are kept. `Turn` then
says what one turn of `drainQueue` does, without the tables: it hears a LIE
(`Forgets`, `Introduces`, `Contradicts` or `Confirms` the neighbor), advances,
leaves for OneWay, ticks or passes. `DrainOneTurn` shows that every turn is one
of these, with the queue seen as the set of its events. The proofs below split
on the cases of `Turn`.

**LieInterfaceProofs.** `TypeOK /\ LieInv` is inductive for any set of packets,
identity, channel capacity and timeouts. That the agent is told the truth is
not inductive by itself: `enterState` copies the neighbor, so one needs to know
which events can be processed in which state, which is `QueueOrder`. Results:
`Invariance`, `NotificationsCarryNeighbor`, `AgentStateIsCurrent`,
`OneWayIsClean`. `ViewRefinement` adds the step simulation of `LieView`:
`DrainOne` also says that a notification is a step of `LieStep`, which needs
`QueueOrder` (in OneWay the table has a transition to ThreeWay, but no
reflection is ever queued there), and `AnnouncedFacts` that the projection of
the channel commutes with sending and receiving.

`NeighborInv` is about the neighbor and the clocks: MultipleNeighborsDone is
queued only when it is due; a clock that has run out has a tick or
HoldtimeExpired coming; the clock counts the silence of the current neighbor;
and in ThreeWay the last notification is of the current neighbor unless
NewNeighbor is queued. From it follow `HoldtimeBounds`, `AgentNeighborIsCurrent`
and, as an action property, `WaitIsWhole`.

**LieLinkProofs.** `LinkInv` holds for any number of stations and any losses,
restarts and replacements. It follows a reflection round the link: a LIE on its
way that reflects a station is from one that has seen it in this very second
(the link is timely), so the FSM that takes it as a ValidReflection was seen no
earlier than it heard it, and in ThreeWay this stays so while both clocks run,
unless an event that ends ThreeWay is queued. With `Clocked` this gives
`OneSidedBounded`. `PeerInv` adds that a station has heard, is hearing and will
hear of one other station only; it needs the hypothesis `PointToPoint`, that two
stations are on the link at first, which `MCLieLink`'s satisfy. Among three the
multiple-neighbors wait is no false alarm. `NoFalseNeighbors` follows: a restart
changes nothing that the other compares, and a LIE sent before it still reflects
nobody or the peer.

**FloodingProofs.** For fabrics of any size, any TIEs and any bound on
disturbances. `Inv` has the types (own TIEs, and only these, marked as such;
packets well-formed), own TIEs alive as long as the engine runs, every packet in
the scope of the link it is on, one content per version, and the originator
ahead of everyone. Handlers are described by what they do to an LSDB
(`Reissues`: an entry is kept, or it is an own one that gets a higher number),
and a step by `Evolves`: the only copies it adds are of what was there or of
what the originator holds afterwards. That is enough for one content per version
and for `OriginatorIsAhead`, whichever handler it was; `NeverBack` is the same
argument about one LSDB. A packet in flight shares its TIE with the LSDB entry
whose sequence number `bumpOwnTIE` changes in place; `Bumped` is that case. The
assumption on lifetimes, `ReoriginateBeforeExpiry \in 2..DefaultLifetime`, is
3600 s of 604800 s in the code; with it a node's own TIE never expires.

**AgentInterfacesProofs.** For any interfaces, instances, sockets and channel
capacities. `Inv` says that a running interface has an instance of its own,
that `floodCancel` names the one receive loop of the instance that is not
cancelled, whose socket is open (`Loops`), that a socket that is not closed is
owned (`Sockets`), and, for interfaces never stopped, what the two channels will
have told the flood engine when they are empty (`Follows`): the last event on
its way is the FSM's state, and what is not on its way has been told. The
handler's steps, between which other goroutines run, are part of it: `Follows`
says at each of them what is still owed. Results: `LoopsServe`,
`SocketsAreOwned`, `AdjacenciesFollow`.

**SpfProofs, the algorithms.** `DijkstraInv` is inductive for any number of
nodes, any links of positive cost and any choice among equally near items. Two
things make it so: nothing in the queue is nearer than a settled node, and the
next hops of a reached node are the union over its *settled* tight predecessors.
A stale item changes neither (`StaleVisit`); a fresh one settles its node, whose
links then satisfy both (`FreshVisit`, from the positive costs: a settled node
never becomes nearer, nor gets a new tight predecessor). At the end all reached
nodes are settled: `EquationsSolved`.

That the equations have the shortest paths as their only solution is proved by
going along a path. No path is shorter than the distance of its end
(`NoPathIsShorter`), and the first hop of one that is as short is a next hop of
every node on it (`FirstHopIsNextHop`); in the other direction every next hop of
a reached node is the first hop of some path of that length, built up link by
link (`NextHopIsFirstHop`, over the distances). `PathsOfSolution` says both.
`AddAllBest` says what `addRoute` leaves behind after any finite set of
candidates, in any order: the best of them with the next hops of all that are as
good (`AddRouteCommutes` is the case of two). Together these give
`RoutesOfShortestPaths`: `Southbound` implements `ShortestPaths`, fairness
aside. Assumed are a finite set of nodes, positive costs, and Prefix TIEs that
map known prefixes to numbers (`SnapshotsAssumption`), and that `None` is none
of the values it stands beside (`NoneAssumption`).

The library's induction theorems take an operator, which the provers cannot
instantiate. The inductions here are about a set instead: `SetInduction` (a set
that has a subset of S whenever it has all smaller ones has all, from the
library's well-foundedness of the strict subsets of a finite set) and
`NumberInduction`, which follows from it. With them recursive functions are
unfolded: `CostsExist` and `CostsAreUnique` for the costs along a path,
`Iteration` for the turns in `ComputeSouthbound`, `AddAllBest` for the fold.

**SpfProofs, the fabric.** For any number of spines, leaves, prefixes and link
changes. The steps of `Fabric` apply the computations of `Spf` to whatever TIEs
a node has, so these are brought into closed form first: `SpineComputes` (the
routes of a spine are those to the leaves below with a backlink, and what it
disaggregates are the prefixes of those that a peer with a common leaf does not
list) and `LeafComputes` (a default route over all spines that list the leaf,
and a route to a prefix over those that disaggregate it). A spine's loop has two
layers only: after the turn that visits the spine itself, no turn changes
anything but the queue.

`FabricInv` is then inductive. A node's own TIE lists its adjacencies; what is
held was issued by its originator, with its number and content (`FabricTypeOK`).
And, as `BystandersUndisturbed` by itself says nothing of TIEs: what adjacencies,
TIEs, updates under way and routes say of links to leaves that were not touched
is true. For disaggregation that means two things: a spine that disaggregates
such a prefix can deliver it, and one that can does disaggregate it if a leaf
that was not touched has both this spine and one that cannot. These are
predicates of the links L and the touched leaves T: a link change adds its leaf
to T, and what was true of the smaller set of steady leaves stays true. From it
follows `FabricBystanders`. (TLC finds `FabricInv` to hold on the instance of
`MCFabric` too.)

**AgentSpfProofs.** `NoLostWakeup` together with `TypeOK` is inductive: unless a
token, a timer, a tick or a notification is pending, the SPF run under way has
read the present LSDB, and after it RIB and FIB are of the present state.
`WakeupsAreNotLost` and `DisaggSendNeverBlocks` hold for all topologies and any
number of changes.

**RouteSyncProofs.** `RouteInv` follows the window between SyncStart and SyncEnd
and needs nothing about groups: `RoutesAreReplaced` and `RoutesNeverBlink`.
`WrongOnlyIfSuspect` is not inductive: during a sync one must know that what is
left to update accounts for every difference to the new RIB (`GroupInv`), and
for `RoutesNeverDangle` which RIB each route is from (`OriginInv`). All hold
whichever calls fail and however often.

Only model-checked:

- all liveness properties (`WaitEnds`, `AdjacencyForms`, `Converges`,
  `EventsAreHandled`, `CancelledLoopsEnd`, `RoutesCatchUp`, `DisaggCatchesUp`,
  `SpfSettlesWithoutDisagg`, `TrafficFlows`, `DisaggSettles`): fairness and
  ENABLED are out of the prover's reach;
- that `ComputeSouthbound` ends, the fairness part of `ComputesShortestPaths`,
  for the same reason.

All invariants and action properties of the runs are stated by theorems.

## 5. What is not modelled

- Telemetry and keep-alive: they feed nothing back.
- Codec and envelope: byte-level, no interleavings.
- Sockets and addresses as system calls; the NDK's notification stream.
- Configuration parsing, and changes of system ID or level at run time, which
  the running engines ignore.
- `withdrawAllRoutes`, called by `Close` only, which nothing calls, and
  `UpdateLocalPrefixes`, which nothing calls.
- Parallel links between two nodes.

## 6. Plan

Done: the modules above, in the order LIE, flooding, agent, routes, SPF, fabric,
and the refinements of `LieView` and `ShortestPaths`.

1. Refinement: `RouteSync` as an implementation of a replacement of the FIB
   prefix by prefix.
2. Configuration events before the first commit (`waitForConfig`), the case of
   an interface added without a `.rift` event, and a changed system ID or level.
3. A fabric of three levels, in which spines compute northbound routes too and
   disaggregation has to pass a level.
