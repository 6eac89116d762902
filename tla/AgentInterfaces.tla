-------------------------- MODULE AgentInterfaces ---------------------------
(***************************************************************************)
(* The agent's event loop and the goroutines it manages: interfaces start  *)
(* and stop on NDK and configuration events, their LIE goroutines report   *)
(* adjacencies, and the loop opens flood sockets, runs their receive loops *)
(* and tells the flood engine (internal/agent/agent.go; the sockets are    *)
(* those of internal/transport/udp.go).                                    *)
(*                                                                         *)
(* Every start of an interface makes a new instance: a transport and a LIE *)
(* goroutine, which goes on after cancel() until its select notices.  The  *)
(* LIE FSM is reduced to what LieView promises and LieInterface implements *)
(* (ImplementsLieView): the steps of LieStep and the event each one sends. *)
(* A closed channel or socket is one that is no longer read; a transport   *)
(* whose floodConn is nil has None.                                        *)
(***************************************************************************)
EXTENDS LieSteps, Integers, Sequences, FiniteSets

CONSTANTS
    None,
    Ifaces,             \* SRL interface names
    AdjEventCap,        \* capacity of adjEventCh
    AdjChangeCap,       \* capacity of the flood engine's AdjChangeCh
    MaxInstances, MaxSockets, MaxLieChanges, MaxConfigs   \* bounds

\* interfaceState: the instance, and the loop that floodCancel cancels.
InterfaceState == [inst : Nat, floodCancel : {None} \cup Nat]

ASSUME AgentConstants ==
    /\ None \notin Ifaces /\ None \notin Nat /\ None \notin InterfaceState
    /\ {AdjEventCap, AdjChangeCap, MaxInstances} \subseteq Nat \ {0}
    /\ {MaxSockets, MaxLieChanges, MaxConfigs} \subseteq Nat

VARIABLES
    cfg,            \* a.cfg: the configured interfaces
    pendingCfg,     \* a.pendingCfg, or None
    interfaces,     \* a.interfaces: name -> instance and floodCancel, or None
    lie,            \* sequence of instances: the LIE goroutines
    floodConn,      \* sequence of instances: the flood socket, or None
    closed,         \* flood sockets that are closed
    recvLoops,      \* sequence of FloodRecvLoop goroutines
    adjEventCh,     \* from the LIE goroutines
    adjChangeCh,    \* to the flood engine
    adjacencies,    \* the interfaces in the flood engine's adjacency map
    floodSendCh,    \* the interfaces for which a flood packet is queued
    loop,           \* where the event loop is
    sender,         \* where floodSendLoop is
    panicked,       \* a method was called on a nil socket
    used            \* how much of each bound is used up

vars == <<cfg, pendingCfg, interfaces, lie, floodConn, closed, recvLoops,
          adjEventCh, adjChangeCh, adjacencies, floodSendCh, loop, sender,
          panicked, used>>
config == <<cfg, pendingCfg>>
network == <<adjacencies, floodSendCh, sender>>

Select == [pc |-> "select"]
InSelect == loop = Select /\ ~panicked

\* The agent has its first configuration and starts its interfaces.
Init ==
    /\ cfg \in SUBSET Ifaces \ {{}} /\ pendingCfg = None
    /\ interfaces = [i \in Ifaces |-> None]
    /\ lie = <<>> /\ floodConn = <<>> /\ closed = {} /\ recvLoops = <<>>
    /\ adjEventCh = <<>> /\ adjChangeCh = <<>> /\ adjacencies = {}
    /\ floodSendCh = {} /\ loop = [pc |-> "start", todo |-> cfg]
    /\ sender = None /\ panicked = FALSE
    /\ used = [sockets |-> 0, changes |-> 0, configs |-> 0]

-----------------------------------------------------------------------------
(* Interfaces start and stop *)

\* startInterfaceLocked: discovery of the address or a socket may fail.
startInterfaceLocked(i) ==
    IF interfaces[i] # None
    THEN UNCHANGED <<interfaces, lie, floodConn>>
    ELSE \/ UNCHANGED <<interfaces, lie, floodConn>>
         \/ /\ Len(lie) < MaxInstances
            /\ lie' = Append(lie, [iface |-> i, state |-> "OneWay",
                                   cancelled |-> FALSE, exited |-> FALSE])
            /\ floodConn' = Append(floodConn, None)
            /\ interfaces' = [interfaces EXCEPT ![i] =
                                [inst |-> Len(lie) + 1, floodCancel |-> None]]

\* Mutant: the flood receive loops are not cancelled.
stopInterfaceLocked_KeepsLoop(S) ==
    LET stopped == {interfaces[i].inst : i \in S}
    IN  /\ UNCHANGED recvLoops
        /\ lie' = [k \in DOMAIN lie |-> [lie[k] EXCEPT !.cancelled =
                                           @ \/ k \in stopped]]
        /\ closed' = closed \cup ({floodConn[k] : k \in stopped} \ {None})
        /\ interfaces' = [i \in Ifaces |-> IF i \in S THEN None ELSE interfaces[i]]

\* Mutant: the sockets are not closed.
stopInterfaceLocked_KeepsSocket(S) ==
    LET stopped == {interfaces[i].inst : i \in S}
        cancels == {interfaces[i].floodCancel : i \in S}
    IN  /\ recvLoops' = [k \in DOMAIN recvLoops |-> [recvLoops[k] EXCEPT
                           !.cancelled = @ \/ k \in cancels]]
        /\ lie' = [k \in DOMAIN lie |-> [lie[k] EXCEPT !.cancelled =
                                           @ \/ k \in stopped]]
        /\ UNCHANGED closed
        /\ interfaces' = [i \in Ifaces |-> IF i \in S THEN None ELSE interfaces[i]]

\* stopInterfaceLocked for the interfaces of S: cancels the goroutines and
\* closes the sockets, and says nothing to the flood engine.
stopInterfaceLocked(S) ==
    LET stopped == {interfaces[i].inst : i \in S}
        cancels == {interfaces[i].floodCancel : i \in S}
    IN  /\ recvLoops' = [k \in DOMAIN recvLoops |-> [recvLoops[k] EXCEPT
                           !.cancelled = @ \/ k \in cancels]]
        /\ lie' = [k \in DOMAIN lie |-> [lie[k] EXCEPT !.cancelled =
                                           @ \/ k \in stopped]]
        /\ closed' = closed \cup ({floodConn[k] : k \in stopped} \ {None})
        /\ interfaces' = [i \in Ifaces |-> IF i \in S THEN None ELSE interfaces[i]]

Running == {i \in Ifaces : interfaces[i] # None}

\* startConfiguredInterfaces, and the end of handleConfigChange: one interface
\* after another.
StartNext ==
    /\ loop.pc = "start" /\ ~panicked
    /\ IF loop.todo = {}
       THEN loop' = Select /\ UNCHANGED <<interfaces, lie, floodConn>>
       ELSE \E i \in loop.todo :
              /\ startInterfaceLocked(i)
              /\ loop' = [loop EXCEPT !.todo = @ \ {i}]
    /\ UNCHANGED <<config, closed, recvLoops, adjEventCh, adjChangeCh, network,
                   panicked, used>>

\* handleInterfaceEvent; events with all fields zero are ignored.
handleInterfaceEvent(i, operUp) ==
    /\ InSelect /\ i \in cfg
    /\ \/ /\ operUp /\ i \notin Running
          /\ startInterfaceLocked(i) /\ UNCHANGED <<closed, recvLoops>>
       \/ /\ ~operUp /\ i \in Running
          /\ stopInterfaceLocked({i}) /\ UNCHANGED floodConn
    /\ UNCHANGED <<config, adjEventCh, adjChangeCh, network, loop, panicked, used>>

-----------------------------------------------------------------------------
(* processConfigEvent and handleConfigChange, by the event's path *)

\* ".rift": a new configuration, without interfaces so far.
ConfigRift ==
    /\ InSelect /\ used.configs < MaxConfigs
    /\ pendingCfg' = {} /\ used' = [used EXCEPT !.configs = @ + 1]
    /\ UNCHANGED <<cfg, interfaces, lie, floodConn, closed, recvLoops,
                   adjEventCh, adjChangeCh, network, loop, panicked>>

\* ".rift.interface": without a pending configuration the current one changes.
ConfigInterface(i) ==
    /\ InSelect /\ used.configs < MaxConfigs
    /\ IF pendingCfg # None
       THEN pendingCfg' = pendingCfg \cup {i} /\ UNCHANGED cfg
       ELSE cfg' = cfg \cup {i} /\ UNCHANGED pendingCfg
    /\ used' = [used EXCEPT !.configs = @ + 1]
    /\ UNCHANGED <<interfaces, lie, floodConn, closed, recvLoops, adjEventCh,
                   adjChangeCh, network, loop, panicked>>

\* ".commit.end": a configuration without interfaces is not Valid, and is kept
\* without being acted upon.
CommitEnd ==
    /\ InSelect /\ pendingCfg # None
    /\ cfg' = pendingCfg /\ pendingCfg' = None
    /\ IF cfg' = {}
       THEN UNCHANGED <<interfaces, lie, closed, recvLoops, loop>>
       ELSE /\ stopInterfaceLocked(Running \ cfg')
            /\ loop' = [pc |-> "start", todo |-> cfg' \ Running]
    /\ UNCHANGED <<floodConn, adjEventCh, adjChangeCh, network, panicked, used>>

-----------------------------------------------------------------------------
(* The LIE goroutines *)

\* Mutant: the event is queued without regard to the channel's capacity.
LieChanges_NoCapacity(k, s) ==
    /\ ~lie[k].exited /\ ~panicked
    /\ <<lie[k].state, s>> \in LieStep /\ used.changes < MaxLieChanges
    /\ lie' = [lie EXCEPT ![k].state = s]
    /\ adjEventCh' = Append(adjEventCh,
                            [iface |-> lie[k].iface, state |-> s, inst |-> k])
    /\ used' = [used EXCEPT !.changes = @ + 1]
    /\ UNCHANGED <<config, interfaces, floodConn, closed, recvLoops,
                   adjChangeCh, network, loop, panicked>>

\* enterState: the event is sent, by a send that blocks while adjEventCh is full.
LieChanges(k, s) ==
    /\ ~lie[k].exited /\ ~panicked
    /\ <<lie[k].state, s>> \in LieStep
    /\ Len(adjEventCh) < AdjEventCap /\ used.changes < MaxLieChanges
    /\ lie' = [lie EXCEPT ![k].state = s]
    /\ adjEventCh' = Append(adjEventCh,
                            [iface |-> lie[k].iface, state |-> s, inst |-> k])
    /\ used' = [used EXCEPT !.changes = @ + 1]
    /\ UNCHANGED <<config, interfaces, floodConn, closed, recvLoops,
                   adjChangeCh, network, loop, panicked>>

\* Run's select notices that the context is cancelled.
LieExits(k) ==
    /\ lie[k].cancelled /\ ~lie[k].exited /\ ~panicked
    /\ lie' = [lie EXCEPT ![k].exited = TRUE]
    /\ UNCHANGED <<config, interfaces, floodConn, closed, recvLoops, adjEventCh,
                   adjChangeCh, network, loop, panicked, used>>

-----------------------------------------------------------------------------
(* handleAdjacencyEvent *)

\* OpenFloodSocket on instance k: it may fail, unless the socket is open.
OpenFloodSocket(k) ==
    IF floodConn[k] # None THEN UNCHANGED <<floodConn, used>>
    ELSE /\ used.sockets < MaxSockets
         /\ floodConn' = [floodConn EXCEPT ![k] = used.sockets + 1]
         /\ used' = [used EXCEPT !.sockets = @ + 1]

\* A new FloodRecvLoop goroutine, unless one is running.
StartRecvLoop(i) ==
    IF interfaces[i].floodCancel # None THEN UNCHANGED <<interfaces, recvLoops>>
    ELSE /\ recvLoops' = Append(recvLoops,
                [inst |-> interfaces[i].inst, pc |-> "start", conn |-> None,
                 cancelled |-> FALSE])
         /\ interfaces' = [interfaces EXCEPT ![i].floodCancel =
                             Len(recvLoops) + 1]

\* The next event: the interface is found by its name.  An event of ThreeWay
\* opens the socket before the flood engine is told.
TakeAdjEvent ==
    /\ InSelect /\ adjEventCh # <<>>
    /\ adjEventCh' = Tail(adjEventCh)
    /\ LET ev == Head(adjEventCh)
           i == ev.iface
       IN  \/ /\ i \notin Running
              /\ UNCHANGED <<interfaces, floodConn, recvLoops, loop, used>>
           \/ /\ i \in Running /\ ev.state = "ThreeWay"
              /\ OpenFloodSocket(interfaces[i].inst) /\ StartRecvLoop(i)
              /\ loop' = [pc |-> "up", iface |-> i]
           \/ \* OpenFloodSocket fails.
              /\ i \in Running /\ ev.state = "ThreeWay"
              /\ floodConn[interfaces[i].inst] = None
              /\ UNCHANGED <<interfaces, floodConn, recvLoops, loop, used>>
           \/ /\ i \in Running /\ ev.state # "ThreeWay"
              /\ loop' = [pc |-> "down", iface |-> i]
              /\ UNCHANGED <<interfaces, floodConn, recvLoops, used>>
    /\ UNCHANGED <<config, lie, closed, adjChangeCh, network, panicked>>

\* Mutant: the send does not block; what finds the channel full is lost.
SendAdjChange_Drops ==
    /\ loop.pc \in {"up", "down"} /\ ~panicked
    /\ adjChangeCh' = IF Len(adjChangeCh) = AdjChangeCap THEN adjChangeCh
                      ELSE Append(adjChangeCh, [iface |-> loop.iface,
                                                up |-> loop.pc = "up"])
    /\ loop' = IF loop.pc = "up" THEN Select ELSE [loop EXCEPT !.pc = "cancel"]
    /\ UNCHANGED <<config, interfaces, lie, floodConn, closed, recvLoops,
                   adjEventCh, network, panicked, used>>

\* The blocking send on AdjChangeCh.
SendAdjChange ==
    /\ loop.pc \in {"up", "down"} /\ ~panicked
    /\ Len(adjChangeCh) < AdjChangeCap
    /\ adjChangeCh' = Append(adjChangeCh,
                             [iface |-> loop.iface, up |-> loop.pc = "up"])
    /\ loop' = IF loop.pc = "up" THEN Select ELSE [loop EXCEPT !.pc = "cancel"]
    /\ UNCHANGED <<config, interfaces, lie, floodConn, closed, recvLoops,
                   adjEventCh, network, panicked, used>>

\* Mutant: the event loop waits for the receive loop before cancelling it.
CancelRecvLoop_Waits ==
    /\ loop.pc = "cancel" /\ ~panicked
    /\ LET k == interfaces[loop.iface].floodCancel IN
         IF k = None THEN TRUE ELSE recvLoops[k].pc = "exited"
    /\ loop' = [loop EXCEPT !.pc = "close"]
    /\ UNCHANGED <<config, interfaces, lie, floodConn, closed, recvLoops,
                   adjEventCh, adjChangeCh, network, panicked, used>>

\* floodCancel() and floodCancel = nil.
CancelRecvLoop ==
    /\ loop.pc = "cancel" /\ ~panicked
    /\ LET k == interfaces[loop.iface].floodCancel IN
         recvLoops' = IF k = None THEN recvLoops
                      ELSE [recvLoops EXCEPT ![k].cancelled = TRUE]
    /\ interfaces' = [interfaces EXCEPT ![loop.iface].floodCancel = None]
    /\ loop' = [loop EXCEPT !.pc = "close"]
    /\ UNCHANGED <<config, lie, floodConn, closed, adjEventCh, adjChangeCh,
                   network, panicked, used>>

\* Mutant: the socket is forgotten without being closed.
CloseFloodSocket_Forgets ==
    /\ loop.pc = "close" /\ ~panicked
    /\ floodConn' = [floodConn EXCEPT ![interfaces[loop.iface].inst] = None]
    /\ loop' = Select
    /\ UNCHANGED <<config, interfaces, lie, closed, recvLoops, adjEventCh,
                   adjChangeCh, network, panicked, used>>

CloseFloodSocket ==
    /\ loop.pc = "close" /\ ~panicked
    /\ LET k == interfaces[loop.iface].inst IN
         /\ closed' = closed \cup ({floodConn[k]} \ {None})
         /\ floodConn' = [floodConn EXCEPT ![k] = None]
    /\ loop' = Select
    /\ UNCHANGED <<config, interfaces, lie, recvLoops, adjEventCh, adjChangeCh,
                   network, panicked, used>>

-----------------------------------------------------------------------------
(* The flood engine's side, and the goroutines that use the sockets *)

\* handleAdjChange of the flood engine.
EngineAdjChange ==
    /\ adjChangeCh # <<>> /\ ~panicked
    /\ adjChangeCh' = Tail(adjChangeCh)
    /\ adjacencies' = IF Head(adjChangeCh).up
                      THEN adjacencies \cup {Head(adjChangeCh).iface}
                      ELSE adjacencies \ {Head(adjChangeCh).iface}
    /\ UNCHANGED <<config, interfaces, lie, floodConn, closed, recvLoops,
                   adjEventCh, floodSendCh, loop, sender, panicked, used>>

EngineSends(i) ==
    /\ i \in adjacencies \ floodSendCh /\ ~panicked
    /\ floodSendCh' = floodSendCh \cup {i}
    /\ UNCHANGED <<config, interfaces, lie, floodConn, closed, recvLoops,
                   adjEventCh, adjChangeCh, adjacencies, loop, sender,
                   panicked, used>>

\* floodSendLoop looks the interface up; SendFlood finds its socket open ...
SenderChecks(i) ==
    /\ sender = None /\ i \in floodSendCh /\ ~panicked
    /\ floodSendCh' = floodSendCh \ {i}
    /\ sender' = IF i \in Running /\ floodConn[interfaces[i].inst] # None
                 THEN interfaces[i].inst ELSE None
    /\ UNCHANGED <<config, interfaces, lie, floodConn, closed, recvLoops,
                   adjEventCh, adjChangeCh, adjacencies, loop, panicked, used>>

\* ... and writes to it: floodConn is read again, without a lock.
SenderWrites ==
    /\ sender # None /\ ~panicked
    /\ panicked' = (floodConn[sender] = None)
    /\ sender' = None
    /\ UNCHANGED <<config, interfaces, lie, floodConn, closed, recvLoops,
                   adjEventCh, adjChangeCh, adjacencies, floodSendCh, loop, used>>

\* FloodRecvLoop: the check of floodConn, the check of the context, the call of
\* floodConn.ReadFrom and its return with an error once the socket is closed.
RecvLoopStep(k) ==
    LET r == recvLoops[k]
        conn == floodConn[r.inst]
        Goto(pc) == recvLoops' = [recvLoops EXCEPT ![k].pc = pc]
    IN  /\ ~panicked
        /\ \/ /\ r.pc = "start" /\ UNCHANGED panicked
              /\ Goto(IF conn = None THEN "exited" ELSE "check")
           \/ /\ r.pc = "check" /\ UNCHANGED panicked
              /\ Goto(IF r.cancelled THEN "exited" ELSE "call")
           \/ /\ r.pc = "call" /\ panicked' = (conn = None)
              /\ recvLoops' = [recvLoops EXCEPT ![k].pc = "read", ![k].conn = conn]
           \/ /\ r.pc = "read" /\ r.conn \in closed /\ UNCHANGED panicked
              /\ Goto(IF r.cancelled THEN "exited" ELSE "check")
        /\ UNCHANGED <<config, interfaces, lie, floodConn, closed, adjEventCh,
                       adjChangeCh, network, loop, used>>

\* ReadFrom returns a packet, which goes to floodRecvCh or is dropped for
\* ctx.Done.
RecvPacket(k) ==
    /\ recvLoops[k].pc = "read" /\ recvLoops[k].conn \notin closed /\ ~panicked
    /\ \E pc \in {"check"} \cup (IF recvLoops[k].cancelled THEN {"exited"} ELSE {}) :
         recvLoops' = [recvLoops EXCEPT ![k].pc = pc]
    /\ UNCHANGED <<config, interfaces, lie, floodConn, closed, adjEventCh,
                   adjChangeCh, network, loop, panicked, used>>

Next ==
    \/ StartNext
    \/ \E i \in Ifaces : \/ \E up \in BOOLEAN : handleInterfaceEvent(i, up)
                         \/ ConfigInterface(i)
                         \/ EngineSends(i)
                         \/ SenderChecks(i)
    \/ ConfigRift
    \/ CommitEnd
    \/ \E k \in 1..Len(lie) : LieExits(k) \/ \E s \in LieState : LieChanges(k, s)
    \/ TakeAdjEvent
    \/ SendAdjChange
    \/ CancelRecvLoop
    \/ CloseFloodSocket
    \/ EngineAdjChange
    \/ SenderWrites
    \/ \E k \in 1..Len(recvLoops) : RecvLoopStep(k) \/ RecvPacket(k)

Spec == Init /\ [][Next]_vars

\* Every goroutine is scheduled, and on the socket of an adjacency that is up
\* the neighbor's TIDEs keep arriving.
FairSpec ==
    /\ Spec
    /\ WF_vars(StartNext) /\ WF_vars(TakeAdjEvent) /\ WF_vars(SendAdjChange)
    /\ WF_vars(CancelRecvLoop) /\ WF_vars(CloseFloodSocket)
    /\ WF_vars(EngineAdjChange) /\ WF_vars(SenderWrites)
    /\ \A k \in 1..MaxInstances : WF_vars(k <= Len(lie) /\ LieExits(k))
    /\ \A k \in 1..MaxSockets + MaxLieChanges :
         /\ WF_vars(k <= Len(recvLoops) /\ RecvLoopStep(k))
         /\ WF_vars(/\ k <= Len(recvLoops)
                    /\ floodConn[recvLoops[k].inst] = recvLoops[k].conn
                    /\ RecvPacket(k))

-----------------------------------------------------------------------------
(* Properties *)

\* The variables keep their types.
TypeOK ==
    /\ cfg \subseteq Ifaces
    /\ pendingCfg = None \/ pendingCfg \subseteq Ifaces
    /\ \A i \in Running :
         /\ interfaces[i].inst \in 1..Len(lie)
         /\ interfaces[i].floodCancel \in {None} \cup 1..Len(recvLoops)
    /\ \A k \in 1..Len(lie) : lie[k].state \in LieState
    /\ Len(floodConn) = Len(lie)
    /\ \A k \in 1..Len(floodConn) : floodConn[k] \in {None} \cup 1..used.sockets
    /\ closed \subseteq 1..used.sockets
    /\ Len(adjEventCh) <= AdjEventCap /\ Len(adjChangeCh) <= AdjChangeCap
    /\ adjacencies \subseteq Ifaces /\ floodSendCh \subseteq Ifaces

\* floodCancel says whether a receive loop serves the interface: where it is
\* set, exactly one loop that is not cancelled reads for this instance, and has
\* not given up; where it is nil, or the interface is gone, none does.
OneReceiveLoop ==
    \A k \in 1..Len(recvLoops) :
        ~recvLoops[k].cancelled
            <=> \E i \in Running : /\ interfaces[i].floodCancel = k
                                   /\ interfaces[i].inst = recvLoops[k].inst
ReceiveLoopServes ==
    /\ OneReceiveLoop
    /\ \A k \in 1..Len(recvLoops) :
         ~recvLoops[k].cancelled => recvLoops[k].pc # "exited"

\* No flood socket outlives its interface, and none is lost: a socket that is
\* not closed is the floodConn of a running instance.
NoSocketLeak ==
    \A c \in 1..used.sockets : c \notin closed =>
        \E i \in Running : floodConn[interfaces[i].inst] = c

\* Nothing that an instance or the event loop has to do is pending.
Quiescent == adjEventCh = <<>> /\ adjChangeCh = <<>> /\ loop = Select

\* The flood engine's adjacencies follow the LIE FSMs through the two channels:
\* once these are empty, an interface whose FSM left ThreeWay is not in the
\* map, and one that is in ThreeWay is, if its socket could be opened.  This
\* is about interfaces that were never stopped: stopInterfaceLocked does not tell
\* the flood engine, which keeps the adjacency until the next event.
FollowsLie ==
    Quiescent /\ ~panicked =>
        \A i \in Running : LET k == interfaces[i].inst IN
            (\A j \in 1..Len(lie) : lie[j].iface = i => j = k) =>
                /\ i \in adjacencies => lie[k].state = "ThreeWay"
                /\ i \in adjacencies <=> floodConn[k] # None

\* A cancelled receive loop ends: closing its socket wakes it, and one that has
\* slipped to the next socket of its transport leaves with the next packet.
CancelledLoopsEnd ==
    \A k \in 1..MaxSockets + MaxLieChanges :
        (k <= Len(recvLoops) /\ recvLoops[k].cancelled)
            ~> (panicked \/ (k <= Len(recvLoops) /\ recvLoops[k].pc = "exited"))

\* Every adjacency event is handled: no cycle of full channels holds it up.
EventsAreHandled == <>[](panicked \/ Quiescent)
=============================================================================
