---------------------------- MODULE LieInterface ----------------------------
(***************************************************************************)
(* One interface: the goroutine of internal/lie/interface.go around one    *)
(* LIE FSM, its one-second ticker, a link that may deliver any packet of   *)
(* Packets in any order, and the channel to the agent's event loop.        *)
(***************************************************************************)
EXTENDS LieFsm, LieSteps

CONSTANTS
    Self,             \* this node's identity on the interface
    Packets,          \* the LIEs the link may deliver
    AgeCap,           \* bound of the clocks: past every timeout
    StateChangeCap    \* capacity of stateChangeCh (64 in agent.New)

ASSUME InterfaceConstants ==
    /\ Self \in Identity
    /\ Packets \subseteq LiePacket
    /\ AgeCap \in Nat
    /\ MultipleNeighborsTimeout < AgeCap
    /\ \A h \in Holdtimes : h < AgeCap
    /\ StateChangeCap \in Nat \ {0}

VARIABLES
    fsm,             \* the FSM struct
    tickerC,         \* a tick waits in ticker.C (capacity 1)
    stateChangeCh,   \* AdjacencyEvents on their way to the agent
    agentView,       \* the event the agent has handled last
    silence          \* history: seconds since the last valid LIE

vars == <<fsm, tickerC, stateChangeCh, agentView, silence>>

Init ==
    /\ fsm = NewFSM(Self)
    /\ tickerC = FALSE
    /\ stateChangeCh = <<>>
    /\ agentView = [state |-> "OneWay", neighbor |-> None]
    /\ silence = 0

\* A second passes.  A tick that finds the previous one unread is dropped.
SecondElapses ==
    /\ fsm' = AgeFsm(fsm, AgeCap)
    /\ tickerC' = TRUE
    /\ silence' = Older(silence, AgeCap)
    /\ UNCHANGED <<stateChangeCh, agentView>>

\* Run: case <-ticker.C.
TickerFires ==
    /\ Idle(fsm)
    /\ tickerC
    /\ tickerC' = FALSE
    /\ fsm' = Tick(fsm)
    /\ UNCHANGED <<stateChangeCh, agentView, silence>>

\* Run: case pkt := <-i.recvCh.
PacketArrives(lie) ==
    /\ Idle(fsm)
    /\ fsm' = HandlePacket(fsm, lie)
    /\ UNCHANGED <<tickerC, stateChangeCh, agentView, silence>>

\* The seconds since the last valid LIE, after f has processed its next event.
SilenceAfter(f) ==
    IF /\ Head(f.eventQueue) = "LieRcvd" /\ f.state # "MultipleNeighborsWait"
       /\ ValidLie(f, f.pending)
    THEN 0 ELSE silence

\* One turn of drainQueue.  The send on stateChangeCh blocks while it is full.
ProcessEvent ==
    /\ ~Idle(fsm)
    /\ LET g == drainOne(fsm) IN
         /\ g.notified # None => Len(stateChangeCh) < StateChangeCap
         /\ fsm' = g
         /\ stateChangeCh' = IF g.notified = None THEN stateChangeCh
                             ELSE Append(stateChangeCh, g.notified)
    /\ silence' = SilenceAfter(fsm)
    /\ UNCHANGED <<tickerC, agentView>>

\* Agent.eventLoop takes the next event.
AgentReceives ==
    /\ stateChangeCh # <<>>
    /\ agentView' = Head(stateChangeCh)
    /\ stateChangeCh' = Tail(stateChangeCh)
    /\ UNCHANGED <<fsm, tickerC, silence>>

Next ==
    \/ SecondElapses
    \/ TickerFires
    \/ \E lie \in Packets : PacketArrives(lie)
    \/ ProcessEvent
    \/ AgentReceives

Spec == Init /\ [][Next]_vars

\* The runtime keeps running the goroutine and the agent's loop, seconds pass,
\* and select picks the ticker again and again even on a busy link.
FairSpec ==
    /\ Spec
    /\ WF_vars(SecondElapses) /\ SF_vars(TickerFires)
    /\ WF_vars(ProcessEvent) /\ WF_vars(AgentReceives)

-----------------------------------------------------------------------------
(* Properties *)

\* The variables keep their types; queue contents are events of the FSM.
TypeOK ==
    /\ fsm \in FSM
    /\ tickerC \in BOOLEAN
    /\ stateChangeCh \in Seq(AdjacencyEvent)
    /\ agentView \in AdjacencyEvent
    /\ silence \in Nat

\* AdjacencyEvent's contract ("nil if OneWay"): whatever arrives and whatever
\* was queued, the neighbor of a notification is nil exactly when the state is
\* OneWay.  handleAdjacencyEvent silently ignores a ThreeWay event without it.
NotificationCarriesNeighbor ==
    \A i \in 1..Len(stateChangeCh) :
        (stateChangeCh[i].neighbor = None) <=> (stateChangeCh[i].state = "OneWay")

\* With its queue drained, an FSM in OneWay has no current neighbor, so the
\* next valid LIE is a NewNeighbor and is not taken for a known one.
IdleOneWayIsClean ==
    Idle(fsm) /\ fsm.state = "OneWay" => fsm.neighbor = None /\ fsm.lieAge = NoTime

\* The event the agent will have handled once it has caught up.
LastNotified ==
    IF stateChangeCh = <<>> THEN agentView ELSE stateChangeCh[Len(stateChangeCh)]

\* However slowly the agent reads, the events queued for it end in the state
\* the FSM is in: no transition goes unannounced and none is announced twice
\* over by a later one.
AgentStateCurrent == LastNotified.state = fsm.state

\* In ThreeWay the agent will have the FSM's neighbor too (its minor fields
\* aside): a change of system, level or address never goes unannounced.
AgentNeighborCurrent ==
    LET n == fsm.neighbor
        last == LastNotified
    IN  Idle(fsm) /\ fsm.state = "ThreeWay" /\ n # None =>
          /\ last.neighbor # None
          /\ last.neighbor.systemID = n.systemID
          /\ last.neighbor.level = n.level
          /\ last.neighbor.address = n.address

\* The inductive invariant of one FSM and its notifications: what is queued is
\* consistent with the state it will be processed in.
LieInv ==
    /\ QueueOrder(fsm)
    /\ OneWayNeighborIsNew(fsm)
    /\ NotificationCarriesNeighbor
    /\ AgentStateCurrent

\* A neighbor that stays silent for longer than the holdtime it advertised is
\* dropped by the next tick, in TwoWay and ThreeWay alike.
HoldtimeBoundsNeighbor ==
    /\ Idle(fsm) /\ ~tickerC
    /\ fsm.state \in {"TwoWay", "ThreeWay"}
    /\ fsm.neighbor # None /\ fsm.neighbor.holdtime # 0
    => silence <= fsm.neighbor.holdtime

\* rfc9692.txt:6056: the holdtime says "for how long a period adjacency should
\* be kept up without valid LIE reception": no adjacency outlives every
\* holdtime a neighbor may have advertised.
HoldtimeBoundsAdjacency ==
    /\ Idle(fsm) /\ ~tickerC
    /\ fsm.state = "ThreeWay"
    => \E h \in Holdtimes : silence <= h

\* MultipleNeighborsWait lasts its whole timeout: no packet cuts it short.
WaitIsNotCutShort ==
    [][/\ fsm.state = "MultipleNeighborsWait"
       /\ fsm'.state # "MultipleNeighborsWait"
       => fsm'.state = "OneWay" /\ fsm.mnAge > MultipleNeighborsTimeout]_vars

\* ... and it ends, even if LIEs keep arriving: nothing that is received while
\* waiting restarts the timer.
WaitEnds ==
    fsm.state = "MultipleNeighborsWait" ~> fsm.state = "OneWay"

\* The agent never learns of packets, timers or queued events: what reaches it
\* is the view of LieView, on which AgentInterfaces is built.
View == INSTANCE LieView WITH
    Capacity <- StateChangeCap,
    state <- AsSeen(fsm.state),
    events <- [i \in 1..Len(stateChangeCh) |-> AsSeen(stateChangeCh[i].state)],
    view <- AsSeen(agentView.state)

\* The interface implements LieView: whatever the link delivers and whatever
\* waits in the event queue, the FSM moves along LieStep (into ThreeWay from
\* TwoWay only), every move is announced once and in order, and none is
\* announced that was not made.
ImplementsLieView == View!Spec
=============================================================================
