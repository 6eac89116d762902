------------------------- MODULE LieInterfaceProofs -------------------------
(***************************************************************************)
(* The invariant of one LIE interface, for all constants: whatever the     *)
(* link delivers and however slowly the agent reads.                       *)
(*                                                                         *)
(* TypeOK /\ LieInv is inductive.  LieFsmProofs says what one turn of      *)
(* drainQueue does to the FSM; StepInv is about the actions.               *)
(***************************************************************************)
EXTENDS LieInterface, LieFsmProofs

-----------------------------------------------------------------------------
(* The invariant of the interface. *)

\* A new FSM satisfies the invariant.
LEMMA InitInv == Init => TypeOK /\ LieInv
<1> SUFFICES ASSUME Init PROVE TypeOK /\ LieInv
  OBVIOUS
<1>1. /\ fsm \in FSM /\ fsm.eventQueue = <<>> /\ fsm.state = "OneWay"
      /\ fsm.neighbor = None /\ fsm.lieAge = NoTime
  BY InterfaceConstants DEF Init, NewFSM, FSM, Identity, State
<1>2. agentView \in AdjacencyEvent /\ agentView.state = "OneWay"
  BY DEF Init, AdjacencyEvent, State
<1>3. /\ stateChangeCh = <<>> /\ stateChangeCh \in Seq(AdjacencyEvent)
      /\ silence \in Nat
  BY EmptySeq DEF Init
<1>0. tickerC \in BOOLEAN
  BY DEF Init
<1>4. TypeOK
  BY <1>0, <1>1, <1>2, <1>3 DEF TypeOK
<1>5. QueueOrder(fsm) /\ OneWayNeighborIsNew(fsm)
  BY <1>1 DEF QueueOrder, OneWayNeighborIsNew
<1>6. NotificationCarriesNeighbor /\ AgentStateCurrent
  BY <1>1, <1>2, <1>3
     DEF NotificationCarriesNeighbor, AgentStateCurrent, LastNotified
<1> QED
  BY <1>4, <1>5, <1>6 DEF LieInv

\* Every step keeps it.
LEMMA StepInv == TypeOK /\ LieInv /\ [Next]_vars => TypeOK' /\ LieInv'
<1> SUFFICES ASSUME TypeOK, LieInv, [Next]_vars
             PROVE  TypeOK' /\ LieInv'
  OBVIOUS
<1> USE DEF TypeOK
<1>1. CASE SecondElapses
  <2>1. /\ Older(fsm.lieAge, AgeCap) \in Nat \cup {NoTime}
        /\ Older(fsm.mnAge, AgeCap) \in Nat \cup {NoTime}
        /\ Older(silence, AgeCap) \in Nat
        /\ Older(fsm.lieAge, AgeCap) = NoTime <=> fsm.lieAge = NoTime
    BY InterfaceConstants DEF Older, FSM, NoTime
  <2>2. /\ fsm' \in FSM /\ fsm'.state = fsm.state
        /\ fsm'.eventQueue = fsm.eventQueue /\ fsm'.neighbor = fsm.neighbor
        /\ fsm'.pending = fsm.pending
        /\ fsm'.lieAge = NoTime <=> fsm.lieAge = NoTime
    BY <1>1, <2>1 DEF SecondElapses, AgeFsm, FSM
  <2>3. TypeOK'
    BY <1>1, <2>1, <2>2 DEF SecondElapses
  <2>4. LieInv'
    BY <1>1, <2>2
       DEF SecondElapses, LieInv, QueueOrder, OneWayNeighborIsNew,
           NotificationCarriesNeighbor, AgentStateCurrent, LastNotified
  <2> QED
    BY <2>2, <2>3, <2>4 DEF FSM, State
<1>2. CASE TickerFires
  <2>1. /\ fsm' \in FSM /\ QueueOrder(fsm') /\ OneWayNeighborIsNew(fsm')
        /\ fsm'.state = fsm.state
    BY <1>2, Stimulus DEF TickerFires, Tick, LieInv
  <2> QED
    BY <1>2, <2>1
       DEF TickerFires, LieInv, NotificationCarriesNeighbor,
           AgentStateCurrent, LastNotified, FSM, State
<1>3. ASSUME NEW lie \in Packets, PacketArrives(lie)
      PROVE  TypeOK' /\ LieInv'
  <2> DEFINE f == [fsm EXCEPT !.pending = lie]
  <2>1. lie \in LiePacket /\ lie # None
    BY InterfaceConstants, LieConstants
  <2>2. /\ f \in FSM /\ f.pending # None /\ f.eventQueue = fsm.eventQueue
        /\ f.state = fsm.state /\ f.neighbor = fsm.neighbor
        /\ f.lieAge = fsm.lieAge
    BY <2>1 DEF FSM
  <2>3. fsm' = push(f, "LieRcvd") /\ Idle(fsm)
    BY <1>3 DEF PacketArrives, HandlePacket
  <2> HIDE DEF f
  <2>4. Idle(f) /\ OneWayNeighborIsNew(f)
    BY <2>2, <2>3 DEF Idle, LieInv, OneWayNeighborIsNew
  <2>5. /\ fsm' \in FSM /\ QueueOrder(fsm') /\ OneWayNeighborIsNew(fsm')
        /\ fsm'.state = fsm.state
    BY <2>2, <2>3, <2>4, Stimulus
  <2> QED
    BY <1>3, <2>5
       DEF PacketArrives, LieInv, NotificationCarriesNeighbor,
           AgentStateCurrent, LastNotified, FSM, State
<1>4. CASE ProcessEvent
  <2> DEFINE g == drainOne(fsm)
  <2>1. /\ g \in FSM /\ QueueOrder(g) /\ OneWayNeighborIsNew(g)
        /\ g.notified = None => g.state = fsm.state
        /\ g.notified # None =>
             /\ g.notified.state = g.state
             /\ g.notified.neighbor = None <=> g.state = "OneWay"
    BY <1>4, DrainOne DEF ProcessEvent, Idle, LieInv
  <2>2. /\ fsm' = g
        /\ stateChangeCh' = IF g.notified = None THEN stateChangeCh
                            ELSE Append(stateChangeCh, g.notified)
        /\ silence' = SilenceAfter(fsm)
        /\ tickerC' = tickerC /\ agentView' = agentView
    BY <1>4 DEF ProcessEvent
  <2> HIDE DEF g
  <2>3. silence' \in Nat
    BY <2>2 DEF SilenceAfter
  <2>4. CASE g.notified = None
    BY <2>1, <2>2, <2>3, <2>4
       DEF LieInv, NotificationCarriesNeighbor, AgentStateCurrent,
           LastNotified
  <2>5. CASE g.notified # None
    <3>1. g.notified \in AdjacencyEvent
      BY <2>1, <2>5 DEF FSM
    <3>2. /\ stateChangeCh' \in Seq(AdjacencyEvent)
          /\ Len(stateChangeCh') = Len(stateChangeCh) + 1
          /\ stateChangeCh'[Len(stateChangeCh) + 1] = g.notified
          /\ \A i \in 1..Len(stateChangeCh) :
               stateChangeCh'[i] = stateChangeCh[i]
          /\ stateChangeCh' # <<>>
      BY <2>2, <2>5, <3>1, AppendProperties
    <3>3. TypeOK'
      BY <2>1, <2>2, <2>3, <3>2
    <3>4. NotificationCarriesNeighbor'
      BY <2>1, <2>5, <3>2 DEF LieInv, NotificationCarriesNeighbor
    <3>5. AgentStateCurrent'
      BY <2>1, <2>2, <2>5, <3>2 DEF AgentStateCurrent, LastNotified
    <3> QED
      BY <2>1, <2>2, <3>3, <3>4, <3>5 DEF LieInv
  <2> QED
    BY <2>4, <2>5
<1>5. CASE AgentReceives
  <2>1. /\ fsm' = fsm /\ tickerC' = tickerC /\ silence' = silence
        /\ stateChangeCh # <<>>
        /\ agentView' = Head(stateChangeCh)
        /\ stateChangeCh' = Tail(stateChangeCh)
    BY <1>5 DEF AgentReceives
  <2>2. /\ Len(stateChangeCh) \in Nat \ {0}
        /\ Head(stateChangeCh) = stateChangeCh[1]
        /\ Head(stateChangeCh) \in AdjacencyEvent
        /\ stateChangeCh' \in Seq(AdjacencyEvent)
        /\ Len(stateChangeCh') = Len(stateChangeCh) - 1
        /\ \A i \in 1..Len(stateChangeCh') :
              stateChangeCh'[i] = stateChangeCh[i + 1]
    BY <2>1, HeadTailProperties, EmptySeq
  <2>3. TypeOK'
    BY <2>1, <2>2
  <2>4. NotificationCarriesNeighbor'
    BY <2>2 DEF LieInv, NotificationCarriesNeighbor
  <2>5. AgentStateCurrent'
    <3>1. CASE stateChangeCh' = <<>>
      <4>1. Len(stateChangeCh) = 1
        BY <2>2, <3>1, EmptySeq
      <4> QED
        BY <2>1, <2>2, <3>1, <4>1
           DEF LieInv, AgentStateCurrent, LastNotified
    <3>2. CASE stateChangeCh' # <<>>
      <4>1. Len(stateChangeCh') \in Nat \ {0}
        BY <2>2, <3>2, EmptySeq
      <4>2. stateChangeCh'[Len(stateChangeCh')] = stateChangeCh[Len(stateChangeCh)]
        BY <2>2, <4>1
      <4> QED
        BY <2>1, <3>2, <4>2 DEF LieInv, AgentStateCurrent, LastNotified
    <3> QED
      BY <3>1, <3>2
  <2> QED
    BY <2>1, <2>3, <2>4, <2>5 DEF LieInv, FSM, State
<1>6. CASE UNCHANGED vars
  BY <1>6
     DEF vars, LieInv, NotificationCarriesNeighbor, AgentStateCurrent,
         LastNotified, FSM, State
<1> QED
  BY <1>1, <1>2, <1>3, <1>4, <1>5, <1>6 DEF Next

-----------------------------------------------------------------------------
(* The theorems. *)

\* The FSM, its queue and the channel keep their types, and what is queued
\* fits the state it will be processed in, whatever the link delivers.
THEOREM Invariance == Spec => [](TypeOK /\ LieInv)
<1> QED
  BY InitInv, StepInv, PTL DEF Spec

\* Type correctness of the interface: no packet, however malformed, puts a
\* nil level or an illegal system ID into the current neighbor.
THEOREM TypeCorrect == Spec => []TypeOK
<1> QED
  BY Invariance, PTL

\* Every AdjacencyEvent has a neighbor exactly when its state is not OneWay.
THEOREM NotificationsCarryNeighbor == Spec => []NotificationCarriesNeighbor
<1>1. LieInv => NotificationCarriesNeighbor
  BY DEF LieInv
<1> QED
  BY <1>1, Invariance, PTL

\* The agent, once it has caught up, has the FSM's state.
THEOREM AgentStateIsCurrent == Spec => []AgentStateCurrent
<1>1. LieInv => AgentStateCurrent
  BY DEF LieInv
<1> QED
  BY <1>1, Invariance, PTL

\* A drained FSM in OneWay remembers no neighbor and no holdtime clock.
THEOREM OneWayIsClean == Spec => []IdleOneWayIsClean
<1>1. TypeOK /\ LieInv => IdleOneWayIsClean
  BY DEF TypeOK, LieInv, OneWayNeighborIsNew, IdleOneWayIsClean, Idle, FSM
<1> QED
  BY <1>1, Invariance, PTL

-----------------------------------------------------------------------------
(* The neighbor, its clock and what the agent knows of it. *)

\* In ThreeWay the last notification is of the current neighbor, unless a new
\* one is still to be processed.
NeighborAnnounced ==
    /\ fsm.state = "ThreeWay" /\ fsm.neighbor # None
    /\ "NewNeighbor" \notin Queued(fsm)
    => /\ LastNotified.neighbor # None
       /\ SameNeighbor(LastNotified.neighbor, fsm.neighbor)

\* The clock of the current neighbor counts the seconds of silence.
ClockCountsSilence == fsm.neighbor # None => fsm.lieAge = silence

\* What makes the properties of the holdtime, of the wait and of the agent's
\* neighbor inductive.
NeighborInv ==
    /\ DoneIsDue(fsm)
    /\ Clocked(fsm, tickerC)
    /\ ClockCountsSilence
    /\ NeighborAnnounced

\* A new FSM has neither a neighbor nor events.
LEMMA InitNeighborInv == Init => NeighborInv
<1> SUFFICES ASSUME Init PROVE NeighborInv
  OBVIOUS
<1>1. fsm.eventQueue = <<>> /\ fsm.state = "OneWay" /\ fsm.neighbor = None
  BY DEF Init, NewFSM
<1>2. Queued(fsm) = {}
  BY <1>1 DEF Queued
<1> QED
  BY <1>1, <1>2
     DEF NeighborInv, DoneIsDue, Clocked, ClockCountsSilence, NeighborAnnounced

\* What is sent to the agent is its last event from then on.
LEMMA LastNotifiedSent ==
    ASSUME TypeOK, NEW e \in AdjacencyEvent,
           stateChangeCh' = Append(stateChangeCh, e)
    PROVE  LastNotified' = e
<1>1. /\ Len(stateChangeCh') = Len(stateChangeCh) + 1
      /\ stateChangeCh'[Len(stateChangeCh) + 1] = e /\ stateChangeCh' # <<>>
  BY AppendProperties DEF TypeOK
<1> QED
  BY <1>1 DEF LastNotified

\* What the agent reads stays its last event until another is sent.
LEMMA LastNotifiedRead ==
    ASSUME TypeOK, AgentReceives
    PROVE  LastNotified' = LastNotified
<1>1. /\ stateChangeCh # <<>> /\ stateChangeCh \in Seq(AdjacencyEvent)
      /\ agentView' = Head(stateChangeCh)
      /\ stateChangeCh' = Tail(stateChangeCh)
  BY DEF AgentReceives, TypeOK
<1>2. /\ Len(stateChangeCh) \in Nat \ {0}
      /\ Head(stateChangeCh) = stateChangeCh[1]
      /\ stateChangeCh' \in Seq(AdjacencyEvent)
      /\ Len(stateChangeCh') = Len(stateChangeCh) - 1
      /\ \A i \in 1..Len(stateChangeCh') :
            stateChangeCh'[i] = stateChangeCh[i + 1]
  BY <1>1, HeadTailProperties, EmptySeq
<1>3. CASE stateChangeCh' = <<>>
  <2>1. Len(stateChangeCh) = 1
    BY <1>2, <1>3, EmptySeq
  <2> QED
    BY <1>1, <1>2, <1>3, <2>1 DEF LastNotified
<1>4. CASE stateChangeCh' # <<>>
  <2>1. Len(stateChangeCh') \in Nat \ {0}
    BY <1>2, <1>4, EmptySeq
  <2> QED
    BY <1>1, <1>2, <1>4, <2>1 DEF LastNotified
<1> QED
  BY <1>3, <1>4

\* Every step keeps it.
LEMMA StepNeighborInv ==
    TypeOK /\ LieInv /\ NeighborInv /\ [Next]_vars => NeighborInv'
<1> SUFFICES ASSUME TypeOK, LieInv, NeighborInv, [Next]_vars
             PROVE  NeighborInv'
  OBVIOUS
<1>1. fsm \in FSM /\ tickerC \in BOOLEAN /\ silence \in Nat
  BY DEF TypeOK
<1>2. CASE SecondElapses
  <2>1. /\ fsm'.state = fsm.state /\ fsm'.eventQueue = fsm.eventQueue
        /\ fsm'.neighbor = fsm.neighbor /\ fsm'.holdtime = fsm.holdtime
        /\ fsm'.lieAge = Older(fsm.lieAge, AgeCap)
        /\ fsm'.mnAge = Older(fsm.mnAge, AgeCap)
        /\ tickerC' = TRUE /\ silence' = Older(silence, AgeCap)
        /\ LastNotified' = LastNotified
    BY <1>1, <1>2 DEF SecondElapses, AgeFsm, FSM, LastNotified
  <2>2. /\ Queued(fsm') = Queued(fsm)
        /\ fsm.lieAge # NoTime => fsm'.lieAge # NoTime
        /\ fsm.mnAge > MultipleNeighborsTimeout =>
             fsm'.mnAge > MultipleNeighborsTimeout
    <3>1. MultipleNeighborsTimeout \in Int
      BY LieConstants DEF MultipleNeighborsTimeout
    <3>2. /\ fsm.lieAge \in Nat \cup {NoTime} /\ fsm.mnAge \in Nat \cup {NoTime}
          /\ NoTime = -1
      BY <1>1 DEF FSM, NoTime
    <3>3. Queued(fsm') = Queued(fsm)
      BY <2>1 DEF Queued
    <3>4. fsm.lieAge # NoTime => fsm'.lieAge # NoTime
      BY <2>1, <3>2 DEF Older
    <3>5. fsm.mnAge > MultipleNeighborsTimeout =>
            fsm'.mnAge > MultipleNeighborsTimeout
      BY <2>1, <3>1, <3>2 DEF Older
    <3> QED
      BY <3>3, <3>4, <3>5
  <2>3. DoneIsDue(fsm')
    BY <2>1, <2>2 DEF NeighborInv, DoneIsDue
  <2>4. Clocked(fsm', tickerC')
    BY <2>1, <2>2 DEF NeighborInv, Clocked
  <2>5. ClockCountsSilence' /\ NeighborAnnounced'
    BY <2>1, <2>2 DEF NeighborInv, ClockCountsSilence, NeighborAnnounced
  <2> QED
    BY <2>3, <2>4, <2>5 DEF NeighborInv
<1>3. ASSUME NEW ev \in {"TimerTick", "LieRcvd"}, Idle(fsm),
             fsm'.state = fsm.state, fsm'.neighbor = fsm.neighbor,
             fsm'.holdtime = fsm.holdtime, fsm'.lieAge = fsm.lieAge,
             Queued(fsm') = {ev}, silence' = silence,
             ev = "LieRcvd" => tickerC' = tickerC,
             LastNotified' = LastNotified
      PROVE  NeighborInv'
  <2>1. Queued(fsm) = {}
    BY <1>3 DEF Idle, Queued
  <2>2. DoneIsDue(fsm')
    BY <1>3 DEF DoneIsDue
  <2>3. Clocked(fsm', tickerC')
    <3>1. fsm.neighbor # None /\ fsm.state # "MultipleNeighborsWait" =>
            /\ fsm.holdtime = fsm.neighbor.holdtime
            /\ fsm.holdtime # 0 /\ fsm.lieAge > fsm.holdtime => tickerC
      BY <2>1 DEF NeighborInv, Clocked
    <3>2. fsm.neighbor # None => fsm.lieAge # NoTime
      BY DEF NeighborInv, Clocked
    <3>3. tickerC => tickerC' \/ Queued(fsm') \cap {"TimerTick", "HoldtimeExpired"} # {}
      BY <1>3
    <3> QED
      BY <1>3, <3>1, <3>2, <3>3 DEF Clocked
  <2>4. ClockCountsSilence' /\ NeighborAnnounced'
    BY <1>3, <2>1 DEF NeighborInv, ClockCountsSilence, NeighborAnnounced
  <2> QED
    BY <2>2, <2>3, <2>4 DEF NeighborInv
<1>4. CASE TickerFires
  <2>1. /\ fsm' = push(fsm, "TimerTick") /\ "TimerTick" \in Event
        /\ Idle(fsm) /\ silence' = silence /\ LastNotified' = LastNotified
    BY <1>4 DEF TickerFires, Tick, Event, LastNotified
  <2>2. Queued(fsm) = {}
    BY <2>1 DEF Idle, Queued
  <2>3. /\ fsm'.state = fsm.state /\ fsm'.neighbor = fsm.neighbor
        /\ fsm'.holdtime = fsm.holdtime /\ fsm'.lieAge = fsm.lieAge
        /\ Queued(fsm') = {"TimerTick"}
    BY <1>1, <2>1, <2>2, PushFacts, QueuedPush
  <2> QED
    BY <1>3, <2>1, <2>3
<1>5. ASSUME NEW lie \in Packets, PacketArrives(lie)
      PROVE  NeighborInv'
  <2> DEFINE f == [fsm EXCEPT !.pending = lie]
  <2>1. lie \in LiePacket
    BY InterfaceConstants
  <2>2. /\ f \in FSM /\ f.eventQueue = fsm.eventQueue
        /\ f.state = fsm.state /\ f.neighbor = fsm.neighbor
        /\ f.lieAge = fsm.lieAge /\ f.holdtime = fsm.holdtime
    BY <1>1, <2>1 DEF FSM
  <2>3. /\ fsm' = push(f, "LieRcvd") /\ "LieRcvd" \in Event /\ Idle(fsm)
        /\ silence' = silence /\ tickerC' = tickerC
        /\ LastNotified' = LastNotified
    BY <1>5 DEF PacketArrives, HandlePacket, Event, LastNotified
  <2> HIDE DEF f
  <2>4. Queued(f) = {}
    BY <2>2, <2>3 DEF Idle, Queued
  <2>5. /\ fsm'.state = fsm.state /\ fsm'.neighbor = fsm.neighbor
        /\ fsm'.holdtime = fsm.holdtime /\ fsm'.lieAge = fsm.lieAge
        /\ Queued(fsm') = {"LieRcvd"}
    BY <2>2, <2>3, <2>4, PushFacts, QueuedPush
  <2> QED
    BY <1>3, <2>3, <2>5
<1>6. CASE ProcessEvent
  <2> DEFINE f == fsm
             g == drainOne(fsm)
             ev == Head(fsm.eventQueue)
  <2>1. /\ fsm.eventQueue # <<>> /\ fsm' = g
        /\ stateChangeCh' = IF g.notified = None THEN stateChangeCh
                            ELSE Append(stateChangeCh, g.notified)
        /\ silence' = SilenceAfter(fsm)
        /\ tickerC' = tickerC /\ agentView' = agentView
    BY <1>6 DEF ProcessEvent, Idle
  <2>2. g \in FSM /\ Turn(fsm, g, ev)
    BY <1>1, <2>1, DrainOne, DrainOneTurn DEF LieInv
  <2>3. /\ Queued(fsm) = {ev} \cup Behind(fsm)
        /\ ev \in LeadsToOneWay \cup {"LieRcvd", "TimerTick"} =>
             Behind(fsm) = {}
        /\ fsm.state = "OneWay" /\ fsm.neighbor # None =>
             "NewNeighbor" \in Queued(fsm)
    BY <1>1, <2>1, QueueSet DEF LieInv
  <2>4. silence' = IF /\ ev = "LieRcvd" /\ fsm.state # "MultipleNeighborsWait"
                      /\ ValidLie(fsm, fsm.pending)
                   THEN 0 ELSE silence
    BY <2>1 DEF SilenceAfter
  <2> HIDE DEF g, ev
  <2>5. DoneIsDue(fsm')
    BY <1>1, <2>1, <2>2, <2>3, TurnDone DEF NeighborInv
  <2>6. Clocked(fsm', tickerC')
    BY <1>1, <2>1, <2>2, <2>3, TurnClock DEF NeighborInv
  <2>7. ClockCountsSilence'
    <3>1. CASE ev = "LieRcvd" /\ fsm.state # "MultipleNeighborsWait"
               /\ Hears(fsm, g)
      BY <2>1, <2>4, <3>1 DEF Hears, Forgets, ClockCountsSilence
    <3>2. CASE Leaves(fsm, g, ev)
      BY <2>1, <3>2 DEF Leaves, ClockCountsSilence
    <3>3. CASE /\ g.neighbor = fsm.neighbor /\ g.lieAge = fsm.lieAge
               /\ \/ Advances(fsm, g, ev) \/ Ticks(fsm, g, ev)
                  \/ Passes(fsm, g, ev)
      <4>1. ~(ev = "LieRcvd" /\ fsm.state # "MultipleNeighborsWait")
        BY <3>3 DEF Advances, Ticks, Passes
      <4> QED
        BY <2>1, <2>4, <3>3, <4>1 DEF NeighborInv, ClockCountsSilence
    <3> QED
      BY <2>2, <3>1, <3>2, <3>3 DEF Turn
  <2>8. NeighborAnnounced'
    <3> SUFFICES ASSUME g.state = "ThreeWay", g.neighbor # None,
                        "NewNeighbor" \notin Queued(g)
                 PROVE  /\ LastNotified'.neighbor # None
                        /\ SameNeighbor(LastNotified'.neighbor, g.neighbor)
      BY <2>1 DEF NeighborAnnounced
    <3>1. CASE g.notified # None /\ g.notified.neighbor = g.neighbor
      <4>1. g.notified \in AdjacencyEvent
        BY <2>2, <3>1 DEF FSM
      <4>2. LastNotified' = g.notified
        BY <2>1, <3>1, <4>1, LastNotifiedSent
      <4> QED
        BY <3>1, <4>2 DEF SameNeighbor
    <3>2. CASE /\ g.notified = None /\ fsm.state = "ThreeWay"
               /\ fsm.neighbor # None /\ "NewNeighbor" \notin Queued(fsm)
               /\ SameNeighbor(g.neighbor, fsm.neighbor)
      <4>1. LastNotified' = LastNotified
        BY <2>1, <3>2 DEF LastNotified
      <4> QED
        BY <3>2, <4>1 DEF NeighborInv, NeighborAnnounced, SameNeighbor
    <3> QED
      BY <1>1, <2>2, <2>3, <3>1, <3>2, TurnAnnounces
  <2> QED
    BY <2>5, <2>6, <2>7, <2>8 DEF NeighborInv
<1>7. CASE AgentReceives
  <2>1. /\ fsm' = fsm /\ tickerC' = tickerC /\ silence' = silence
        /\ LastNotified' = LastNotified
    BY <1>7, LastNotifiedRead DEF AgentReceives
  <2> QED
    BY <2>1 DEF NeighborInv, ClockCountsSilence, NeighborAnnounced
<1>8. CASE UNCHANGED vars
  <2>1. /\ fsm' = fsm /\ tickerC' = tickerC /\ silence' = silence
        /\ LastNotified' = LastNotified
    BY <1>8 DEF vars, LastNotified
  <2> QED
    BY <2>1 DEF NeighborInv, ClockCountsSilence, NeighborAnnounced
<1> QED
  BY <1>2, <1>4, <1>5, <1>6, <1>7, <1>8 DEF Next

\* The invariants together, for all packets, timeouts and capacities.
THEOREM NeighborInvariance == Spec => [](TypeOK /\ LieInv /\ NeighborInv)
<1> QED
  BY InitInv, StepInv, InitNeighborInv, StepNeighborInv, PTL DEF Spec

\* A change of the neighbor's system, level or address never goes unannounced
\* while the FSM is in ThreeWay.
THEOREM AgentNeighborIsCurrent == Spec => []AgentNeighborCurrent
<1>1. NeighborInv => AgentNeighborCurrent
  <2> SUFFICES ASSUME NeighborInv, Idle(fsm), fsm.state = "ThreeWay",
                      fsm.neighbor # None
               PROVE  /\ LastNotified.neighbor # None
                      /\ SameNeighbor(LastNotified.neighbor, fsm.neighbor)
    BY DEF AgentNeighborCurrent, SameNeighbor
  <2>1. Queued(fsm) = {}
    BY DEF Idle, Queued
  <2> QED
    BY <2>1 DEF NeighborInv, NeighborAnnounced
<1> QED
  BY <1>1, NeighborInvariance, PTL

\* A neighbor that is silent for longer than the holdtime it advertised does
\* not survive the next tick.
THEOREM HoldtimeBounds == Spec => []HoldtimeBoundsNeighbor
<1>1. TypeOK /\ NeighborInv => HoldtimeBoundsNeighbor
  <2> SUFFICES ASSUME TypeOK, NeighborInv, Idle(fsm), ~tickerC,
                      fsm.state \in {"TwoWay", "ThreeWay"},
                      fsm.neighbor # None, fsm.neighbor.holdtime # 0
               PROVE  silence <= fsm.neighbor.holdtime
    BY DEF HoldtimeBoundsNeighbor
  <2>1. Queued(fsm) = {}
    BY DEF Idle, Queued
  <2>2. /\ fsm.holdtime = fsm.neighbor.holdtime
        /\ ~(fsm.lieAge > fsm.holdtime) /\ fsm.lieAge = silence
    BY <2>1 DEF NeighborInv, Clocked, ClockCountsSilence
  <2>3. fsm.holdtime \in Nat /\ silence \in Nat
    BY DEF TypeOK, FSM
  <2> QED
    BY <2>2, <2>3
<1> QED
  BY <1>1, NeighborInvariance, PTL

\* No packet, tick or queued event cuts the wait for multiple neighbors short.
THEOREM WaitIsWhole == Spec => WaitIsNotCutShort
<1> DEFINE A == /\ fsm.state = "MultipleNeighborsWait"
                /\ fsm'.state # "MultipleNeighborsWait"
                => /\ fsm'.state = "OneWay"
                   /\ fsm.mnAge > MultipleNeighborsTimeout
<1>1. TypeOK /\ LieInv /\ NeighborInv /\ [Next]_vars => [A]_vars
  <2> SUFFICES ASSUME TypeOK, LieInv, NeighborInv, [Next]_vars,
                      fsm.state = "MultipleNeighborsWait",
                      fsm'.state # "MultipleNeighborsWait"
               PROVE  /\ fsm'.state = "OneWay"
                      /\ fsm.mnAge > MultipleNeighborsTimeout
    OBVIOUS
  <2>0. fsm \in FSM
    BY DEF TypeOK
  <2>1. CASE ProcessEvent
    <3> DEFINE ev == Head(fsm.eventQueue)
    <3>1. fsm.eventQueue # <<>> /\ fsm' = drainOne(fsm)
      BY <2>1 DEF ProcessEvent, Idle
    <3>2. Turn(fsm, fsm', ev) /\ ev \in Queued(fsm)
      BY <2>0, <3>1, DrainOneTurn, QueueSet DEF LieInv
    <3> HIDE DEF ev
    <3>3. Leaves(fsm, fsm', ev)
      BY <3>2 DEF Turn, Hears, Advances
    <3> QED
      BY <3>2, <3>3 DEF Leaves, NeighborInv, DoneIsDue
  <2>2. CASE SecondElapses
    BY <2>0, <2>2 DEF SecondElapses, AgeFsm, FSM
  <2>3. CASE TickerFires
    BY <2>0, <2>3, PushFacts DEF TickerFires, Tick, Event
  <2>4. ASSUME NEW lie \in Packets, PacketArrives(lie)
        PROVE  fsm'.state = fsm.state
    BY <2>0, <2>4 DEF PacketArrives, HandlePacket, push, FSM
  <2>5. CASE AgentReceives
    BY <2>5 DEF AgentReceives
  <2>6. CASE UNCHANGED vars
    BY <2>6 DEF vars
  <2> QED
    BY <2>1, <2>2, <2>3, <2>4, <2>5, <2>6 DEF Next
<1> QED
  BY <1>1, NeighborInvariance, PTL DEF Spec, WaitIsNotCutShort

-----------------------------------------------------------------------------
(* The refinement of LieView. *)

\* The sequence of states the agent has still to read.
Announced(ch) == [i \in 1..Len(ch) |-> AsSeen(ch[i].state)]

\* The projection of the channel commutes with sending and receiving.
LEMMA AnnouncedFacts ==
    ASSUME NEW ch \in Seq(AdjacencyEvent)
    PROVE  /\ Announced(ch) \in Seq(LieState)
           /\ Len(Announced(ch)) = Len(ch)
           /\ \A e \in AdjacencyEvent :
                Announced(Append(ch, e)) = Append(Announced(ch), AsSeen(e.state))
           /\ ch # <<>> =>
                /\ Announced(ch) # <<>>
                /\ Head(Announced(ch)) = AsSeen(Head(ch).state)
                /\ Announced(Tail(ch)) = Tail(Announced(ch))
<1>1. \A e \in AdjacencyEvent : AsSeen(e.state) \in LieState
  BY DEF AdjacencyEvent, State, AsSeen, LieState
<1>2. Announced(ch) \in Seq(LieState) /\ Len(Announced(ch)) = Len(ch)
  BY <1>1 DEF Announced
<1>3. ASSUME NEW e \in AdjacencyEvent
      PROVE  Announced(Append(ch, e)) = Append(Announced(ch), AsSeen(e.state))
  BY <1>1, <1>2, <1>3 DEF Announced
<1>4. ASSUME ch # <<>>
      PROVE  /\ Announced(ch) # <<>>
             /\ Head(Announced(ch)) = AsSeen(Head(ch).state)
             /\ Announced(Tail(ch)) = Tail(Announced(ch))
  BY <1>1, <1>2, <1>4 DEF Announced
<1> QED
  BY <1>2, <1>3, <1>4

\* A step of the interface is a step of LieView or leaves it alone: only a
\* processed event that changes the state moves it, and only AgentReceives
\* delivers.
LEMMA StepView ==
    TypeOK /\ LieInv /\ [Next]_vars =>
        [View!Next]_<<AsSeen(fsm.state), Announced(stateChangeCh),
                      AsSeen(agentView.state)>>
<1> SUFFICES ASSUME TypeOK, LieInv, [Next]_vars
             PROVE  \/ View!Next
                    \/ /\ fsm'.state = fsm.state
                       /\ stateChangeCh' = stateChangeCh
                       /\ agentView' = agentView
  BY DEF Announced
<1>1. CASE SecondElapses
  BY <1>1 DEF SecondElapses, AgeFsm, TypeOK, FSM
<1>2. CASE TickerFires
  BY <1>2, PushFacts DEF TickerFires, Tick, TypeOK, Event
<1>3. ASSUME NEW lie \in Packets, PacketArrives(lie)
      PROVE  /\ fsm'.state = fsm.state
             /\ stateChangeCh' = stateChangeCh /\ agentView' = agentView
  BY <1>3 DEF PacketArrives, HandlePacket, push, TypeOK, FSM
<1>4. CASE ProcessEvent
  <2> DEFINE g == drainOne(fsm)
  <2>1. /\ g \in FSM
        /\ g.notified = None => g.state = fsm.state
        /\ g.notified # None =>
             /\ g.notified.state = g.state
             /\ <<AsSeen(fsm.state), AsSeen(g.state)>> \in LieStep
    BY <1>4, DrainOne DEF ProcessEvent, Idle, LieInv, TypeOK
  <2>2. /\ g.notified # None => Len(stateChangeCh) < StateChangeCap
        /\ fsm' = g /\ agentView' = agentView
        /\ stateChangeCh' = IF g.notified = None THEN stateChangeCh
                            ELSE Append(stateChangeCh, g.notified)
    BY <1>4 DEF ProcessEvent
  <2> HIDE DEF g
  <2>3. CASE g.notified = None
    BY <2>1, <2>2, <2>3
  <2>4. CASE g.notified # None
    <3>1. g.notified \in AdjacencyEvent /\ AsSeen(g.state) \in LieState
      BY <2>1, <2>4 DEF FSM, State, AsSeen, LieState
    <3>2. /\ Announced(stateChangeCh') =
               Append(Announced(stateChangeCh), AsSeen(g.state))
          /\ Len(Announced(stateChangeCh)) < StateChangeCap
      BY <2>1, <2>2, <2>4, <3>1, AnnouncedFacts DEF TypeOK
    <3>3. View!Change(AsSeen(g.state))
      BY <2>1, <2>2, <2>4, <3>2 DEF View!Change, Announced, LieStep, View!LieStep
    <3> QED
      BY <3>1, <3>3 DEF View!Next, LieState, View!LieState
  <2> QED
    BY <2>3, <2>4
<1>5. CASE AgentReceives
  <2>1. /\ Announced(stateChangeCh) # <<>>
        /\ Head(Announced(stateChangeCh)) = AsSeen(Head(stateChangeCh).state)
        /\ Announced(Tail(stateChangeCh)) = Tail(Announced(stateChangeCh))
    BY <1>5, AnnouncedFacts DEF AgentReceives, TypeOK
  <2>2. View!Deliver
    BY <1>5, <2>1 DEF AgentReceives, View!Deliver, Announced
  <2> QED
    BY <2>2 DEF View!Next
<1>6. CASE UNCHANGED vars
  BY <1>6 DEF vars
<1> QED
  BY <1>1, <1>2, <1>3, <1>4, <1>5, <1>6 DEF Next

\* The interface implements LieView: ThreeWay is reached through TwoWay only,
\* and the agent is told of every change of state once and in order.
THEOREM ViewRefinement == Spec => ImplementsLieView
<1>1. Init => View!Init
  BY DEF Init, NewFSM, View!Init, AsSeen
<1>2. TypeOK /\ LieInv /\ [Next]_vars =>
        [View!Next]_<<AsSeen(fsm.state),
                      [i \in 1..Len(stateChangeCh) |-> AsSeen(stateChangeCh[i].state)],
                      AsSeen(agentView.state)>>
  BY StepView DEF Announced
<1> QED
  BY <1>1, <1>2, Invariance, PTL DEF Spec, ImplementsLieView, View!Spec
=============================================================================
