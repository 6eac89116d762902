---------------------------- MODULE LieFsmProofs ----------------------------
(***************************************************************************)
(* What one turn of drainQueue does to a LIE FSM, for all constants.  The  *)
(* proofs of LieInterface and LieLink rest on these lemmas.                *)
(***************************************************************************)
EXTENDS LieFsm, LieSteps, SequenceTheorems, TLAPS

-----------------------------------------------------------------------------
(* What each helper of the FSM does to the fields the invariants talk of. *)

\* What the FSM was created with: no event changes it.
SameIdentity(f, g) ==
    /\ g.systemID = f.systemID /\ g.level = f.level /\ g.localID = f.localID
    /\ g.address = f.address /\ g.floodPort = f.floodPort

\* push appends the event and touches nothing else.
LEMMA PushFacts ==
    ASSUME NEW f \in FSM, NEW ev \in Event
    PROVE  LET g == push(f, ev) IN
           /\ g \in FSM
           /\ g.eventQueue = Append(f.eventQueue, ev)
           /\ g.state = f.state /\ g.neighbor = f.neighbor
           /\ g.pending = f.pending /\ g.lieAge = f.lieAge
           /\ g.notified = f.notified /\ g.sent = f.sent
           /\ g.holdtime = f.holdtime /\ g.mnAge = f.mnAge
           /\ SameIdentity(f, g)
BY DEF push, FSM, SameIdentity

\* cleanup deletes the neighbor and its clock.
LEMMA CleanupFacts ==
    ASSUME NEW f \in FSM
    PROVE  LET g == cleanup(f) IN
           /\ g \in FSM
           /\ g.neighbor = None /\ g.lieAge = NoTime
           /\ g.eventQueue = f.eventQueue /\ g.state = f.state
           /\ g.pending = f.pending /\ g.notified = f.notified
           /\ g.holdtime = 0 /\ g.mnAge = f.mnAge /\ g.sent = f.sent
           /\ SameIdentity(f, g)
BY DEF cleanup, FSM, SameIdentity

\* enterState sets the state and notifies with the neighbor it leaves behind.
LEMMA EnterStateFacts ==
    ASSUME NEW f \in FSM, NEW s \in State
    PROVE  LET g == enterState(f, s) IN
           /\ g \in FSM
           /\ g.state = s
           /\ g.eventQueue = f.eventQueue /\ g.pending = f.pending
           /\ g.notified \in AdjacencyEvent
           /\ g.notified.state = s /\ g.notified.neighbor = g.neighbor
           /\ s = "OneWay" => g.neighbor = None /\ g.lieAge = NoTime
           /\ s # "OneWay" => g.neighbor = f.neighbor /\ g.lieAge = f.lieAge
                              /\ g.holdtime = f.holdtime
           /\ g.mnAge = f.mnAge /\ g.sent = f.sent /\ SameIdentity(f, g)
<1> DEFINE h == IF s = "OneWay" THEN cleanup(f) ELSE f
           n == [state |-> s, neighbor |-> h.neighbor]
<1>1. /\ h \in FSM
      /\ h.eventQueue = f.eventQueue /\ h.pending = f.pending
      /\ s = "OneWay" => h.neighbor = None /\ h.lieAge = NoTime
      /\ s # "OneWay" => h = f
      /\ h.mnAge = f.mnAge /\ h.sent = f.sent /\ SameIdentity(f, h)
  BY CleanupFacts DEF SameIdentity
<1>2. n \in AdjacencyEvent /\ n.state = s /\ n.neighbor = h.neighbor
  BY <1>1 DEF FSM, AdjacencyEvent
<1>3. enterState(f, s) = [h EXCEPT !.state = s, !.notified = n]
  BY DEF enterState
<1> HIDE DEF h, n
<1> DEFINE g == [h EXCEPT !.state = s, !.notified = n]
<1>4. g \in FSM
  <2>1. n \in AdjacencyEvent \cup {None}
    BY <1>2
  <2> QED
    BY <1>1, <2>1 DEF FSM
<1>5. /\ g.state = s /\ g.notified = n /\ g.neighbor = h.neighbor
      /\ g.eventQueue = h.eventQueue /\ g.pending = h.pending
      /\ g.lieAge = h.lieAge /\ g.holdtime = h.holdtime
      /\ g.mnAge = h.mnAge /\ g.sent = h.sent
  BY <1>1 DEF FSM
<1>6. SameIdentity(h, g)
  BY <1>1 DEF FSM, SameIdentity
<1>7. enterState(f, s) = g
  BY <1>3
<1> HIDE DEF g
<1>8. SameIdentity(f, g)
  BY <1>1, <1>6 DEF SameIdentity
<1> QED
  BY <1>1, <1>2, <1>4, <1>5, <1>7, <1>8

\* startMultipleNeighborsTimer only restarts the timer.
LEMMA StartTimerFacts ==
    ASSUME NEW f \in FSM
    PROVE  LET g == startMultipleNeighborsTimer(f) IN
           /\ g \in FSM
           /\ g.eventQueue = f.eventQueue /\ g.state = f.state
           /\ g.neighbor = f.neighbor /\ g.lieAge = f.lieAge
           /\ g.pending = f.pending /\ g.notified = f.notified
           /\ g.holdtime = f.holdtime /\ g.mnAge = 0 /\ g.sent = f.sent
           /\ SameIdentity(f, g)
BY DEF startMultipleNeighborsTimer, FSM, SameIdentity

\* The LIE of an FSM.
LieOf(f) ==
    [version |-> ProtocolMajorVersion, sender |-> f.systemID,
     level |-> f.level, mtu |-> DefaultMTUSize, src |-> f.address,
     localID |-> f.localID, floodPort |-> f.floodPort,
     holdtime |-> DefaultLIEHoldtime,
     neighbor |-> IF f.neighbor = None THEN None
                  ELSE [originator |-> f.neighbor.systemID,
                        remoteID |-> f.neighbor.linkID]]

\* sendLIE builds a well-formed packet and leaves the FSM alone.
LEMMA SendLIEFacts ==
    ASSUME NEW f \in FSM
    PROVE  LET g == sendLIE(f) IN
           /\ g \in FSM
           /\ g.eventQueue = f.eventQueue /\ g.state = f.state
           /\ g.neighbor = f.neighbor /\ g.lieAge = f.lieAge
           /\ g.pending = f.pending /\ g.notified = f.notified
           /\ g.holdtime = f.holdtime /\ g.mnAge = f.mnAge
           /\ SameIdentity(f, g)
           /\ g.sent = LieOf(f) /\ g.sent \in LiePacket
<1>1. (IF f.neighbor = None THEN None
       ELSE [originator |-> f.neighbor.systemID,
             remoteID |-> f.neighbor.linkID]) \in Reflection \cup {None}
  BY DEF FSM, NeighborState, Reflection
<1>2. LieOf(f) \in LiePacket
  BY <1>1, LieConstants
     DEF LieOf, FSM, LiePacket, ProtocolMajorVersion, DefaultMTUSize
<1>3. sendLIE(f) = [f EXCEPT !.sent = LieOf(f)]
  BY DEF sendLIE, LieOf
<1> QED
  BY <1>2, <1>3 DEF FSM, SameIdentity

\* checkHoldtime pushes HoldtimeExpired or nothing.
LEMMA CheckHoldtimeFacts ==
    ASSUME NEW f \in FSM
    PROVE  \/ checkHoldtime(f) = f
           \/ checkHoldtime(f) = push(f, "HoldtimeExpired")
BY DEF checkHoldtime

\* checkThreeWay does nothing in OneWay, and else pushes at most one event
\* about the neighbor.
LEMMA CheckThreeWayFacts ==
    ASSUME NEW f \in FSM, NEW lie
    PROVE  \/ checkThreeWay(f, lie) = f
           \/ /\ f.state # "OneWay"
              /\ \E ev \in {"NeighborDroppedReflection", "ValidReflection",
                            "MultipleNeighbors"} :
                    checkThreeWay(f, lie) = push(f, ev)
BY DEF checkThreeWay

-----------------------------------------------------------------------------
(* The order of the event queue. *)

\* A queue without an outside stimulus and without an event that leads to
\* OneWay: more events may be pushed.
Quiet(f) ==
    \A i \in 1..Len(f.eventQueue) :
        f.eventQueue[i] \notin LeadsToOneWay \cup {"LieRcvd", "TimerTick"}

\* Pushing an event that fits the state keeps the queue in order.
LEMMA PushOrder ==
    ASSUME NEW f \in FSM, NEW ev \in Event \ {"LieRcvd", "TimerTick"},
           QueueOrder(f), Quiet(f),
           ev \in AboutNeighbor => f.neighbor # None,
           ev \in {"ValidReflection", "MultipleNeighbors"} => f.state # "OneWay",
           ev \in LeadsToOneWay \cup {"NewNeighbor"} =>
             \A i \in 1..Len(f.eventQueue) : f.eventQueue[i] # "NewNeighbor"
    PROVE  /\ QueueOrder(push(f, ev))
           /\ ev \notin LeadsToOneWay => Quiet(push(f, ev))
<1> DEFINE g == push(f, ev)
<1>1. /\ g \in FSM /\ g.eventQueue = Append(f.eventQueue, ev)
      /\ g.state = f.state /\ g.neighbor = f.neighbor
  BY PushFacts
<1>2. /\ f.eventQueue \in Seq(Event)
      /\ Len(g.eventQueue) = Len(f.eventQueue) + 1
      /\ g.eventQueue[Len(f.eventQueue) + 1] = ev
      /\ \A i \in 1..Len(f.eventQueue) : g.eventQueue[i] = f.eventQueue[i]
  BY <1>1 DEF FSM
<1> HIDE DEF g
<1>3. QueueOrder(g)
  <2> SUFFICES ASSUME NEW i \in 1..(Len(f.eventQueue) + 1)
               PROVE  LET e == g.eventQueue[i] IN
                 /\ e \in {"LieRcvd", "TimerTick"} => Len(g.eventQueue) = 1
                 /\ e = "LieRcvd" => g.pending # None
                 /\ e \in LeadsToOneWay =>
                      /\ i = Len(g.eventQueue)
                      /\ \A j \in 1..i : g.eventQueue[j] # "NewNeighbor"
                 /\ e = "NewNeighbor" =>
                      \A j \in 1..(i - 1) : g.eventQueue[j] # "NewNeighbor"
                 /\ e \in AboutNeighbor => g.neighbor # None
                 /\ e \in {"ValidReflection", "MultipleNeighbors"} =>
                      g.state # "OneWay"
    BY <1>2 DEF QueueOrder
  <2>1. CASE i \in 1..Len(f.eventQueue)
    BY <1>1, <1>2, <2>1 DEF QueueOrder, Quiet
  <2>2. CASE i = Len(f.eventQueue) + 1
    BY <1>1, <1>2, <2>2 DEF LeadsToOneWay
  <2> QED
    BY <2>1, <2>2, <1>2 DEF FSM
<1>4. ev \notin LeadsToOneWay => Quiet(g)
  BY <1>2 DEF Quiet, FSM
<1> QED
  BY <1>3, <1>4 DEF g

\* Pushing an event hides no NewNeighbor, and pushing NewNeighbor adds it.
LEMMA PushKeepsNew ==
    ASSUME NEW f \in FSM, NEW ev \in Event,
           OneWayNeighborIsNew(f) \/ ev = "NewNeighbor"
    PROVE  OneWayNeighborIsNew(push(f, ev))
<1> DEFINE g == push(f, ev)
<1>1. /\ g.eventQueue = Append(f.eventQueue, ev) /\ f.eventQueue \in Seq(Event)
      /\ g.state = f.state /\ g.neighbor = f.neighbor /\ g.lieAge = f.lieAge
  BY PushFacts DEF FSM
<1>2. /\ Len(g.eventQueue) = Len(f.eventQueue) + 1
      /\ Len(f.eventQueue) \in Nat
      /\ g.eventQueue[Len(f.eventQueue) + 1] = ev
      /\ \A i \in 1..Len(f.eventQueue) : g.eventQueue[i] = f.eventQueue[i]
  BY <1>1
<1> HIDE DEF g
<1>3. CASE ev = "NewNeighbor"
  BY <1>2, <1>3 DEF OneWayNeighborIsNew, g
<1>4. CASE OneWayNeighborIsNew(f)
  <2>1. OneWayNeighborIsNew(g)
    BY <1>1, <1>2, <1>4 DEF OneWayNeighborIsNew
  <2> QED
    BY <2>1 DEF g
<1> QED
  BY <1>3, <1>4

\* CHECK_THREE_WAY keeps the queue in order.
LEMMA CheckThreeWayOrder ==
    ASSUME NEW f \in FSM, NEW lie, QueueOrder(f), Quiet(f),
           f.neighbor # None, OneWayNeighborIsNew(f)
    PROVE  LET g == checkThreeWay(f, lie) IN
           /\ g \in FSM /\ QueueOrder(g) /\ OneWayNeighborIsNew(g)
           /\ g.state = f.state /\ g.notified = f.notified
<1>1. CASE checkThreeWay(f, lie) = f
  BY <1>1
<1>2. CASE /\ f.state # "OneWay"
           /\ \E ev \in {"NeighborDroppedReflection", "ValidReflection",
                         "MultipleNeighbors"} :
                 checkThreeWay(f, lie) = push(f, ev)
  <2>1. PICK ev \in {"NeighborDroppedReflection", "ValidReflection",
                     "MultipleNeighbors"} :
                 checkThreeWay(f, lie) = push(f, ev)
    BY <1>2
  <2>2. ev \in Event \ {"LieRcvd", "TimerTick"} /\ ev \notin LeadsToOneWay
    BY DEF Event, LeadsToOneWay
  <2>3. push(f, ev) \in FSM /\ push(f, ev).state = f.state
        /\ push(f, ev).notified = f.notified
    BY <2>2, PushFacts
  <2>4. QueueOrder(push(f, ev))
    BY <1>2, <2>2, PushOrder
  <2>5. OneWayNeighborIsNew(push(f, ev))
    BY <2>2, PushKeepsNew
  <2> QED
    BY <2>1, <2>3, <2>4, <2>5
<1> QED
  BY <1>1, <1>2, CheckThreeWayFacts

\* Step 4 of PROCESS_LIE, entered with only UpdateZTPOffer in the queue.
LEMMA TrackNeighborOrder ==
    ASSUME NEW f \in FSM, NEW lie \in LiePacket, ValidLie(f, lie),
           f.eventQueue = <<"UpdateZTPOffer">>,
           f.state = "OneWay" => f.neighbor = None
    PROVE  LET g == trackNeighbor(f, lie) IN
           /\ g \in FSM /\ QueueOrder(g) /\ OneWayNeighborIsNew(g)
           /\ g.state = f.state /\ g.notified = f.notified
<1> DEFINE n == f.neighbor
           m == [systemID |-> lie.sender, level |-> lie.level,
                 linkID |-> lie.localID, address |-> lie.src,
                 floodPort |-> lie.floodPort, holdtime |-> lie.holdtime]
           k == [n EXCEPT !.floodPort = lie.floodPort,
                          !.linkID = lie.localID, !.holdtime = lie.holdtime]
           fm == [f EXCEPT !.neighbor = m]
           fk == [f EXCEPT !.neighbor = k]
<1>0. ASSUME NEW h \in FSM, h.eventQueue = <<"UpdateZTPOffer">>
      PROVE  QueueOrder(h) /\ Quiet(h)
  BY <1>0 DEF QueueOrder, Quiet, LeadsToOneWay, AboutNeighbor
<1>1. m \in NeighborState /\ m # None
  BY LieConstants DEF LiePacket, NeighborState, ValidLie, Foreign, Inadmissible
<1>2. CASE n = None
  <2>1. /\ fm \in FSM /\ fm.eventQueue = <<"UpdateZTPOffer">>
        /\ fm.state = f.state /\ fm.notified = f.notified
        /\ fm.neighbor # None
    BY <1>1 DEF FSM
  <2>2. trackNeighbor(f, lie) = checkThreeWay(push(fm, "NewNeighbor"), lie)
    BY <1>2 DEF trackNeighbor
  <2> HIDE DEF fm, m
  <2>3. "NewNeighbor" \in Event \ {"LieRcvd", "TimerTick"}
        /\ "NewNeighbor" \notin LeadsToOneWay
    BY DEF Event, LeadsToOneWay
  <2>4. QueueOrder(push(fm, "NewNeighbor")) /\ Quiet(push(fm, "NewNeighbor"))
    BY <1>0, <2>1, <2>3, PushOrder
  <2>5. OneWayNeighborIsNew(push(fm, "NewNeighbor"))
    BY <2>1, <2>3, PushKeepsNew
  <2>6. /\ push(fm, "NewNeighbor") \in FSM
        /\ push(fm, "NewNeighbor").neighbor # None
        /\ push(fm, "NewNeighbor").state = f.state
        /\ push(fm, "NewNeighbor").notified = f.notified
    BY <2>1, <2>3, PushFacts
  <2> QED
    BY <2>2, <2>4, <2>5, <2>6, CheckThreeWayOrder
<1>3. CASE n # None
  <2>0. f.state # "OneWay" /\ n \in NeighborState
    BY <1>3 DEF FSM
  <2>1. ASSUME NEW ev \in {"MultipleNeighbors", "NeighborChangedLevel",
                           "NeighborChangedAddress"},
               trackNeighbor(f, lie) = push(f, ev)
        PROVE  LET g == trackNeighbor(f, lie) IN
               /\ g \in FSM /\ QueueOrder(g) /\ OneWayNeighborIsNew(g)
               /\ g.state = f.state /\ g.notified = f.notified
    <3>1. ev \in Event \ {"LieRcvd", "TimerTick"}
      BY DEF Event
    <3>2. \A i \in 1..Len(f.eventQueue) : f.eventQueue[i] # "NewNeighbor"
      OBVIOUS
    <3>3. QueueOrder(push(f, ev))
      BY <1>0, <1>3, <2>0, <3>1, <3>2, PushOrder
    <3>4. OneWayNeighborIsNew(push(f, ev))
      BY <2>0, <3>1, PushFacts DEF OneWayNeighborIsNew
    <3> QED
      BY <2>1, <3>1, <3>3, <3>4, PushFacts
  <2>2. CASE /\ n.systemID = lie.sender /\ n.level = lie.level
             /\ n.address = lie.src
    <3> DEFINE minor == n.floodPort # lie.floodPort \/ n.linkID # lie.localID
               fc == IF minor THEN push(fk, "NeighborChangedMinorFields")
                     ELSE fk
    <3>1. k \in NeighborState /\ k # None
      BY <2>0, LieConstants DEF LiePacket, NeighborState
    <3>2. /\ fk \in FSM /\ fk.eventQueue = <<"UpdateZTPOffer">>
          /\ fk.state = f.state /\ fk.notified = f.notified
          /\ fk.neighbor # None
      BY <3>1 DEF FSM
    <3>3. trackNeighbor(f, lie) = checkThreeWay(fc, lie)
      BY <1>3, <2>2 DEF trackNeighbor
    <3> HIDE DEF fk, k, minor
    <3>4. "NeighborChangedMinorFields" \in Event \ {"LieRcvd", "TimerTick"}
          /\ "NeighborChangedMinorFields" \notin LeadsToOneWay
      BY DEF Event, LeadsToOneWay
    <3>5. /\ QueueOrder(fk) /\ Quiet(fk)
          /\ QueueOrder(push(fk, "NeighborChangedMinorFields"))
          /\ Quiet(push(fk, "NeighborChangedMinorFields"))
      BY <1>0, <3>2, <3>4, PushOrder
    <3>6. /\ fc \in FSM /\ fc.neighbor # None
          /\ fc.state = f.state /\ fc.notified = f.notified
      BY <3>2, <3>4, PushFacts
    <3>7. QueueOrder(fc) /\ Quiet(fc) /\ OneWayNeighborIsNew(fc)
      BY <3>5, <3>6, <2>0 DEF OneWayNeighborIsNew
    <3> HIDE DEF fc
    <3> QED
      BY <3>3, <3>6, <3>7, CheckThreeWayOrder
  <2>3. CASE n.systemID # lie.sender
    <3>1. trackNeighbor(f, lie) = push(f, "MultipleNeighbors")
      BY <1>3, <2>3 DEF trackNeighbor
    <3> QED
      BY <2>1, <3>1
  <2>4. CASE n.systemID = lie.sender /\ n.level # lie.level
    <3>1. trackNeighbor(f, lie) = push(f, "NeighborChangedLevel")
      BY <1>3, <2>4 DEF trackNeighbor
    <3> QED
      BY <2>1, <3>1
  <2>5. CASE /\ n.systemID = lie.sender /\ n.level = lie.level
             /\ n.address # lie.src
    <3>1. trackNeighbor(f, lie) = push(f, "NeighborChangedAddress")
      BY <1>3, <2>5 DEF trackNeighbor
    <3> QED
      BY <2>1, <3>1
  <2> QED
    BY <2>2, <2>3, <2>4, <2>5
<1> QED
  BY <1>2, <1>3

\* PROCESS_LIE, entered with an empty queue.
LEMMA ProcessLIEOrder ==
    ASSUME NEW f \in FSM, f.pending # None, f.eventQueue = <<>>,
           f.state = "OneWay" => f.neighbor = None /\ f.lieAge = NoTime
    PROVE  LET g == processLIE(f) IN
           /\ g \in FSM /\ QueueOrder(g) /\ OneWayNeighborIsNew(g)
           /\ g.state = f.state /\ g.notified = f.notified
<1> DEFINE lie == f.pending
           h == [f EXCEPT !.pending = None]
           c == cleanup(h)
           r == [push(h, "UpdateZTPOffer") EXCEPT
                    !.lieAge = 0, !.holdtime = lie.holdtime]
<1>1. /\ lie \in LiePacket /\ h \in FSM /\ h.eventQueue = <<>>
      /\ h.state = f.state /\ h.notified = f.notified
      /\ h.neighbor = f.neighbor /\ h.lieAge = f.lieAge
  BY DEF FSM
<1>2. /\ c \in FSM /\ c.eventQueue = <<>> /\ c.state = f.state
      /\ c.notified = f.notified /\ c.neighbor = None /\ c.lieAge = NoTime
  BY <1>1, CleanupFacts
<1> DEFINE ev == Inadmissible(h, lie)
<1>3. processLIE(f) = IF Foreign(h, lie) THEN c
                      ELSE IF ev # "none"
                      THEN push(push(c, "UpdateZTPOffer"), ev)
                      ELSE trackNeighbor(r, lie)
  BY DEF processLIE
<1> HIDE DEF h, c
<1>4. CASE Foreign(h, lie)
  BY <1>2, <1>3, <1>4 DEF QueueOrder, OneWayNeighborIsNew
<1>5. CASE ~Foreign(h, lie) /\ ev # "none"
  <2> DEFINE d == push(c, "UpdateZTPOffer")
  <2>1. "UpdateZTPOffer" \in Event /\ ev \in {"MTUMismatch", "UnacceptableHeader"}
    BY <1>5 DEF Event, Inadmissible
  <2>2. /\ d \in FSM /\ d.eventQueue = <<"UpdateZTPOffer">>
        /\ d.state = f.state /\ d.notified = f.notified
        /\ d.neighbor = None /\ d.lieAge = NoTime
    BY <1>2, <2>1, PushFacts
  <2> HIDE DEF d
  <2>3. QueueOrder(d) /\ Quiet(d)
    BY <2>2 DEF QueueOrder, Quiet, LeadsToOneWay, AboutNeighbor
  <2>4. ev \in Event \ {"LieRcvd", "TimerTick"} /\ ev \notin AboutNeighbor
    BY <2>1 DEF Event, AboutNeighbor
  <2>5. QueueOrder(push(d, ev))
    BY <2>1, <2>2, <2>3, <2>4, PushOrder
  <2>6. /\ push(d, ev) \in FSM /\ push(d, ev).state = f.state
        /\ push(d, ev).notified = f.notified
        /\ push(d, ev).neighbor = None /\ push(d, ev).lieAge = NoTime
    BY <2>2, <2>4, PushFacts
  <2>7. OneWayNeighborIsNew(push(d, ev))
    BY <2>6 DEF OneWayNeighborIsNew
  <2> QED
    BY <1>3, <1>5, <2>5, <2>6, <2>7 DEF d
<1>6. CASE ~Foreign(h, lie) /\ ev = "none"
  <2>1. /\ push(h, "UpdateZTPOffer") \in FSM
        /\ push(h, "UpdateZTPOffer").eventQueue = <<"UpdateZTPOffer">>
        /\ push(h, "UpdateZTPOffer").state = f.state
        /\ push(h, "UpdateZTPOffer").notified = f.notified
        /\ push(h, "UpdateZTPOffer").neighbor = f.neighbor
    BY <1>1, PushFacts DEF Event
  <2>2. /\ r \in FSM /\ r.eventQueue = <<"UpdateZTPOffer">>
        /\ r.state = f.state /\ r.notified = f.notified
        /\ r.neighbor = f.neighbor
    <3> DEFINE d == push(h, "UpdateZTPOffer")
    <3>1. lie.holdtime \in Nat
      BY <1>1, LieConstants DEF LiePacket
    <3>2. d \in FSM
      BY <2>1
    <3> HIDE DEF d, lie
    <3> DEFINE t == [d EXCEPT !.lieAge = 0, !.holdtime = lie.holdtime]
    <3>3. t \in FSM
      BY <3>1, <3>2 DEF FSM
    <3>4. /\ t.eventQueue = d.eventQueue /\ t.state = d.state
          /\ t.notified = d.notified /\ t.neighbor = d.neighbor
      BY <3>2 DEF FSM
    <3> HIDE DEF t
    <3>5. /\ t \in FSM /\ t.eventQueue = <<"UpdateZTPOffer">>
          /\ t.state = f.state /\ t.notified = f.notified
          /\ t.neighbor = f.neighbor
      BY <2>1, <3>3, <3>4 DEF d
    <3> QED
      BY <3>5 DEF t, d
  <2>3. r.systemID = h.systemID /\ r.level = h.level
    BY <1>1 DEF push, FSM
  <2>4. ValidLie(r, lie)
    BY <1>6, <2>3 DEF ValidLie, Foreign, Inadmissible, levelAcceptable
  <2> HIDE DEF r
  <2> QED
    BY <1>1, <1>3, <1>6, <2>2, <2>4, TrackNeighborOrder
<1> QED
  BY <1>4, <1>5, <1>6

\* Taking the first event off the queue keeps the rest in order.
LEMMA Dequeue ==
    ASSUME NEW f \in FSM, QueueOrder(f), OneWayNeighborIsNew(f),
           f.eventQueue # <<>>
    PROVE  LET ev == Head(f.eventQueue)
               h == [f EXCEPT !.eventQueue = Tail(@),
                              !.sent = None, !.notified = None]
           IN  /\ h \in FSM /\ ev \in Event /\ h.notified = None
               /\ h.state = f.state /\ h.neighbor = f.neighbor
               /\ h.pending = f.pending /\ h.lieAge = f.lieAge
               /\ QueueOrder(h)
               /\ ev # "NewNeighbor" => OneWayNeighborIsNew(h)
               /\ ev \in LeadsToOneWay \cup {"LieRcvd", "TimerTick"} =>
                    h.eventQueue = <<>>
               /\ ev = "NewNeighbor" => Quiet(h)
               /\ ev = "LieRcvd" => f.pending # None
               /\ ev \in AboutNeighbor => f.neighbor # None
               /\ ev \in {"ValidReflection", "MultipleNeighbors"} =>
                    f.state # "OneWay"
<1> DEFINE q == f.eventQueue
           ev == Head(q)
           h == [f EXCEPT !.eventQueue = Tail(@),
                          !.sent = None, !.notified = None]
<1>1. /\ q \in Seq(Event) /\ q # <<>> /\ Len(q) \in Nat \ {0}
      /\ ev = q[1] /\ ev \in Event
      /\ Tail(q) \in Seq(Event) /\ Len(Tail(q)) = Len(q) - 1
      /\ \A i \in 1..Len(Tail(q)) : Tail(q)[i] = q[i + 1]
      /\ Len(q) = 1 => Tail(q) = <<>>
  <2>1. q \in Seq(Event) /\ q # <<>>
    BY DEF FSM
  <2>2. Len(q) \in Nat \ {0} /\ ev = q[1]
    BY <2>1, EmptySeq
  <2>3. /\ ev \in Event /\ Tail(q) \in Seq(Event)
        /\ Len(Tail(q)) = Len(q) - 1
        /\ \A i \in 1..Len(Tail(q)) : Tail(q)[i] = q[i + 1]
    BY <2>1, HeadTailProperties
  <2>4. ASSUME Len(q) = 1 PROVE Tail(q) = <<>>
    <3>1. Len(Tail(q)) = 0
      BY <2>3, <2>4
    <3> QED
      BY <2>3, <3>1, EmptySeq
  <2> QED
    BY <2>1, <2>2, <2>3, <2>4
<1>2. /\ h \in FSM /\ h.eventQueue = Tail(q) /\ h.notified = None
      /\ h.state = f.state /\ h.neighbor = f.neighbor
      /\ h.pending = f.pending /\ h.lieAge = f.lieAge
  BY <1>1 DEF FSM
<1> HIDE DEF h
<1>3. /\ ev \in LeadsToOneWay \cup {"LieRcvd", "TimerTick"} => Len(q) = 1
      /\ ev = "LieRcvd" => f.pending # None
      /\ ev \in AboutNeighbor => f.neighbor # None
      /\ ev \in {"ValidReflection", "MultipleNeighbors"} => f.state # "OneWay"
  <2>1. 1 \in 1..Len(q) /\ ev = q[1]
    BY <1>1
  <2> QED
    BY <2>1 DEF QueueOrder
<1>4. \A i \in 1..Len(Tail(q)) : Tail(q)[i] \notin {"LieRcvd", "TimerTick"}
  BY <1>1 DEF QueueOrder
<1>5. QueueOrder(h)
  <2> SUFFICES ASSUME NEW i \in 1..Len(Tail(q))
               PROVE  LET e == Tail(q)[i] IN
                 /\ e \in LeadsToOneWay =>
                      /\ i = Len(Tail(q))
                      /\ \A j \in 1..i : Tail(q)[j] # "NewNeighbor"
                 /\ e = "NewNeighbor" =>
                      \A j \in 1..(i - 1) : Tail(q)[j] # "NewNeighbor"
                 /\ e \in AboutNeighbor => f.neighbor # None
                 /\ e \in {"ValidReflection", "MultipleNeighbors"} =>
                      f.state # "OneWay"
    BY <1>2, <1>4 DEF QueueOrder
  <2> QED
    BY <1>1 DEF QueueOrder
<1>6. ev # "NewNeighbor" => OneWayNeighborIsNew(h)
  <2> SUFFICES ASSUME ev # "NewNeighbor", f.state = "OneWay",
                      f.neighbor # None \/ f.lieAge # NoTime
               PROVE  \E i \in 1..Len(Tail(q)) : Tail(q)[i] = "NewNeighbor"
    BY <1>2 DEF OneWayNeighborIsNew
  <2>1. PICK i \in 1..Len(q) : q[i] = "NewNeighbor"
    BY DEF OneWayNeighborIsNew
  <2>2. i - 1 \in 1..Len(Tail(q)) /\ Tail(q)[i - 1] = q[i]
    BY <1>1, <2>1
  <2> QED
    BY <2>1, <2>2
<1>7. ev = "NewNeighbor" => Quiet(h)
  <2> SUFFICES ASSUME ev = "NewNeighbor", NEW i \in 1..Len(Tail(q)),
                      Tail(q)[i] \in LeadsToOneWay
               PROVE  FALSE
    BY <1>2, <1>4 DEF Quiet
  <2>1. q[i + 1] \in LeadsToOneWay /\ i + 1 \in 1..Len(q) /\ 1 \in 1..(i + 1)
    BY <1>1
  <2> QED
    BY <1>1, <2>1 DEF QueueOrder
<1> QED
  BY <1>1, <1>2, <1>3, <1>5, <1>6, <1>7 DEF h

-----------------------------------------------------------------------------
(* One turn of drainQueue. *)

\* Processing the next event keeps the FSM well typed and its queue in order,
\* notifies exactly on a change of state, and moves along LieStep.
LEMMA DrainOne ==
    ASSUME NEW f \in FSM, QueueOrder(f), OneWayNeighborIsNew(f),
           f.eventQueue # <<>>
    PROVE  LET g == drainOne(f) IN
           /\ g \in FSM /\ QueueOrder(g) /\ OneWayNeighborIsNew(g)
           /\ g.notified = None => g.state = f.state
           /\ g.notified # None =>
                /\ g.notified.state = g.state
                /\ g.notified.neighbor = None <=> g.state = "OneWay"
                /\ <<AsSeen(f.state), AsSeen(g.state)>> \in LieStep
<1> DEFINE ev == Head(f.eventQueue)
           h == [f EXCEPT !.eventQueue = Tail(@),
                          !.sent = None, !.notified = None]
           Good(g) == /\ g \in FSM /\ QueueOrder(g) /\ OneWayNeighborIsNew(g)
                      /\ g.notified = None => g.state = f.state
                      /\ g.notified # None =>
                           /\ g.notified.state = g.state
                           /\ g.notified.neighbor = None <=> g.state = "OneWay"
                           /\ <<AsSeen(f.state), AsSeen(g.state)>> \in LieStep
<1>1. /\ h \in FSM /\ ev \in Event /\ h.notified = None
      /\ h.state = f.state /\ h.neighbor = f.neighbor
      /\ h.pending = f.pending /\ h.lieAge = f.lieAge
      /\ QueueOrder(h)
      /\ ev # "NewNeighbor" => OneWayNeighborIsNew(h)
      /\ ev \in LeadsToOneWay \cup {"LieRcvd", "TimerTick"} =>
           h.eventQueue = <<>>
      /\ ev = "NewNeighbor" => Quiet(h)
      /\ ev = "LieRcvd" => f.pending # None
      /\ ev \in AboutNeighbor => f.neighbor # None
      /\ ev \in {"ValidReflection", "MultipleNeighbors"} => f.state # "OneWay"
  BY Dequeue
<1>2. drainOne(f) = processEvent(h, ev)
  BY DEF drainOne
<1>3. /\ f.state \in State
      /\ <<AsSeen(f.state), "OneWay">> \in LieStep /\ AsSeen("OneWay") = "OneWay"
      /\ AsSeen("MultipleNeighborsWait") = "OneWay"
  BY DEF FSM, State, AsSeen, LieStep
<1> HIDE DEF h, ev
<1>4. ASSUME ev # "NewNeighbor" PROVE Good(h)
  BY <1>1, <1>4
<1>5. ASSUME ev = "LieRcvd" PROVE Good(processLIE(h))
  <2>1. h.state = "OneWay" => h.neighbor = None /\ h.lieAge = NoTime
    BY <1>1, <1>5 DEF OneWayNeighborIsNew
  <2>2. LET g == processLIE(h) IN
        /\ g \in FSM /\ QueueOrder(g) /\ OneWayNeighborIsNew(g)
        /\ g.state = h.state /\ g.notified = h.notified
    BY <1>1, <1>5, <2>1, ProcessLIEOrder
  <2> QED
    BY <1>1, <2>2
<1>6. ASSUME ev = "SendLie" PROVE Good(sendLIE(h))
  <2>1. LET g == sendLIE(h) IN
        /\ g \in FSM
        /\ g.eventQueue = h.eventQueue /\ g.state = h.state
        /\ g.neighbor = h.neighbor /\ g.lieAge = h.lieAge
        /\ g.pending = h.pending /\ g.notified = h.notified
    BY <1>1, SendLIEFacts
  <2> QED
    BY <1>1, <1>6, <2>1 DEF QueueOrder, OneWayNeighborIsNew
<1>7. ASSUME NEW e \in {"SendLie", "HoldtimeExpired", "MultipleNeighborsDone"},
             NEW d \in FSM, QueueOrder(d), Quiet(d), OneWayNeighborIsNew(d),
             d.state = f.state, d.notified = None,
             \A i \in 1..Len(d.eventQueue) : d.eventQueue[i] # "NewNeighbor"
      PROVE  /\ Good(push(d, e))
             /\ e = "SendLie" => Quiet(push(d, e))
  <2>1. e \in Event \ {"LieRcvd", "TimerTick"} /\ e \notin AboutNeighbor
        /\ (e = "SendLie" => e \notin LeadsToOneWay)
    BY DEF Event, AboutNeighbor, LeadsToOneWay
  <2>2. QueueOrder(push(d, e)) /\ (e = "SendLie" => Quiet(push(d, e)))
    BY <1>7, <2>1, PushOrder
  <2>3. OneWayNeighborIsNew(push(d, e))
    BY <1>7, <2>1, PushKeepsNew
  <2>4. /\ push(d, e) \in FSM /\ push(d, e).state = f.state
        /\ push(d, e).notified = None
    BY <1>7, <2>1, PushFacts
  <2> QED
    BY <2>2, <2>3, <2>4
<1>8. ASSUME ev = "TimerTick"
      PROVE  /\ Good(push(h, "SendLie"))
             /\ Good(checkHoldtime(push(h, "SendLie")))
             /\ Good(push(h, "MultipleNeighborsDone"))
  <2>1. Quiet(h) /\ OneWayNeighborIsNew(h)
        /\ \A i \in 1..Len(h.eventQueue) : h.eventQueue[i] # "NewNeighbor"
    BY <1>1, <1>8 DEF Quiet
  <2>2. Good(push(h, "SendLie")) /\ Quiet(push(h, "SendLie"))
        /\ Good(push(h, "MultipleNeighborsDone"))
    BY <1>1, <1>7, <2>1
  <2>3. push(h, "SendLie").eventQueue = <<"SendLie">>
        /\ push(h, "SendLie").notified = None
        /\ push(h, "SendLie").state = f.state
    BY <1>1, <1>8, PushFacts DEF Event
  <2>4. Good(push(push(h, "SendLie"), "HoldtimeExpired"))
    BY <1>7, <2>2, <2>3
  <2> QED
    BY <2>2, <2>4, CheckHoldtimeFacts
<1>9. ASSUME ev \in LeadsToOneWay PROVE Good(enterState(h, "OneWay"))
  <2>1. LET g == enterState(h, "OneWay") IN
        /\ g \in FSM /\ g.state = "OneWay" /\ g.eventQueue = <<>>
        /\ g.notified.state = "OneWay" /\ g.notified.neighbor = None
        /\ g.notified \in AdjacencyEvent /\ g.neighbor = None /\ g.lieAge = NoTime
    BY <1>1, <1>9, EnterStateFacts DEF State
  <2> QED
    BY <1>3, <2>1, LieConstants DEF QueueOrder, OneWayNeighborIsNew
<1>10. ASSUME NEW d \in FSM, QueueOrder(d), d.neighbor # None,
              NEW s \in State \ {"OneWay"},
              <<AsSeen(f.state), AsSeen(s)>> \in LieStep
       PROVE  Good(enterState(d, s))
  <2>1. LET g == enterState(d, s) IN
        /\ g \in FSM /\ g.state = s /\ g.eventQueue = d.eventQueue
        /\ g.pending = d.pending /\ g.neighbor = d.neighbor
        /\ g.notified \in AdjacencyEvent
        /\ g.notified.state = s /\ g.notified.neighbor = d.neighbor
    BY <1>10, EnterStateFacts
  <2>2. enterState(d, s).notified # None
    BY <2>1, LieConstants
  <2>3. QueueOrder(enterState(d, s))
    BY <1>10, <2>1 DEF QueueOrder
  <2>4. OneWayNeighborIsNew(enterState(d, s))
    BY <2>1 DEF OneWayNeighborIsNew
  <2> QED
    BY <1>10, <2>1, <2>2, <2>3, <2>4
<1>11. LET t == startMultipleNeighborsTimer(h) IN
       /\ t \in FSM /\ QueueOrder(t) /\ t.neighbor = f.neighbor
       /\ ev # "NewNeighbor" => Good(t)
  <2>1. LET t == startMultipleNeighborsTimer(h) IN
        /\ t \in FSM /\ t.eventQueue = h.eventQueue /\ t.state = h.state
        /\ t.neighbor = h.neighbor /\ t.lieAge = h.lieAge
        /\ t.pending = h.pending /\ t.notified = h.notified
    BY <1>1, StartTimerFacts
  <2> QED
    BY <1>1, <2>1 DEF QueueOrder, OneWayNeighborIsNew
<1>12. ASSUME ev = "NewNeighbor"
       PROVE  /\ f.state = "OneWay" =>
                   Good(enterState(push(h, "SendLie"), "TwoWay"))
              /\ Good(enterState(startMultipleNeighborsTimer(push(h, "SendLie")),
                                 "MultipleNeighborsWait"))
  <2> DEFINE d == push(h, "SendLie")
  <2>1. "SendLie" \in Event \ {"LieRcvd", "TimerTick"}
        /\ "SendLie" \notin AboutNeighbor /\ "SendLie" \notin LeadsToOneWay
    BY DEF Event, AboutNeighbor, LeadsToOneWay
  <2>2. QueueOrder(d)
    BY <1>1, <1>12, <2>1, PushOrder
  <2>3. d \in FSM /\ d.neighbor # None
    BY <1>1, <1>12, <2>1, PushFacts DEF AboutNeighbor
  <2> HIDE DEF d
  <2>4. LET t == startMultipleNeighborsTimer(d) IN
        t \in FSM /\ QueueOrder(t) /\ t.neighbor # None
    BY <2>2, <2>3, StartTimerFacts DEF QueueOrder
  <2>5. "TwoWay" \in State \ {"OneWay"}
        /\ "MultipleNeighborsWait" \in State \ {"OneWay"}
    BY DEF State
  <2> QED
    BY <1>3, <1>10, <2>2, <2>3, <2>4, <2>5 DEF d, AsSeen, LieStep
<1>13. ASSUME ev \in {"MultipleNeighbors", "NewNeighbor"}
       PROVE  Good(enterState(startMultipleNeighborsTimer(h),
                              "MultipleNeighborsWait"))
  BY <1>1, <1>3, <1>10, <1>11, <1>13 DEF State, AboutNeighbor
<1>14. ASSUME ev = "ValidReflection", f.state = "TwoWay"
       PROVE  Good(enterState(h, "ThreeWay"))
  BY <1>1, <1>10, <1>14 DEF State, AboutNeighbor, AsSeen, LieStep
<1>15. ASSUME ev = "NeighborDroppedReflection", f.state = "ThreeWay"
       PROVE  Good(enterState(h, "TwoWay"))
  BY <1>1, <1>10, <1>15 DEF State, AboutNeighbor, AsSeen, LieStep
<1>16. ASSUME ev = "LieRcvd" PROVE Good([h EXCEPT !.pending = None])
  <2>1. LET g == [h EXCEPT !.pending = None] IN
        /\ g \in FSM /\ g.eventQueue = <<>> /\ g.state = h.state
        /\ g.neighbor = h.neighbor /\ g.lieAge = h.lieAge
        /\ g.notified = None
    BY <1>1, <1>16 DEF FSM
  <2> QED
    BY <1>1, <1>16, <2>1 DEF QueueOrder, OneWayNeighborIsNew
<1> DEFINE ToOneWay == {"NeighborChangedLevel", "NeighborChangedAddress",
                 "UnacceptableHeader", "MTUMismatch", "HoldtimeExpired"}
<1>17. /\ ToOneWay \subseteq LeadsToOneWay
       /\ "MultipleNeighborsDone" \in LeadsToOneWay
  BY DEF LeadsToOneWay
<1> HIDE DEF Good
<1>18. CASE f.state = "OneWay"
  <2>1. processEvent(h, ev) = processOneWay(h, ev)
    BY <1>1, <1>18 DEF processEvent
  <2>2. Good(processOneWay(h, ev))
    BY <1>1, <1>4, <1>5, <1>6, <1>8, <1>12, <1>18 DEF processOneWay
  <2> QED
    BY <1>2, <2>1, <2>2 DEF Good
<1>19. CASE f.state = "TwoWay"
  <2>1. processEvent(h, ev) = processTwoWay(h, ev)
    BY <1>1, <1>19 DEF processEvent
  <2>2. CASE ev \in ToOneWay
    <3>1. Good(enterState(h, "OneWay"))
      BY <1>9, <1>17, <2>2
    <3>2. processTwoWay(h, ev) = enterState(h, "OneWay")
      BY <2>2 DEF processTwoWay
    <3> QED
      BY <1>2, <2>1, <3>1, <3>2 DEF Good
  <2>3. CASE ev \notin ToOneWay
    <3>1. Good(processTwoWay(h, ev))
      BY <1>4, <1>5, <1>6, <1>8, <1>12, <1>13, <1>14, <1>19, <2>3
         DEF processTwoWay
    <3> QED
      BY <1>2, <2>1, <3>1 DEF Good
  <2> QED
    BY <2>2, <2>3
<1>20. CASE f.state = "ThreeWay"
  <2>1. processEvent(h, ev) = processThreeWay(h, ev)
    BY <1>1, <1>20 DEF processEvent
  <2>2. CASE ev \in ToOneWay
    <3>1. Good(enterState(h, "OneWay"))
      BY <1>9, <1>17, <2>2
    <3>2. processThreeWay(h, ev) = enterState(h, "OneWay")
      BY <2>2 DEF processThreeWay
    <3> QED
      BY <1>2, <2>1, <3>1, <3>2 DEF Good
  <2>3. CASE ev \notin ToOneWay
    <3>1. Good(processThreeWay(h, ev))
      BY <1>4, <1>5, <1>6, <1>8, <1>13, <1>15, <1>20, <2>3
         DEF processThreeWay
    <3> QED
      BY <1>2, <2>1, <3>1 DEF Good
  <2> QED
    BY <2>2, <2>3
<1>21. CASE f.state = "MultipleNeighborsWait"
  <2>1. processEvent(h, ev) = processMultipleNeighborsWait(h, ev)
    BY <1>1, <1>21 DEF processEvent
  <2>2. ASSUME ev = "NewNeighbor" PROVE Good(h)
    BY <1>1, <1>21, <2>2 DEF Good, OneWayNeighborIsNew
  <2>3. Good(processMultipleNeighborsWait(h, ev))
    BY <1>4, <1>8, <1>9, <1>11, <1>16, <1>17, <2>2
       DEF processMultipleNeighborsWait
  <2> QED
    BY <1>2, <2>1, <2>3 DEF Good
<1> QED
  BY <1>3, <1>18, <1>19, <1>20, <1>21 DEF State

\* Putting a stimulus into the drained queue.
LEMMA Stimulus ==
    ASSUME NEW f \in FSM, Idle(f), OneWayNeighborIsNew(f),
           NEW ev \in {"LieRcvd", "TimerTick"},
           ev = "LieRcvd" => f.pending # None
    PROVE  LET g == push(f, ev) IN
           /\ g \in FSM /\ QueueOrder(g) /\ OneWayNeighborIsNew(g)
           /\ g.state = f.state
<1>1. ev \in Event
  BY DEF Event
<1>2. LET g == push(f, ev) IN
      /\ g \in FSM /\ g.eventQueue = <<ev>> /\ g.state = f.state
      /\ g.pending = f.pending
  BY <1>1, PushFacts DEF Idle
<1>3. QueueOrder(push(f, ev))
  BY <1>2 DEF QueueOrder, LeadsToOneWay, AboutNeighbor
<1>4. OneWayNeighborIsNew(push(f, ev))
  BY <1>1, PushKeepsNew
<1> QED
  BY <1>2, <1>3, <1>4

-----------------------------------------------------------------------------
(* What one turn changes, with the event queue as the set of its events. *)

Queued(f) == {f.eventQueue[i] : i \in 1..Len(f.eventQueue)}

\* The events behind the first.
Behind(f) == {f.eventQueue[i] : i \in 2..Len(f.eventQueue)}

\* A push adds its event to the set.
LEMMA QueuedPush ==
    ASSUME NEW f \in FSM, NEW ev \in Event
    PROVE  Queued(push(f, ev)) = Queued(f) \cup {ev}
<1> DEFINE q == f.eventQueue
           r == Append(q, ev)
<1>1. q \in Seq(Event) /\ push(f, ev).eventQueue = r
  BY PushFacts DEF FSM
<1>2. /\ Len(q) \in Nat /\ Len(r) = Len(q) + 1
      /\ r[Len(q) + 1] = ev
      /\ \A i \in 1..Len(q) : r[i] = q[i]
  BY <1>1
<1> HIDE DEF r
<1>3. {r[i] : i \in 1..Len(r)} = {q[i] : i \in 1..Len(q)} \cup {ev}
  BY <1>2
<1> QED
  BY <1>1, <1>3 DEF Queued

\* A queue of one event.
LEMMA QueuedOne ==
    ASSUME NEW f \in FSM, NEW ev, f.eventQueue = <<ev>>
    PROVE  Queued(f) = {ev}
<1>1. Len(f.eventQueue) = 1 /\ f.eventQueue[1] = ev
  OBVIOUS
<1> QED
  BY ONLY <1>1 DEF Queued

\* Taking the first event off leaves those behind it.
LEMMA QueuedTail ==
    ASSUME NEW f \in FSM, f.eventQueue # <<>>
    PROVE  LET h == [f EXCEPT !.eventQueue = Tail(@),
                              !.sent = None, !.notified = None]
           IN  /\ Queued(h) = Behind(f)
               /\ Queued(f) = {Head(f.eventQueue)} \cup Behind(f)
<1> DEFINE q == f.eventQueue
           h == [f EXCEPT !.eventQueue = Tail(@),
                          !.sent = None, !.notified = None]
<1>1. q \in Seq(Event) /\ h.eventQueue = Tail(q)
  BY DEF FSM
<1>2. /\ Len(q) \in Nat \ {0} /\ Head(q) = q[1]
      /\ Len(Tail(q)) = Len(q) - 1
      /\ \A i \in 1..Len(Tail(q)) : Tail(q)[i] = q[i + 1]
  BY <1>1, HeadTailProperties, EmptySeq
<1>3. {Tail(q)[i] : i \in 1..Len(Tail(q))} = {q[i] : i \in 2..Len(q)}
  <2>1. ASSUME NEW i \in 1..Len(Tail(q)) 
        PROVE  Tail(q)[i] \in {q[j] : j \in 2..Len(q)}
    BY <1>2
  <2>2. ASSUME NEW i \in 2..Len(q) 
        PROVE  q[i] \in {Tail(q)[j] : j \in 1..Len(Tail(q))}
    <3>1. i - 1 \in 1..Len(Tail(q)) /\ Tail(q)[i - 1] = q[i]
      BY <1>2
    <3> QED
      BY <3>1
  <2> QED
    BY <2>1, <2>2
<1>4. {q[i] : i \in 1..Len(q)} = {q[1]} \cup {q[i] : i \in 2..Len(q)}
  <2>1. ASSUME NEW i \in 1..Len(q)
        PROVE  q[i] \in {q[1]} \cup {q[j] : j \in 2..Len(q)}
    BY <1>2
  <2>2. 1 \in 1..Len(q) /\ 2..Len(q) \subseteq 1..Len(q)
    BY <1>2
  <2> QED
    BY <2>1, <2>2
<1> HIDE DEF h
<1>5. Queued(h) = Behind(f)
  BY <1>1, <1>3 DEF Queued, Behind
<1>6. Queued(f) = {Head(q)} \cup Behind(f)
  BY <1>2, <1>4 DEF Queued, Behind
<1> QED
  BY <1>5, <1>6 DEF h

\* The neighbor a LIE introduces.
NeighborOf(lie) ==
    [systemID |-> lie.sender, level |-> lie.level, linkID |-> lie.localID,
     address |-> lie.src, floodPort |-> lie.floodPort,
     holdtime |-> lie.holdtime]

\* What CHECK_THREE_WAY makes of a LIE.
Verdict(f, lie) ==
    IF f.state = "OneWay" THEN {}
    ELSE IF lie.neighbor = None
    THEN IF f.state = "ThreeWay" THEN {"NeighborDroppedReflection"} ELSE {}
    ELSE IF /\ lie.neighbor.originator = f.systemID
            /\ lie.neighbor.remoteID = f.localID
    THEN {"ValidReflection"} ELSE {"MultipleNeighbors"}

\* The outcomes of PROCESS_LIE: the LIE is dropped or refused, and the neighbor
\* with it; or it introduces a neighbor, ...
Forgets(f, g) ==
    /\ g.neighbor = None /\ g.lieAge = NoTime
    /\ \/ Foreign(f, f.pending) /\ Queued(g) = {}
       \/ /\ ~Foreign(f, f.pending)
          /\ \E ev \in {"MTUMismatch", "UnacceptableHeader"} :
                Queued(g) = {"UpdateZTPOffer", ev}

Introduces(f, g) ==
    /\ f.neighbor = None /\ g.neighbor = NeighborOf(f.pending)
    /\ Queued(g) = {"UpdateZTPOffer", "NewNeighbor"} \cup Verdict(f, f.pending)

\* ... contradicts the one there is, ...
Contradicts(f, g) ==
    /\ f.state # "OneWay" /\ f.neighbor # None /\ g.neighbor = f.neighbor
    /\ \E ev \in {"MultipleNeighbors", "NeighborChangedLevel",
                  "NeighborChangedAddress"} :
         /\ Queued(g) = {"UpdateZTPOffer", ev}
         /\ ev = "MultipleNeighbors" <=> f.neighbor.systemID # f.pending.sender

\* ... or confirms it.
Confirms(f, g) ==
    /\ f.state # "OneWay" /\ f.neighbor # None
    /\ g.neighbor = [f.neighbor EXCEPT !.floodPort = f.pending.floodPort,
                                       !.linkID = f.pending.localID,
                                       !.holdtime = f.pending.holdtime]
    /\ f.neighbor.systemID = f.pending.sender
    /\ Queued(g) \ {"NeighborChangedMinorFields"} =
         {"UpdateZTPOffer"} \cup Verdict(f, f.pending)

Hears(f, g) ==
    /\ f.pending # None
    /\ g.state = f.state /\ g.mnAge = f.mnAge
    /\ g.notified = None /\ g.sent = None /\ SameIdentity(f, g)
    /\ \/ Forgets(f, g)
       \/ /\ ValidLie(f, f.pending)
          /\ g.lieAge = 0 /\ g.holdtime = f.pending.holdtime
          /\ Introduces(f, g) \/ Contradicts(f, g) \/ Confirms(f, g)

\* CHECK_THREE_WAY adds its verdict to the queue and changes nothing else.
LEMMA CheckThreeWayEffect ==
    ASSUME NEW f \in FSM, NEW lie
    PROVE  LET g == checkThreeWay(f, lie) IN
           /\ g \in FSM /\ Queued(g) = Queued(f) \cup Verdict(f, lie)
           /\ g.state = f.state /\ g.neighbor = f.neighbor
           /\ g.lieAge = f.lieAge /\ g.holdtime = f.holdtime
           /\ g.mnAge = f.mnAge /\ g.notified = f.notified
           /\ g.sent = f.sent /\ SameIdentity(f, g)
<1>1. \/ checkThreeWay(f, lie) = f /\ Verdict(f, lie) = {}
      \/ \E ev \in {"NeighborDroppedReflection", "ValidReflection",
                    "MultipleNeighbors"} :
            checkThreeWay(f, lie) = push(f, ev) /\ Verdict(f, lie) = {ev}
  BY DEF checkThreeWay, Verdict
<1>2. {"NeighborDroppedReflection", "ValidReflection", "MultipleNeighbors"}
        \subseteq Event
  BY DEF Event
<1>3. CASE checkThreeWay(f, lie) = f /\ Verdict(f, lie) = {}
  BY <1>3 DEF SameIdentity
<1>4. ASSUME NEW ev \in {"NeighborDroppedReflection", "ValidReflection",
                         "MultipleNeighbors"},
             checkThreeWay(f, lie) = push(f, ev), Verdict(f, lie) = {ev}
      PROVE  LET g == checkThreeWay(f, lie) IN
             /\ g \in FSM /\ Queued(g) = Queued(f) \cup Verdict(f, lie)
             /\ g.state = f.state /\ g.neighbor = f.neighbor
             /\ g.lieAge = f.lieAge /\ g.holdtime = f.holdtime
             /\ g.mnAge = f.mnAge /\ g.notified = f.notified
             /\ g.sent = f.sent /\ SameIdentity(f, g)
  <2>1. Queued(push(f, ev)) = Queued(f) \cup {ev}
    BY <1>2, QueuedPush
  <2>2. LET g == push(f, ev) IN
        /\ g \in FSM /\ g.state = f.state /\ g.neighbor = f.neighbor
        /\ g.lieAge = f.lieAge /\ g.holdtime = f.holdtime
        /\ g.mnAge = f.mnAge /\ g.notified = f.notified
        /\ g.sent = f.sent /\ SameIdentity(f, g)
    BY <1>2, PushFacts
  <2> QED
    BY <1>4, <2>1, <2>2
<1> QED
  BY <1>1, <1>3, <1>4

\* PROCESS_LIE, entered with an empty queue, has one of these outcomes.
LEMMA ProcessLIEEffect ==
    ASSUME NEW f \in FSM, f.pending # None, f.eventQueue = <<>>,
           f.notified = None, f.sent = None,
           f.state = "OneWay" => f.neighbor = None /\ f.lieAge = NoTime
    PROVE  Hears(f, processLIE(f))
<1> DEFINE lie == f.pending
           h == [f EXCEPT !.pending = None]
           c == cleanup(h)
           p == push(h, "UpdateZTPOffer")
           r == [p EXCEPT !.lieAge = 0, !.holdtime = lie.holdtime]
           ev == Inadmissible(h, lie)
<1>1. /\ lie \in LiePacket /\ h \in FSM /\ h.eventQueue = <<>>
      /\ h.state = f.state /\ h.notified = None /\ h.sent = None
      /\ h.neighbor = f.neighbor /\ h.lieAge = f.lieAge
      /\ h.mnAge = f.mnAge /\ SameIdentity(f, h)
  BY DEF FSM, SameIdentity
<1>2. processLIE(f) = IF Foreign(h, lie) THEN c
                      ELSE IF ev # "none"
                      THEN push(push(c, "UpdateZTPOffer"), ev)
                      ELSE trackNeighbor(r, lie)
  BY DEF processLIE
<1>3. /\ c \in FSM /\ c.eventQueue = <<>> /\ c.state = f.state
      /\ c.notified = None /\ c.sent = None /\ c.mnAge = f.mnAge
      /\ c.neighbor = None /\ c.lieAge = NoTime /\ SameIdentity(f, c)
  BY <1>1, CleanupFacts DEF SameIdentity
<1>4. /\ Foreign(h, lie) <=> Foreign(f, lie)
      /\ Inadmissible(h, lie) = Inadmissible(f, lie)
  BY <1>1 DEF Foreign, Inadmissible, levelAcceptable, SameIdentity
<1>5. "UpdateZTPOffer" \in Event /\ Queued(h) = {} /\ Queued(c) = {}
  BY <1>1, <1>3 DEF Event, Queued
<1> HIDE DEF h, c
<1>6. CASE Foreign(h, lie)
  BY <1>2, <1>3, <1>4, <1>5, <1>6 DEF Hears, Forgets
<1>7. CASE ~Foreign(h, lie) /\ ev # "none"
  <2> DEFINE d == push(c, "UpdateZTPOffer")
             e == push(d, ev)
  <2>1. ev \in {"MTUMismatch", "UnacceptableHeader"} /\ ev \in Event
    BY <1>7 DEF Event, Inadmissible
  <2>2. /\ d \in FSM /\ d.state = f.state /\ Queued(d) = {"UpdateZTPOffer"}
        /\ d.notified = None /\ d.sent = None /\ d.mnAge = f.mnAge
        /\ d.neighbor = None /\ d.lieAge = NoTime /\ SameIdentity(f, d)
    BY <1>3, <1>5, PushFacts, QueuedPush DEF SameIdentity
  <2> HIDE DEF d
  <2>3. /\ e.state = f.state /\ Queued(e) = {"UpdateZTPOffer", ev}
        /\ e.notified = None /\ e.sent = None /\ e.mnAge = f.mnAge
        /\ e.neighbor = None /\ e.lieAge = NoTime /\ SameIdentity(f, e)
    BY <2>1, <2>2, PushFacts, QueuedPush DEF SameIdentity
  <2>4. processLIE(f) = e
    BY <1>2, <1>7 DEF d
  <2> HIDE DEF e, ev
  <2> QED
    BY <1>4, <1>7, <2>1, <2>3, <2>4 DEF Hears, Forgets
<1>8. CASE ~Foreign(h, lie) /\ ev = "none"
  <2>1. /\ p \in FSM /\ Queued(p) = {"UpdateZTPOffer"}
        /\ p.eventQueue = <<"UpdateZTPOffer">> /\ p.state = f.state
        /\ p.neighbor = f.neighbor /\ p.notified = None /\ p.sent = None
        /\ p.mnAge = f.mnAge /\ SameIdentity(f, p)
    BY <1>1, <1>5, PushFacts, QueuedPush DEF SameIdentity
  <2>2. lie.holdtime \in Nat
    BY <1>1, LieConstants DEF LiePacket
  <2> HIDE DEF p
  <2>3. /\ r \in FSM /\ r.eventQueue = <<"UpdateZTPOffer">>
        /\ r.state = f.state /\ r.neighbor = f.neighbor
        /\ r.notified = None /\ r.sent = None /\ r.mnAge = f.mnAge
        /\ r.lieAge = 0 /\ r.holdtime = lie.holdtime
    BY <2>1, <2>2 DEF FSM
  <2>4. SameIdentity(f, r)
    BY <2>1, <2>2 DEF FSM, SameIdentity
  <2>5. Queued(r) = {"UpdateZTPOffer"}
    BY <2>3, QueuedOne
  <2>6. ValidLie(f, lie) /\ processLIE(f) = trackNeighbor(r, lie)
    BY <1>2, <1>4, <1>8 DEF ValidLie, p
  <2> HIDE DEF r
  <2> DEFINE n == f.neighbor
             g == trackNeighbor(r, lie)
  <2>7. Verdict(r, lie) = Verdict(f, lie)
    BY <2>3, <2>4 DEF Verdict, SameIdentity
  <2>8. ASSUME NEW t \in FSM,
               t.state = f.state /\ t.notified = None /\ t.sent = None,
               t.mnAge = f.mnAge /\ t.lieAge = 0,
               t.holdtime = lie.holdtime, SameIdentity(f, t),
               Introduces(f, t) \/ Contradicts(f, t) \/ Confirms(f, t)
        PROVE  Hears(f, t)
    BY <2>6, <2>8 DEF Hears
  <2>9. CASE n = None
    <3> DEFINE m == NeighborOf(lie)
               t == [r EXCEPT !.neighbor = m]
               u == push(t, "NewNeighbor")
    <3>1. m \in NeighborState
      BY <1>1, <2>6, LieConstants
         DEF LiePacket, NeighborState, NeighborOf, ValidLie, Foreign, Inadmissible
    <3>2. g = checkThreeWay(u, lie)
      BY <2>3, <2>9 DEF trackNeighbor, NeighborOf
    <3> HIDE DEF m
    <3>3. /\ t \in FSM /\ t.eventQueue = <<"UpdateZTPOffer">>
          /\ t.state = f.state /\ t.neighbor = m
          /\ t.notified = None /\ t.sent = None /\ t.mnAge = f.mnAge
          /\ t.lieAge = 0 /\ t.holdtime = lie.holdtime
      BY <2>3, <3>1 DEF FSM
    <3>4. SameIdentity(f, t)
      BY <2>3, <2>4, <3>1 DEF FSM, SameIdentity
    <3>5. Queued(t) = {"UpdateZTPOffer"}
      BY <3>3, QueuedOne
    <3> HIDE DEF t
    <3>6. /\ u \in FSM /\ Queued(u) = {"UpdateZTPOffer", "NewNeighbor"}
          /\ u.state = f.state /\ u.neighbor = m
          /\ u.notified = None /\ u.sent = None /\ u.mnAge = f.mnAge
          /\ u.lieAge = 0 /\ u.holdtime = lie.holdtime /\ SameIdentity(f, u)
      <4>1. "NewNeighbor" \in Event
        BY DEF Event
      <4>2. Queued(u) = Queued(t) \cup {"NewNeighbor"}
        BY <3>3, <4>1, QueuedPush
      <4>3. /\ u \in FSM /\ u.state = t.state /\ u.neighbor = t.neighbor
            /\ u.notified = t.notified /\ u.sent = t.sent /\ u.mnAge = t.mnAge
            /\ u.lieAge = t.lieAge /\ u.holdtime = t.holdtime
            /\ SameIdentity(t, u)
        BY <3>3, <4>1, PushFacts
      <4>4. SameIdentity(f, u)
        BY <3>4, <4>3 DEF SameIdentity
      <4> HIDE DEF u
      <4> QED
        BY <3>3, <3>5, <4>2, <4>3, <4>4
    <3> HIDE DEF u
    <3>7. Verdict(u, lie) = Verdict(f, lie)
      BY <3>6 DEF Verdict, SameIdentity
    <3>8. /\ g \in FSM
          /\ Queued(g) = {"UpdateZTPOffer", "NewNeighbor"} \cup Verdict(f, lie)
          /\ g.state = f.state /\ g.neighbor = m
          /\ g.notified = None /\ g.sent = None /\ g.mnAge = f.mnAge
          /\ g.lieAge = 0 /\ g.holdtime = lie.holdtime /\ SameIdentity(f, g)
      BY <3>2, <3>6, <3>7, CheckThreeWayEffect DEF SameIdentity
    <3> HIDE DEF g
    <3>9. Introduces(f, g)
      BY <2>9, <3>8 DEF Introduces, m
    <3> QED
      BY <2>6, <2>8, <3>8, <3>9 DEF g
  <2>10. CASE n # None
    <3>0. f.state # "OneWay" /\ n \in NeighborState /\ r.neighbor = n
      BY <2>3, <2>10 DEF FSM
    <3>1. ASSUME NEW e \in {"MultipleNeighbors", "NeighborChangedLevel",
                            "NeighborChangedAddress"},
                 g = push(r, e),
                 e = "MultipleNeighbors" <=> n.systemID # lie.sender
          PROVE  Hears(f, g)
      <4>1. e \in Event
        BY DEF Event
      <4>2. /\ g \in FSM /\ Queued(g) = {"UpdateZTPOffer", e}
            /\ g.state = f.state /\ g.neighbor = n
            /\ g.notified = None /\ g.sent = None /\ g.mnAge = f.mnAge
            /\ g.lieAge = 0 /\ g.holdtime = lie.holdtime /\ SameIdentity(f, g)
        BY <2>3, <2>4, <2>5, <3>1, <4>1, PushFacts, QueuedPush DEF SameIdentity
      <4> HIDE DEF g
      <4>3. Contradicts(f, g)
        BY <2>10, <3>0, <3>1, <4>2 DEF Contradicts
      <4> QED
        BY <2>8, <4>2, <4>3
    <3>2. CASE n.systemID # lie.sender
      <4>1. g = push(r, "MultipleNeighbors")
        BY <2>10, <3>0, <3>2 DEF trackNeighbor
      <4> QED
        BY <2>6, <3>1, <3>2, <4>1
    <3>3. CASE n.systemID = lie.sender /\ n.level # lie.level
      <4>1. g = push(r, "NeighborChangedLevel")
        BY <2>10, <3>0, <3>3 DEF trackNeighbor
      <4> QED
        BY <2>6, <3>1, <3>3, <4>1
    <3>4. CASE /\ n.systemID = lie.sender /\ n.level = lie.level
               /\ n.address # lie.src
      <4>1. g = push(r, "NeighborChangedAddress")
        BY <2>10, <3>0, <3>4 DEF trackNeighbor
      <4> QED
        BY <2>6, <3>1, <3>4, <4>1
    <3>5. CASE /\ n.systemID = lie.sender /\ n.level = lie.level
               /\ n.address = lie.src
      <4> DEFINE k == [n EXCEPT !.floodPort = lie.floodPort,
                            !.linkID = lie.localID, !.holdtime = lie.holdtime]
                 minor == n.floodPort # lie.floodPort \/ n.linkID # lie.localID
                 t == [r EXCEPT !.neighbor = k]
                 u == IF minor THEN push(t, "NeighborChangedMinorFields")
                      ELSE t
      <4>1. k \in NeighborState
        BY <1>1, <3>0, LieConstants DEF LiePacket, NeighborState
      <4>2. g = checkThreeWay(u, lie)
        BY <2>3, <2>10, <3>5 DEF trackNeighbor
      <4> HIDE DEF k, minor
      <4>3. /\ t \in FSM /\ t.eventQueue = <<"UpdateZTPOffer">>
            /\ t.state = f.state /\ t.neighbor = k
            /\ t.notified = None /\ t.sent = None /\ t.mnAge = f.mnAge
            /\ t.lieAge = 0 /\ t.holdtime = lie.holdtime
        BY <2>3, <4>1 DEF FSM
      <4>4. SameIdentity(f, t)
        BY <2>3, <2>4, <4>1 DEF FSM, SameIdentity
      <4>5. Queued(t) = {"UpdateZTPOffer"}
        BY <4>3, QueuedOne
      <4> HIDE DEF t
      <4>6. /\ u \in FSM
            /\ Queued(u) \ {"NeighborChangedMinorFields"} = {"UpdateZTPOffer"}
            /\ u.state = f.state /\ u.neighbor = k
            /\ u.notified = None /\ u.sent = None /\ u.mnAge = f.mnAge
            /\ u.lieAge = 0 /\ u.holdtime = lie.holdtime /\ SameIdentity(f, u)
        <5> DEFINE d == push(t, "NeighborChangedMinorFields")
        <5>1. "NeighborChangedMinorFields" \in Event
          BY DEF Event
        <5>2. Queued(d) = Queued(t) \cup {"NeighborChangedMinorFields"}
          BY <4>3, <5>1, QueuedPush
        <5>3. /\ d \in FSM /\ d.state = t.state /\ d.neighbor = t.neighbor
              /\ d.notified = t.notified /\ d.sent = t.sent /\ d.mnAge = t.mnAge
              /\ d.lieAge = t.lieAge /\ d.holdtime = t.holdtime
              /\ SameIdentity(t, d)
          BY <4>3, <5>1, PushFacts
        <5>4. SameIdentity(f, d)
          BY <4>4, <5>3 DEF SameIdentity
        <5>5. u = d \/ u = t
          OBVIOUS
        <5> HIDE DEF u, d
        <5>6. CASE u = t
          BY <4>3, <4>4, <4>5, <5>6
        <5>7. CASE u = d
          BY <4>3, <4>5, <5>2, <5>3, <5>4, <5>7
        <5> QED
          BY <5>5, <5>6, <5>7
      <4> HIDE DEF u
      <4>7. /\ Verdict(u, lie) = Verdict(f, lie)
            /\ "NeighborChangedMinorFields" \notin Verdict(f, lie)
        BY <4>6 DEF Verdict, SameIdentity
      <4>8. /\ g \in FSM
            /\ Queued(g) \ {"NeighborChangedMinorFields"} =
                 {"UpdateZTPOffer"} \cup Verdict(f, lie)
            /\ g.state = f.state /\ g.neighbor = k
            /\ g.notified = None /\ g.sent = None /\ g.mnAge = f.mnAge
            /\ g.lieAge = 0 /\ g.holdtime = lie.holdtime /\ SameIdentity(f, g)
        <5>1. LET c3 == checkThreeWay(u, lie) IN
              /\ c3 \in FSM /\ Queued(c3) = Queued(u) \cup Verdict(u, lie)
              /\ c3.state = u.state /\ c3.neighbor = u.neighbor
              /\ c3.lieAge = u.lieAge /\ c3.holdtime = u.holdtime
              /\ c3.mnAge = u.mnAge /\ c3.notified = u.notified
              /\ c3.sent = u.sent /\ SameIdentity(u, c3)
          BY <4>6, CheckThreeWayEffect
        <5> HIDE DEF g
        <5> QED
          BY <4>2, <4>6, <4>7, <5>1 DEF SameIdentity
      <4> HIDE DEF g
      <4>9. Confirms(f, g)
        BY <2>10, <3>0, <3>5, <4>8 DEF Confirms, k
      <4> QED
        BY <2>6, <2>8, <4>8, <4>9 DEF g
    <3> QED
      BY <3>2, <3>3, <3>4, <3>5
  <2> QED
    BY <2>9, <2>10
<1> QED
  BY <1>6, <1>7, <1>8

\* The turns that leave the neighbor and its clock alone: a change of state
\* that is not to OneWay, ...
Advances(f, g, ev) ==
    /\ \/ /\ ev = "NewNeighbor" /\ f.state = "OneWay" /\ g.state = "TwoWay"
          /\ Queued(g) = Behind(f) \cup {"SendLie"} /\ g.mnAge = f.mnAge
       \/ /\ ev \in {"NewNeighbor", "MultipleNeighbors"}
          /\ f.state \in {"TwoWay", "ThreeWay"}
          /\ g.state = "MultipleNeighborsWait" /\ g.mnAge = 0
          /\ Queued(g) \ {"SendLie"} = Behind(f) \ {"SendLie"}
       \/ /\ ev = "ValidReflection" /\ f.state = "TwoWay"
          /\ g.state = "ThreeWay"
          /\ Queued(g) = Behind(f) /\ g.mnAge = f.mnAge
       \/ /\ ev = "NeighborDroppedReflection" /\ f.state = "ThreeWay"
          /\ g.state = "TwoWay"
          /\ Queued(g) = Behind(f) /\ g.mnAge = f.mnAge
    /\ g.notified = [state |-> g.state, neighbor |-> f.neighbor]
    /\ g.sent = None

\* ... a tick, ...
Ticks(f, g, ev) ==
    /\ ev = "TimerTick" /\ Behind(f) = {} /\ g.mnAge = f.mnAge
    /\ Queued(g) =
         CASE f.state = "OneWay" -> {"SendLie"}
           [] f.state \in {"TwoWay", "ThreeWay"} ->
                {"SendLie"} \cup
                IF f.lieAge # NoTime /\ f.holdtime # 0 /\ f.lieAge > f.holdtime
                THEN {"HoldtimeExpired"} ELSE {}
           [] f.state = "MultipleNeighborsWait" ->
                IF f.mnAge # NoTime /\ f.mnAge > MultipleNeighborsTimeout
                THEN {"MultipleNeighborsDone"} ELSE {}
    /\ g.sent = None

\* ... or an event that sends, restarts the timer or is ignored.
Passes(f, g, ev) ==
    /\ Queued(g) = Behind(f)
    /\ \/ /\ ev = "MultipleNeighbors" /\ f.state = "MultipleNeighborsWait"
          /\ g.mnAge = 0 /\ g.sent = None
       \/ /\ ev = "SendLie" /\ f.state # "MultipleNeighborsWait"
          /\ g.mnAge = f.mnAge /\ g.sent = LieOf(f)
       \/ /\ f.state = "MultipleNeighborsWait" =>
               ev \notin {"TimerTick", "MultipleNeighborsDone", "MultipleNeighbors"}
          /\ f.state # "MultipleNeighborsWait" =>
               ev \notin {"TimerTick", "LieRcvd", "NewNeighbor",
                          "MultipleNeighbors"}
          /\ f.state \in {"TwoWay", "ThreeWay"} =>
               ev \notin LeadsToOneWay \ {"MultipleNeighborsDone"}
          /\ f.state = "TwoWay" => ev # "ValidReflection"
          /\ f.state = "ThreeWay" => ev # "NeighborDroppedReflection"
          /\ g.mnAge = f.mnAge /\ g.sent = None

\* A turn that ends in OneWay forgets the neighbor.
Leaves(f, g, ev) ==
    /\ ev \in LeadsToOneWay /\ Behind(f) = {} /\ f.state # "OneWay"
    /\ f.state = "MultipleNeighborsWait" <=> ev = "MultipleNeighborsDone"
    /\ g.state = "OneWay" /\ g.neighbor = None /\ g.lieAge = NoTime
    /\ Queued(g) = {} /\ g.sent = None /\ g.mnAge = f.mnAge
    /\ g.notified = [state |-> "OneWay", neighbor |-> None]

\* One turn of drainQueue.
Turn(f, g, ev) ==
    /\ SameIdentity(f, g)
    /\ \/ /\ ev = "LieRcvd" /\ f.state # "MultipleNeighborsWait"
          /\ Behind(f) = {} /\ Hears(f, g)
       \/ Leaves(f, g, ev)
       \/ /\ g.neighbor = f.neighbor /\ g.lieAge = f.lieAge
          /\ g.holdtime = f.holdtime
          /\ \/ Advances(f, g, ev)
             \/ /\ g.state = f.state /\ g.notified = None
                /\ Ticks(f, g, ev) \/ Passes(f, g, ev)

\* Two records that agree on what Hears reads are heard alike.
LEMMA HearsFrom ==
    ASSUME NEW f \in FSM, NEW h \in FSM, NEW g, Hears(h, g),
           SameIdentity(f, h), h.state = f.state, h.neighbor = f.neighbor,
           h.pending = f.pending, h.mnAge = f.mnAge
    PROVE  Hears(f, g)
<1>1. /\ Foreign(h, h.pending) <=> Foreign(f, f.pending)
      /\ ValidLie(h, h.pending) <=> ValidLie(f, f.pending)
      /\ Verdict(h, h.pending) = Verdict(f, f.pending)
      /\ SameIdentity(h, g) <=> SameIdentity(f, g)
  BY DEF Foreign, ValidLie, Inadmissible, levelAcceptable, Verdict, SameIdentity
<1>2. /\ Forgets(h, g) => Forgets(f, g)
      /\ Introduces(h, g) => Introduces(f, g)
      /\ Contradicts(h, g) => Contradicts(f, g)
      /\ Confirms(h, g) => Confirms(f, g)
  BY <1>1 DEF Forgets, Introduces, Contradicts, Confirms
<1> QED
  BY <1>1, <1>2 DEF Hears

\* Every turn of drainQueue is one of these.
LEMMA DrainOneTurn ==
    ASSUME NEW f \in FSM, QueueOrder(f), OneWayNeighborIsNew(f),
           f.eventQueue # <<>>
    PROVE  Turn(f, drainOne(f), Head(f.eventQueue))
<1> DEFINE ev == Head(f.eventQueue)
           h == [f EXCEPT !.eventQueue = Tail(@),
                          !.sent = None, !.notified = None]
           T(g) == Turn(f, g, ev)
<1>1. /\ h \in FSM /\ ev \in Event /\ h.notified = None
      /\ h.state = f.state /\ h.neighbor = f.neighbor
      /\ h.pending = f.pending /\ h.lieAge = f.lieAge
      /\ ev # "NewNeighbor" => OneWayNeighborIsNew(h)
      /\ ev \in LeadsToOneWay \cup {"LieRcvd", "TimerTick"} =>
           h.eventQueue = <<>>
      /\ ev = "LieRcvd" => f.pending # None
      /\ ev \in {"ValidReflection", "MultipleNeighbors"} => f.state # "OneWay"
  BY Dequeue
<1>2. /\ h.sent = None /\ h.holdtime = f.holdtime /\ h.mnAge = f.mnAge
      /\ SameIdentity(f, h)
  BY DEF FSM, SameIdentity
<1>3. Queued(h) = Behind(f)
  BY QueuedTail
<1>4. drainOne(f) = processEvent(h, ev)
  BY DEF drainOne
<1>5. /\ f.state \in State
      /\ {"SendLie", "HoldtimeExpired", "MultipleNeighborsDone"} \subseteq Event
  BY DEF FSM, Event
<1>6. h.eventQueue = <<>> => Queued(h) = {}
  BY DEF Queued
<1> HIDE DEF h, ev
<1>7. ASSUME ev = "LieRcvd", f.state # "MultipleNeighborsWait"
      PROVE  T(processLIE(h))
  <2>1. h.state = "OneWay" => h.neighbor = None /\ h.lieAge = NoTime
    BY <1>1, <1>7 DEF OneWayNeighborIsNew
  <2>2. Hears(h, processLIE(h))
    BY <1>1, <1>2, <1>7, <2>1, ProcessLIEEffect
  <2>3. Hears(f, processLIE(h))
    BY <1>1, <1>2, <2>2, HearsFrom
  <2> QED
    BY <1>1, <1>3, <1>6, <1>7, <2>3 DEF Turn, Hears
<1>8. ASSUME ev = "SendLie", f.state # "MultipleNeighborsWait"
      PROVE  T(sendLIE(h))
  <2>1. LET g == sendLIE(h) IN
        /\ g.eventQueue = h.eventQueue /\ g.state = h.state
        /\ g.neighbor = h.neighbor /\ g.lieAge = h.lieAge
        /\ g.notified = h.notified
        /\ g.holdtime = h.holdtime /\ g.mnAge = h.mnAge
        /\ SameIdentity(h, g) /\ g.sent = LieOf(h)
    BY <1>1, SendLIEFacts
  <2>2. LieOf(h) = LieOf(f)
    BY <1>1, <1>2 DEF LieOf, SameIdentity
  <2>3. Queued(sendLIE(h)) = Behind(f)
    BY <1>3, <2>1 DEF Queued
  <2>4. Passes(f, sendLIE(h), ev)
    BY <1>2, <1>8, <2>1, <2>2, <2>3 DEF Passes
  <2> QED
    BY <1>1, <1>2, <2>1, <2>4 DEF Turn, SameIdentity
<1>9. ASSUME ev = "TimerTick"
      PROVE  /\ f.state = "OneWay" => T(push(h, "SendLie"))
             /\ f.state \in {"TwoWay", "ThreeWay"} =>
                  T(checkHoldtime(push(h, "SendLie")))
             /\ f.state = "MultipleNeighborsWait" =>
                  T(IF h.mnAge # NoTime /\ h.mnAge > MultipleNeighborsTimeout
                    THEN push(h, "MultipleNeighborsDone") ELSE h)
  <2> DEFINE d == push(h, "SendLie")
             e == push(d, "HoldtimeExpired")
             m == push(h, "MultipleNeighborsDone")
             Like(g) == /\ g.state = f.state /\ g.notified = None
                        /\ g.neighbor = f.neighbor /\ g.lieAge = f.lieAge
                        /\ g.holdtime = f.holdtime /\ SameIdentity(f, g)
                        /\ g.mnAge = f.mnAge /\ g.sent = None
  <2>1. Behind(f) = {} /\ Queued(h) = {}
    BY <1>1, <1>3, <1>6, <1>9
  <2>2. Like(h)
    BY <1>1, <1>2
  <2>0. ASSUME NEW g \in FSM, Like(g), NEW x \in Event
        PROVE  push(g, x) \in FSM /\ Like(push(g, x))
    <3> DEFINE p == push(g, x)
    <3>1. /\ p \in FSM /\ p.state = g.state /\ p.neighbor = g.neighbor
          /\ p.notified = g.notified /\ p.sent = g.sent /\ p.mnAge = g.mnAge
          /\ p.lieAge = g.lieAge /\ p.holdtime = g.holdtime
          /\ SameIdentity(g, p)
      BY PushFacts
    <3> HIDE DEF p
    <3>2. SameIdentity(f, p)
      BY <2>0, <3>1 DEF SameIdentity
    <3>3. p \in FSM /\ Like(p)
      BY <2>0, <3>1, <3>2
    <3> QED
      BY <3>3 DEF p
  <2>3. d \in FSM /\ Like(d) /\ Queued(d) = {"SendLie"}
    <3>1. Queued(d) = Queued(h) \cup {"SendLie"}
      BY <1>1, <1>5, QueuedPush
    <3> HIDE DEF Like
    <3>2. d \in FSM /\ Like(d)
      BY <1>1, <1>5, <2>0, <2>2
    <3> QED
      BY <2>1, <3>1, <3>2
  <2>4. Like(m) /\ Queued(m) = {"MultipleNeighborsDone"}
    <3>1. Queued(m) = Queued(h) \cup {"MultipleNeighborsDone"}
      BY <1>1, <1>5, QueuedPush
    <3> HIDE DEF Like
    <3>2. Like(m)
      BY <1>1, <1>5, <2>0, <2>2
    <3> QED
      BY <2>1, <3>1, <3>2
  <2>5. Like(e) /\ Queued(e) = {"SendLie", "HoldtimeExpired"}
    <3>1. Queued(e) = Queued(d) \cup {"HoldtimeExpired"}
      BY <1>5, <2>3, QueuedPush
    <3> HIDE DEF Like
    <3>2. Like(e)
      BY <1>5, <2>0, <2>3
    <3> QED
      BY <2>3, <3>1, <3>2
  <2>6. checkHoldtime(d) =
          IF f.lieAge # NoTime /\ f.holdtime # 0 /\ f.lieAge > f.holdtime
          THEN e ELSE d
    BY <2>3 DEF checkHoldtime
  <2> HIDE DEF d, e, m
  <2>7. ASSUME NEW g, Like(g), Ticks(f, g, ev) PROVE T(g)
    BY <2>7 DEF Turn
  <2>8. f.state = "OneWay" => Ticks(f, d, ev)
    BY <1>9, <2>1, <2>3 DEF Ticks
  <2>9. f.state \in {"TwoWay", "ThreeWay"} => Ticks(f, checkHoldtime(d), ev)
    BY <1>9, <2>1, <2>3, <2>5, <2>6 DEF Ticks
  <2>10. f.state = "MultipleNeighborsWait" =>
           Ticks(f, IF h.mnAge # NoTime /\ h.mnAge > MultipleNeighborsTimeout
                    THEN m ELSE h, ev)
    BY <1>2, <1>9, <2>1, <2>2, <2>4 DEF Ticks
  <2> HIDE DEF T
  <2> QED
    BY <2>2, <2>3, <2>4, <2>5, <2>6, <2>7, <2>8, <2>9, <2>10 DEF d, m
<1>10. ASSUME ev \in LeadsToOneWay, f.state # "OneWay",
              f.state = "MultipleNeighborsWait" <=> ev = "MultipleNeighborsDone"
       PROVE  T(enterState(h, "OneWay"))
  <2>1. LET g == enterState(h, "OneWay") IN
        /\ g.state = "OneWay" /\ g.eventQueue = <<>>
        /\ g.notified.state = "OneWay" /\ g.notified.neighbor = None
        /\ g.notified \in AdjacencyEvent /\ g.neighbor = None
        /\ g.lieAge = NoTime /\ g.mnAge = h.mnAge /\ g.sent = None
        /\ SameIdentity(h, g)
    BY <1>1, <1>2, <1>10, EnterStateFacts DEF State
  <2> DEFINE g == enterState(h, "OneWay")
  <2> HIDE DEF g
  <2>2. Queued(g) = {}
    BY <2>1 DEF Queued, g
  <2>3. g.notified = [state |-> "OneWay", neighbor |-> None]
    BY <2>1 DEF AdjacencyEvent, g
  <2>4. Leaves(f, g, ev)
    BY <1>1, <1>2, <1>3, <1>6, <1>10, <2>1, <2>2, <2>3 DEF Leaves, g
  <2> QED
    BY <1>2, <2>1, <2>4 DEF Turn, SameIdentity, g
<1>11. ASSUME NEW d \in FSM, NEW s \in State \ {"OneWay"},
              d.neighbor = f.neighbor, d.lieAge = f.lieAge,
              d.holdtime = f.holdtime, d.sent = None, SameIdentity(f, d)
       PROVE  LET g == enterState(d, s) IN
              /\ g.state = s /\ Queued(g) = Queued(d)
              /\ g.neighbor = f.neighbor /\ g.lieAge = f.lieAge
              /\ g.holdtime = f.holdtime /\ g.mnAge = d.mnAge
              /\ g.sent = None /\ SameIdentity(f, g)
              /\ g.notified = [state |-> s, neighbor |-> f.neighbor]
  <2>1. LET g == enterState(d, s) IN
        /\ g.state = s /\ g.eventQueue = d.eventQueue
        /\ g.neighbor = d.neighbor /\ g.lieAge = d.lieAge
        /\ g.holdtime = d.holdtime /\ g.mnAge = d.mnAge /\ g.sent = None
        /\ g.notified \in AdjacencyEvent
        /\ g.notified.state = s /\ g.notified.neighbor = d.neighbor
        /\ SameIdentity(d, g)
    BY <1>11, EnterStateFacts
  <2> QED
    BY <1>11, <2>1 DEF AdjacencyEvent, Queued, SameIdentity
<1>12. ASSUME NEW g, Advances(f, g, ev), SameIdentity(f, g),
              g.neighbor = f.neighbor, g.lieAge = f.lieAge,
              g.holdtime = f.holdtime
       PROVE  T(g)
  BY <1>12 DEF Turn
<1>13. ASSUME NEW g, Passes(f, g, ev), SameIdentity(f, g),
              g.neighbor = f.neighbor, g.lieAge = f.lieAge,
              g.holdtime = f.holdtime, g.state = f.state, g.notified = None
       PROVE  T(g)
  BY <1>13 DEF Turn
<1>14. {"TwoWay", "ThreeWay", "MultipleNeighborsWait"} \subseteq State \ {"OneWay"}
  BY DEF State
<1>15. /\ push(h, "SendLie") \in FSM
       /\ Queued(push(h, "SendLie")) = Behind(f) \cup {"SendLie"}
       /\ LET d == push(h, "SendLie") IN
          /\ d.neighbor = f.neighbor /\ d.lieAge = f.lieAge
          /\ d.holdtime = f.holdtime /\ d.sent = None /\ SameIdentity(f, d)
          /\ d.mnAge = f.mnAge
  <2>1. Queued(push(h, "SendLie")) = Queued(h) \cup {"SendLie"}
    BY <1>1, <1>5, QueuedPush
  <2>2. LET d == push(h, "SendLie") IN
        /\ d \in FSM /\ d.neighbor = h.neighbor /\ d.lieAge = h.lieAge
        /\ d.holdtime = h.holdtime /\ d.sent = h.sent
        /\ d.mnAge = h.mnAge /\ SameIdentity(h, d)
    BY <1>1, <1>5, PushFacts
  <2> QED
    BY <1>1, <1>2, <1>3, <2>1, <2>2 DEF SameIdentity
<1>16. ASSUME NEW c \in FSM, c.neighbor = f.neighbor, c.lieAge = f.lieAge,
              c.holdtime = f.holdtime, c.sent = None, SameIdentity(f, c)
       PROVE  LET d == startMultipleNeighborsTimer(c) IN
              /\ d \in FSM /\ Queued(d) = Queued(c)
              /\ d.neighbor = f.neighbor /\ d.lieAge = f.lieAge
              /\ d.holdtime = f.holdtime /\ d.sent = None
              /\ SameIdentity(f, d) /\ d.mnAge = 0
              /\ d.state = c.state /\ d.notified = c.notified
  BY <1>16, StartTimerFacts DEF Queued, SameIdentity
<1>17. ASSUME ev = "NewNeighbor", f.state = "OneWay"
       PROVE  T(enterState(push(h, "SendLie"), "TwoWay"))
  <2> DEFINE g == enterState(push(h, "SendLie"), "TwoWay")
  <2>1. /\ g.state = "TwoWay" /\ Queued(g) = Behind(f) \cup {"SendLie"}
        /\ g.neighbor = f.neighbor /\ g.lieAge = f.lieAge
        /\ g.holdtime = f.holdtime /\ g.mnAge = f.mnAge
        /\ g.sent = None /\ SameIdentity(f, g)
        /\ g.notified = [state |-> "TwoWay", neighbor |-> f.neighbor]
    BY <1>11, <1>14, <1>15
  <2> HIDE DEF g
  <2>2. Advances(f, g, ev)
    BY <1>17, <2>1 DEF Advances
  <2> QED
    BY <1>12, <2>1, <2>2 DEF g
<1>18. ASSUME ev \in {"NewNeighbor", "MultipleNeighbors"},
              f.state \in {"TwoWay", "ThreeWay"},
              NEW c \in {h, push(h, "SendLie")}
       PROVE  T(enterState(startMultipleNeighborsTimer(c),
                           "MultipleNeighborsWait"))
  <2> DEFINE d == startMultipleNeighborsTimer(c)
             g == enterState(d, "MultipleNeighborsWait")
  <2>1. /\ c \in FSM /\ c.neighbor = f.neighbor /\ c.lieAge = f.lieAge
        /\ c.holdtime = f.holdtime /\ c.sent = None /\ SameIdentity(f, c)
        /\ Queued(c) \ {"SendLie"} = Behind(f) \ {"SendLie"}
    BY <1>1, <1>2, <1>3, <1>15, <1>18
  <2>2. /\ d \in FSM /\ Queued(d) = Queued(c)
        /\ d.neighbor = f.neighbor /\ d.lieAge = f.lieAge
        /\ d.holdtime = f.holdtime /\ d.sent = None
        /\ SameIdentity(f, d) /\ d.mnAge = 0
    BY <1>16, <2>1
  <2> HIDE DEF d
  <2>3. /\ g.state = "MultipleNeighborsWait" /\ Queued(g) = Queued(c)
        /\ g.neighbor = f.neighbor /\ g.lieAge = f.lieAge
        /\ g.holdtime = f.holdtime /\ g.mnAge = 0
        /\ g.sent = None /\ SameIdentity(f, g)
        /\ g.notified = [state |-> "MultipleNeighborsWait",
                         neighbor |-> f.neighbor]
    BY <1>11, <1>14, <2>2
  <2> HIDE DEF g
  <2>4. Advances(f, g, ev)
    BY <1>18, <2>1, <2>3 DEF Advances
  <2> QED
    BY <1>12, <2>3, <2>4 DEF g, d
<1>19. ASSUME NEW s \in {"TwoWay", "ThreeWay"},
              \/ ev = "ValidReflection" /\ f.state = "TwoWay" /\ s = "ThreeWay"
              \/ /\ ev = "NeighborDroppedReflection"
                 /\ f.state = "ThreeWay" /\ s = "TwoWay"
       PROVE  T(enterState(h, s))
  <2> DEFINE g == enterState(h, s)
  <2>1. /\ g.state = s /\ Queued(g) = Behind(f)
        /\ g.neighbor = f.neighbor /\ g.lieAge = f.lieAge
        /\ g.holdtime = f.holdtime /\ g.mnAge = f.mnAge
        /\ g.sent = None /\ SameIdentity(f, g)
        /\ g.notified = [state |-> s, neighbor |-> f.neighbor]
    BY <1>1, <1>2, <1>3, <1>11, <1>14
  <2> HIDE DEF g
  <2>2. Advances(f, g, ev)
    BY <1>19, <2>1 DEF Advances
  <2> QED
    BY <1>12, <2>1, <2>2 DEF g
<1>20. ASSUME ev = "MultipleNeighbors", f.state = "MultipleNeighborsWait"
       PROVE  T(startMultipleNeighborsTimer(h))
  <2> DEFINE d == startMultipleNeighborsTimer(h)
  <2>1. /\ Queued(d) = Behind(f)
        /\ d.neighbor = f.neighbor /\ d.lieAge = f.lieAge
        /\ d.holdtime = f.holdtime /\ d.sent = None
        /\ SameIdentity(f, d) /\ d.mnAge = 0
        /\ d.state = f.state /\ d.notified = None
    BY <1>1, <1>2, <1>3, <1>16
  <2> HIDE DEF d
  <2>2. Passes(f, d, ev)
    BY <1>20, <2>1 DEF Passes
  <2> QED
    BY <1>13, <2>1, <2>2 DEF d
<1>21. ASSUME NEW g \in {h, [h EXCEPT !.pending = None]},
              f.state = "MultipleNeighborsWait" =>
                ev \notin {"TimerTick", "MultipleNeighborsDone",
                           "MultipleNeighbors"},
              f.state # "MultipleNeighborsWait" =>
                ev \notin {"TimerTick", "LieRcvd", "NewNeighbor",
                           "MultipleNeighbors"},
              f.state \in {"TwoWay", "ThreeWay"} =>
                ev \notin LeadsToOneWay \ {"MultipleNeighborsDone"},
              f.state = "TwoWay" => ev # "ValidReflection",
              f.state = "ThreeWay" => ev # "NeighborDroppedReflection"
       PROVE  T(g)
  <2>1. /\ g.eventQueue = h.eventQueue
        /\ g.neighbor = h.neighbor /\ g.lieAge = h.lieAge
        /\ g.holdtime = h.holdtime /\ g.sent = h.sent
        /\ SameIdentity(h, g) /\ g.mnAge = h.mnAge
        /\ g.state = h.state /\ g.notified = h.notified
    BY <1>1, <1>21 DEF FSM, SameIdentity
  <2>2. /\ Queued(g) = Behind(f)
        /\ g.neighbor = f.neighbor /\ g.lieAge = f.lieAge
        /\ g.holdtime = f.holdtime /\ g.sent = None
        /\ SameIdentity(f, g) /\ g.mnAge = f.mnAge
        /\ g.state = f.state /\ g.notified = None
    BY <1>1, <1>2, <1>3, <2>1 DEF Queued, SameIdentity
  <2>3. Passes(f, g, ev)
    BY <1>21, <2>2 DEF Passes
  <2> QED
    BY <1>13, <2>2, <2>3
<1> HIDE DEF T
<1>22. CASE f.state = "OneWay"
  <2>1. processEvent(h, ev) = processOneWay(h, ev)
    BY <1>1, <1>22 DEF processEvent
  <2>2. T(processOneWay(h, ev))
    BY <1>1, <1>7, <1>8, <1>9, <1>17, <1>21, <1>22 DEF processOneWay
  <2> QED
    BY <1>4, <2>1, <2>2 DEF T, ev
<1> DEFINE ToOneWay == {"NeighborChangedLevel", "NeighborChangedAddress",
                 "UnacceptableHeader", "MTUMismatch", "HoldtimeExpired"}
<1>23. ToOneWay = LeadsToOneWay \ {"MultipleNeighborsDone"}
  BY DEF LeadsToOneWay
<1>24. CASE f.state = "TwoWay"
  <2>1. processEvent(h, ev) = processTwoWay(h, ev)
    BY <1>1, <1>24 DEF processEvent
  <2>2. CASE ev \in ToOneWay
    <3>1. T(enterState(h, "OneWay"))
      BY <1>10, <1>23, <1>24, <2>2
    <3>2. processTwoWay(h, ev) = enterState(h, "OneWay")
      BY <2>2 DEF processTwoWay
    <3> QED
      BY <1>4, <2>1, <3>1, <3>2 DEF T, ev
  <2>3. CASE ev \notin ToOneWay
    <3>1. T(processTwoWay(h, ev))
      BY <1>7, <1>8, <1>9, <1>18, <1>19, <1>21, <1>23, <1>24, <2>3
         DEF processTwoWay
    <3> QED
      BY <1>4, <2>1, <3>1 DEF T, ev
  <2> QED
    BY <2>2, <2>3
<1>25. CASE f.state = "ThreeWay"
  <2>1. processEvent(h, ev) = processThreeWay(h, ev)
    BY <1>1, <1>25 DEF processEvent
  <2>2. CASE ev \in ToOneWay
    <3>1. T(enterState(h, "OneWay"))
      BY <1>10, <1>23, <1>25, <2>2
    <3>2. processThreeWay(h, ev) = enterState(h, "OneWay")
      BY <2>2 DEF processThreeWay
    <3> QED
      BY <1>4, <2>1, <3>1, <3>2 DEF T, ev
  <2>3. CASE ev \notin ToOneWay
    <3>1. T(processThreeWay(h, ev))
      BY <1>7, <1>8, <1>9, <1>18, <1>19, <1>21, <1>23, <1>25, <2>3
         DEF processThreeWay
    <3> QED
      BY <1>4, <2>1, <3>1 DEF T, ev
  <2> QED
    BY <2>2, <2>3
<1>26. CASE f.state = "MultipleNeighborsWait"
  <2>1. processEvent(h, ev) = processMultipleNeighborsWait(h, ev)
    BY <1>1, <1>26 DEF processEvent
  <2>2. "MultipleNeighborsDone" \in LeadsToOneWay
    BY DEF LeadsToOneWay
  <2>3. T(processMultipleNeighborsWait(h, ev))
    BY <1>9, <1>10, <1>20, <1>21, <1>26, <2>2
       DEF processMultipleNeighborsWait
  <2> QED
    BY <1>4, <2>1, <2>3 DEF T, ev
<1> QED
  BY <1>5, <1>22, <1>24, <1>25, <1>26 DEF State

-----------------------------------------------------------------------------
(* What the turns keep. *)

\* The order of the queue, for the set of its events.
LEMMA QueueSet ==
    ASSUME NEW f \in FSM, QueueOrder(f), OneWayNeighborIsNew(f),
           f.eventQueue # <<>>
    PROVE  LET ev == Head(f.eventQueue) IN
           /\ Queued(f) = {ev} \cup Behind(f)
           /\ ev \in LeadsToOneWay \cup {"LieRcvd", "TimerTick"} =>
                Behind(f) = {}
           /\ "LieRcvd" \notin Behind(f) /\ "TimerTick" \notin Behind(f)
           /\ f.state = "OneWay" /\ f.neighbor # None =>
                "NewNeighbor" \in Queued(f)
           /\ ev = "NewNeighbor" => "NewNeighbor" \notin Behind(f)
           /\ ev = "LieRcvd" => f.pending # None
           /\ ev \in AboutNeighbor => f.neighbor # None
           /\ ev \in {"ValidReflection", "MultipleNeighbors"} =>
                f.state # "OneWay"
<1> DEFINE q == f.eventQueue
<1>1. /\ q \in Seq(Event) /\ Len(q) \in Nat \ {0} /\ Head(q) = q[1]
      /\ 1 \in 1..Len(q)
  BY EmptySeq DEF FSM
<1>2. Queued(f) = {Head(q)} \cup Behind(f)
  BY QueuedTail
<1>3. /\ Head(q) \in LeadsToOneWay \cup {"LieRcvd", "TimerTick"} => Len(q) = 1
      /\ Head(q) = "LieRcvd" => f.pending # None
      /\ Head(q) \in AboutNeighbor => f.neighbor # None
      /\ Head(q) \in {"ValidReflection", "MultipleNeighbors"} =>
           f.state # "OneWay"
  BY <1>1 DEF QueueOrder
<1>4. Len(q) = 1 => Behind(f) = {}
  BY DEF Behind
<1>5. "LieRcvd" \notin Behind(f) /\ "TimerTick" \notin Behind(f)
  BY <1>1 DEF Behind, QueueOrder
<1>6. f.state = "OneWay" /\ f.neighbor # None => "NewNeighbor" \in Queued(f)
  BY DEF OneWayNeighborIsNew, Queued
<1>7. ASSUME Head(q) = "NewNeighbor", "NewNeighbor" \in Behind(f) PROVE FALSE
  <2>1. PICK i \in 2..Len(q) : q[i] = "NewNeighbor"
    BY <1>7 DEF Behind
  <2>2. i \in 1..Len(q) /\ 1 \in 1..(i - 1)
    BY <1>1, <2>1
  <2> QED
    BY <1>1, <1>7, <2>1, <2>2 DEF QueueOrder
<1> QED
  BY <1>2, <1>3, <1>4, <1>5, <1>6, <1>7

\* A queued end of the wait is due, and nothing before it restarts the timer.
DoneIsDue(f) ==
    "MultipleNeighborsDone" \in Queued(f) =>
        /\ f.state = "MultipleNeighborsWait"
        /\ f.mnAge > MultipleNeighborsTimeout
        /\ "MultipleNeighbors" \notin Queued(f)

\* The current neighbor has a clock, and its own holdtime unless an event that
\* dismisses it is queued; once the holdtime is over a tick has still to be
\* read, or HoldtimeExpired is queued.
Clocked(f, tick) ==
    f.neighbor # None =>
        /\ f.lieAge # NoTime
        /\ f.state # "MultipleNeighborsWait" =>
             /\ \/ f.holdtime = f.neighbor.holdtime
                \/ Queued(f) \cap {"MultipleNeighbors", "NeighborChangedLevel",
                                   "NeighborChangedAddress"} # {}
             /\ f.holdtime # 0 /\ f.lieAge > f.holdtime =>
                  tick \/ Queued(f) \cap {"TimerTick", "HoldtimeExpired"} # {}

\* What handleAdjacencyEvent of the agent reads of a neighbor.
SameNeighbor(m, n) ==
    m.systemID = n.systemID /\ m.level = n.level /\ m.address = n.address

\* A turn queues MultipleNeighborsDone only when it is due.
LEMMA TurnDone ==
    ASSUME NEW f \in FSM, NEW g \in FSM, NEW ev, Turn(f, g, ev),
           Queued(f) = {ev} \cup Behind(f), DoneIsDue(f)
    PROVE  DoneIsDue(g)
<1>1. CASE Hears(f, g)
  <2>1. "MultipleNeighborsDone" \notin Verdict(f, f.pending)
    BY DEF Verdict
  <2> QED
    BY <1>1, <2>1
       DEF Hears, Forgets, Introduces, Contradicts, Confirms, DoneIsDue
<1>2. CASE Leaves(f, g, ev)
  BY <1>2 DEF Leaves, DoneIsDue
<1>3. CASE Advances(f, g, ev)
  BY <1>3 DEF Advances, DoneIsDue
<1>4. CASE g.state = f.state /\ Ticks(f, g, ev)
  <2>1. f.state \in State
    BY DEF FSM
  <2>2. "MultipleNeighborsDone" \in Queued(g) =>
          /\ f.state = "MultipleNeighborsWait"
          /\ f.mnAge > MultipleNeighborsTimeout
          /\ Queued(g) = {"MultipleNeighborsDone"}
    BY <1>4, <2>1 DEF Ticks, State
  <2>3. g.mnAge = f.mnAge
    BY <1>4 DEF Ticks
  <2> QED
    BY <1>4, <2>2, <2>3 DEF DoneIsDue
<1>5. CASE g.state = f.state /\ Passes(f, g, ev)
  BY <1>5 DEF Passes, DoneIsDue
<1> QED
  BY <1>1, <1>2, <1>3, <1>4, <1>5 DEF Turn

\* A turn leaves no neighbor without a clock, and the tick it reads finds the
\* holdtime that is over.
LEMMA TurnClock ==
    ASSUME NEW f \in FSM, NEW g \in FSM, NEW ev, NEW tick \in BOOLEAN,
           Turn(f, g, ev), Clocked(f, tick),
           Queued(f) = {ev} \cup Behind(f),
           ev \in LeadsToOneWay \cup {"LieRcvd", "TimerTick"} => Behind(f) = {},
           f.state = "OneWay" /\ f.neighbor # None =>
                "NewNeighbor" \in Queued(f)
    PROVE  Clocked(g, tick)
<1>1. CASE Hears(f, g)
  <2>1. CASE Forgets(f, g)
    BY <2>1 DEF Forgets, Clocked
  <2>2. CASE ~Forgets(f, g)
    <3>1. /\ ValidLie(f, f.pending) /\ f.pending # None
          /\ g.lieAge = 0 /\ g.holdtime = f.pending.holdtime
          /\ Introduces(f, g) \/ Contradicts(f, g) \/ Confirms(f, g)
      BY <1>1, <2>2 DEF Hears
    <3>2. f.pending \in LiePacket /\ g.holdtime \in Nat /\ g.lieAge # NoTime
      BY <3>1 DEF FSM, NoTime
    <3>3. \/ g.holdtime = g.neighbor.holdtime
          \/ Queued(g) \cap {"MultipleNeighbors", "NeighborChangedLevel",
                             "NeighborChangedAddress"} # {}
      <4>1. CASE Introduces(f, g)
        BY <3>1, <4>1 DEF Introduces, NeighborOf
      <4>2. CASE Contradicts(f, g)
        BY <4>2 DEF Contradicts
      <4>3. CASE Confirms(f, g)
        BY <3>1, <4>3 DEF Confirms, FSM, NeighborState
      <4> QED
        BY <3>1, <4>1, <4>2, <4>3
    <3>4. ~(g.lieAge > g.holdtime)
      BY <3>1, <3>2
    <3> QED
      BY <3>2, <3>3, <3>4 DEF Clocked
  <2> QED
    BY <2>1, <2>2
<1>2. CASE Leaves(f, g, ev)
  BY <1>2 DEF Leaves, Clocked
<1> DEFINE Kept == /\ g.neighbor = f.neighbor /\ g.lieAge = f.lieAge
                   /\ g.holdtime = f.holdtime
<1>3. CASE Kept /\ Advances(f, g, ev)
  <2>1. CASE f.neighbor = None
    BY <1>3, <2>1 DEF Clocked
  <2>2. CASE f.neighbor # None
    <3>1. /\ f.lieAge # NoTime /\ f.state # "MultipleNeighborsWait"
          /\ \/ f.holdtime = f.neighbor.holdtime
             \/ Queued(f) \cap {"MultipleNeighbors", "NeighborChangedLevel",
                                "NeighborChangedAddress"} # {}
          /\ f.holdtime # 0 /\ f.lieAge > f.holdtime =>
               tick \/ Queued(f) \cap {"TimerTick", "HoldtimeExpired"} # {}
      BY <1>3, <2>2 DEF Clocked, Advances
    <3>2. g.state # "MultipleNeighborsWait" =>
            /\ ev \notin {"MultipleNeighbors", "NeighborChangedLevel",
                  "NeighborChangedAddress", "TimerTick", "HoldtimeExpired"}
            /\ Behind(f) \subseteq Queued(g)
      BY <1>3 DEF Advances
    <3> QED
      BY <1>3, <3>1, <3>2 DEF Clocked
  <2> QED
    BY <2>1, <2>2
<1>4. CASE Kept /\ g.state = f.state /\ Ticks(f, g, ev)
  <2>1. CASE f.neighbor = None \/ f.state = "MultipleNeighborsWait"
    BY <1>4, <2>1 DEF Clocked
  <2>2. CASE f.neighbor # None /\ f.state # "MultipleNeighborsWait"
    <3>1. Queued(f) = {"TimerTick"} /\ f.state \in {"TwoWay", "ThreeWay"}
      BY <1>4, <2>2 DEF Ticks, FSM, State
    <3>2. f.lieAge # NoTime /\ f.holdtime = f.neighbor.holdtime
      BY <2>2, <3>1 DEF Clocked
    <3>3. f.holdtime # 0 /\ f.lieAge > f.holdtime =>
            "HoldtimeExpired" \in Queued(g)
      BY <1>4, <3>1, <3>2 DEF Ticks
    <3> QED
      BY <1>4, <3>2, <3>3 DEF Clocked
  <2> QED
    BY <2>1, <2>2
<1>5. CASE Kept /\ g.state = f.state /\ Passes(f, g, ev)
  <2>1. CASE f.neighbor = None \/ f.state = "MultipleNeighborsWait"
    BY <1>5, <2>1 DEF Clocked
  <2>2. CASE f.neighbor # None /\ f.state # "MultipleNeighborsWait"
    <3>1. ev \notin LeadsToOneWay \ {"MultipleNeighborsDone"}
      <4>1. CASE f.state = "OneWay"
        BY <2>2, <4>1 DEF LeadsToOneWay
      <4>2. CASE f.state # "OneWay"
        BY <1>5, <2>2, <4>2 DEF Passes, FSM, State, LeadsToOneWay
      <4> QED
        BY <4>1, <4>2
    <3>2. ev \notin {"MultipleNeighbors", "NeighborChangedLevel",
                  "NeighborChangedAddress", "TimerTick", "HoldtimeExpired"}
      BY <1>5, <2>2, <3>1 DEF Passes, LeadsToOneWay
    <3>3. Queued(g) = Behind(f)
      BY <1>5 DEF Passes
    <3> QED
      BY <1>5, <2>2, <3>2, <3>3 DEF Clocked
  <2> QED
    BY <2>1, <2>2
<1> QED
  BY <1>1, <1>2, <1>3, <1>4, <1>5 DEF Turn

\* The neighbor of an FSM in ThreeWay is the one its notification carried, or
\* the one it had before the turn; another one is announced as new.
LEMMA TurnAnnounces ==
    ASSUME NEW f \in FSM, NEW g \in FSM, NEW ev, Turn(f, g, ev),
           Queued(f) = {ev} \cup Behind(f),
           g.state = "ThreeWay", g.neighbor # None,
           "NewNeighbor" \notin Queued(g)
    PROVE  \/ g.notified # None /\ g.notified.neighbor = g.neighbor
           \/ /\ g.notified = None /\ f.state = "ThreeWay"
              /\ f.neighbor # None /\ "NewNeighbor" \notin Queued(f)
              /\ SameNeighbor(g.neighbor, f.neighbor)
<1>1. CASE ev = "LieRcvd" /\ Behind(f) = {} /\ Hears(f, g)
  <2>1. g.notified = None /\ f.state = "ThreeWay" /\ "NewNeighbor" \notin Queued(f)
    BY <1>1 DEF Hears
  <2>2. Contradicts(f, g) \/ Confirms(f, g)
    BY <1>1 DEF Hears, Forgets, Introduces
  <2>3. f.neighbor # None /\ f.neighbor \in NeighborState
    BY <2>2 DEF Contradicts, Confirms, FSM
  <2>4. SameNeighbor(g.neighbor, f.neighbor)
    BY <2>2, <2>3 DEF Contradicts, Confirms, SameNeighbor, NeighborState
  <2> QED
    BY <2>1, <2>3, <2>4
<1>2. CASE Leaves(f, g, ev)
  BY <1>2 DEF Leaves
<1>3. CASE g.neighbor = f.neighbor /\ Advances(f, g, ev)
  <2>1. g.notified = [state |-> g.state, neighbor |-> f.neighbor]
    BY <1>3 DEF Advances
  <2>2. [state |-> g.state, neighbor |-> f.neighbor] \in AdjacencyEvent
    BY DEF AdjacencyEvent, FSM
  <2>3. g.notified # None /\ g.notified.neighbor = f.neighbor
    BY <2>1, <2>2, LieConstants
  <2> QED
    BY <1>3, <2>3
<1>4. CASE /\ g.neighbor = f.neighbor /\ g.state = f.state
           /\ g.notified = None
           /\ Ticks(f, g, ev) \/ Passes(f, g, ev)
  <2>1. "NewNeighbor" \notin Queued(f)
    BY <1>4 DEF Ticks, Passes
  <2> QED
    BY <1>4, <2>1 DEF SameNeighbor
<1> QED
  BY <1>1, <1>2, <1>3, <1>4 DEF Turn
=============================================================================
