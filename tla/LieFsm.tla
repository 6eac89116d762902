------------------------------- MODULE LieFsm -------------------------------
(***************************************************************************)
(* The per-interface LIE state machine of internal/lie/fsm.go, as          *)
(* operators on the value of one FSM struct.  LieInterface runs one FSM    *)
(* against an arbitrary link; LieLink puts several on a shared link.       *)
(*                                                                         *)
(* Time is counted in whole seconds: lieAge and mnAge are the seconds      *)
(* since lastLIERcvd was set and since the multiple-neighbors timer was    *)
(* started, NoTime where the code has a zero time.Time.  They saturate at  *)
(* AgeCap, past which every comparison of the code has the same result.    *)
(* The advertised name stands with the flood port: both are minor fields.  *)
(***************************************************************************)
EXTENDS Integers, Sequences

CONSTANTS
    None,                 \* a nil pointer
    DefaultLIEHoldtime,   \* seconds (encoding.DefaultLIEHoldtime, 3)
    MultipleNeighborsLIEHoldtimeMultiplier,   \* 4
    SystemIDs,            \* the system IDs that occur in packets
    Levels,               \* the levels that occur
    Addresses, LinkIDs, FloodPorts,
    Holdtimes             \* the holdtimes neighbors advertise

IllegalSystemID == 0
ProtocolMajorVersion == 8
DefaultMTUSize == 1400
LeafLevel == 0
NoLevel == -1             \* PacketHeader.Level is nil
NoTime == -1              \* time.Time is zero

MultipleNeighborsTimeout ==
    MultipleNeighborsLIEHoldtimeMultiplier * DefaultLIEHoldtime

State == {"OneWay", "TwoWay", "ThreeWay", "MultipleNeighborsWait"}

Event == {"TimerTick", "LieRcvd", "NewNeighbor", "ValidReflection",
          "NeighborDroppedReflection", "NeighborChangedLevel",
          "NeighborChangedAddress", "UnacceptableHeader", "MTUMismatch",
          "HoldtimeExpired", "MultipleNeighbors", "MultipleNeighborsDone",
          "SendLie", "NeighborChangedMinorFields", "UpdateZTPOffer"}

NeighborState == [systemID : SystemIDs, level : Levels, linkID : LinkIDs,
                  address : Addresses, floodPort : FloodPorts,
                  holdtime : Holdtimes]

\* encoding.Neighbor: whom the sender of a LIE claims to hear.
Reflection == [originator : SystemIDs, remoteID : LinkIDs]

\* A received LIE: header, content and source address.
LiePacket == [version : Nat, sender : SystemIDs \cup {IllegalSystemID},
              level : Levels \cup {NoLevel}, mtu : Nat, src : Addresses,
              localID : LinkIDs, floodPort : FloodPorts,
              holdtime : Holdtimes, neighbor : Reflection \cup {None}]

AdjacencyEvent == [state : State, neighbor : NeighborState \cup {None}]

ASSUME LieConstants ==
    /\ DefaultLIEHoldtime \in Nat \ {0}
    /\ MultipleNeighborsLIEHoldtimeMultiplier \in Nat \ {0}
    /\ Holdtimes \subseteq Nat
    /\ DefaultLIEHoldtime \in Holdtimes
    /\ SystemIDs \subseteq Nat \ {IllegalSystemID}
    /\ Levels \subseteq Nat
    /\ None \notin NeighborState /\ None \notin Reflection
    /\ None \notin LiePacket /\ None \notin AdjacencyEvent

\* type FSM struct.  sent and notified are the outputs of the event processed
\* last: the LIE handed to the transport and the event for stateChangeCh.
FSM == [systemID : SystemIDs, level : Levels, localID : LinkIDs,
        address : Addresses, floodPort : FloodPorts,
        state : State, neighbor : NeighborState \cup {None},
        eventQueue : Seq(Event), pending : LiePacket \cup {None},
        lieAge : Nat \cup {NoTime}, holdtime : Nat,
        mnAge : Nat \cup {NoTime},
        sent : LiePacket \cup {None},
        notified : AdjacencyEvent \cup {None}]

\* What NewFSM is given: who the node is, and the interface's own values.
Identity == [systemID : SystemIDs, level : Levels, localID : LinkIDs,
             address : Addresses, floodPort : FloodPorts]

\* NewFSM, for a node with identity id (its transport's address included).
NewFSM(id) ==
    [systemID |-> id.systemID, level |-> id.level, localID |-> id.localID,
     address |-> id.address, floodPort |-> id.floodPort,
     state |-> "OneWay", neighbor |-> None, eventQueue |-> <<>>,
     pending |-> None, lieAge |-> NoTime, holdtime |-> 0, mnAge |-> NoTime,
     sent |-> None, notified |-> None]

push(f, ev) == [f EXCEPT !.eventQueue = Append(@, ev)]

\* Mutant: the holdtime is reset to a zero time.
cleanup_HoldtimeToNoTime(f) ==
    [f EXCEPT !.neighbor = None, !.lieAge = NoTime, !.holdtime = NoTime]

\* cleanup: delete the current neighbor, and with it the holdtime clock.
cleanup(f) ==
    [f EXCEPT !.neighbor = None, !.lieAge = NoTime, !.holdtime = 0]

\* Mutant: OneWay is entered without its entry action.
enterState_NoCleanup(f, s) ==
    [f EXCEPT !.state = s, !.notified = [state |-> s, neighbor |-> f.neighbor]]

\* enterState: the entry action of OneWay, then the event for the agent, with
\* a copy of the neighbor.
enterState(f, s) ==
    LET g == IF s = "OneWay" THEN cleanup(f) ELSE f
    IN  [g EXCEPT !.state = s,
                  !.notified = [state |-> s, neighbor |-> g.neighbor]]

startMultipleNeighborsTimer(f) == [f EXCEPT !.mnAge = 0]

levelAcceptable(f, remoteLevel) ==
    \/ f.level = LeafLevel
    \/ remoteLevel = LeafLevel
    \/ f.level - remoteLevel \in -1..1

\* Mutant: the reflection is left out.
sendLIE_NoReflection(f) ==
    [f EXCEPT !.sent =
        [version |-> ProtocolMajorVersion, sender |-> f.systemID,
         level |-> f.level, mtu |-> DefaultMTUSize, src |-> f.address,
         localID |-> f.localID, floodPort |-> f.floodPort,
         holdtime |-> DefaultLIEHoldtime, neighbor |-> None]]

\* sendLIE, as the packet the other stations of the link receive.
sendLIE(f) ==
    [f EXCEPT !.sent =
        [version |-> ProtocolMajorVersion, sender |-> f.systemID,
         level |-> f.level, mtu |-> DefaultMTUSize, src |-> f.address,
         localID |-> f.localID, floodPort |-> f.floodPort,
         holdtime |-> DefaultLIEHoldtime,
         neighbor |-> IF f.neighbor = None THEN None
                      ELSE [originator |-> f.neighbor.systemID,
                            remoteID |-> f.neighbor.linkID]]]

\* Mutant: one second more than the holdtime.
checkHoldtime_OneMore(f) ==
    IF f.lieAge # NoTime /\ f.holdtime # 0 /\ f.lieAge > f.holdtime + 1
    THEN push(f, "HoldtimeExpired") ELSE f

checkHoldtime(f) ==
    IF f.lieAge # NoTime /\ f.holdtime # 0 /\ f.lieAge > f.holdtime
    THEN push(f, "HoldtimeExpired") ELSE f

\* Mutant: a LIE without reflection is taken for one that reflects another.
checkThreeWay_NilIsOther(f, lie) ==
    IF f.state = "OneWay" THEN f
    ELSE IF lie.neighbor = [originator |-> f.systemID, remoteID |-> f.localID]
    THEN push(f, "ValidReflection") ELSE push(f, "MultipleNeighbors")

\* Mutant: any reflection will do, and its loss goes unnoticed.
checkThreeWay_AnyReflection(f, lie) ==
    IF f.state = "OneWay" \/ lie.neighbor = None THEN f
    ELSE push(f, "ValidReflection")

checkThreeWay(f, lie) ==
    IF f.state = "OneWay" THEN f
    ELSE IF lie.neighbor = None
    THEN IF f.state = "ThreeWay" THEN push(f, "NeighborDroppedReflection")
                                 ELSE f
    ELSE IF /\ lie.neighbor.originator = f.systemID
            /\ lie.neighbor.remoteID = f.localID
    THEN push(f, "ValidReflection")
    ELSE push(f, "MultipleNeighbors")

(***************************************************************************)
(* processLIE, in the order of its early returns.                          *)
(***************************************************************************)
\* Step 1: packets that are dropped with a cleanup and no event.
Foreign(f, lie) ==
    \/ lie.version # ProtocolMajorVersion
    \/ lie.sender \in {f.systemID, IllegalSystemID}

\* Steps 2 and 3: the event an inadmissible LIE raises.
Inadmissible(f, lie) ==
    IF lie.mtu # DefaultMTUSize THEN "MTUMismatch"
    ELSE IF lie.level = NoLevel \/ ~levelAcceptable(f, lie.level)
    THEN "UnacceptableHeader" ELSE "none"

\* A LIE that refreshes the adjacency's clock.
ValidLie(f, lie) == ~Foreign(f, lie) /\ Inadmissible(f, lie) = "none"

\* Mutant: a new address is taken over like a minor field.
trackNeighbor_MinorAddress(f, lie) ==
    LET n == f.neighbor
        g == [f EXCEPT !.neighbor =
                [systemID |-> lie.sender, level |-> lie.level,
                 linkID |-> lie.localID, address |-> lie.src,
                 floodPort |-> lie.floodPort, holdtime |-> lie.holdtime]]
    IN  CASE n = None -> checkThreeWay(push(g, "NewNeighbor"), lie)
          [] n # None /\ n.systemID # lie.sender -> push(f, "MultipleNeighbors")
          [] n # None /\ n.systemID = lie.sender /\ n.level # lie.level ->
               push(f, "NeighborChangedLevel")
          [] OTHER -> checkThreeWay(g, lie)

\* Step 4: f's clock has been refreshed and UpdateZTPOffer pushed.
trackNeighbor(f, lie) ==
    LET n == f.neighbor IN
    CASE n = None ->
           checkThreeWay(
             push([f EXCEPT !.neighbor =
                     [systemID |-> lie.sender, level |-> lie.level,
                      linkID |-> lie.localID, address |-> lie.src,
                      floodPort |-> lie.floodPort,
                      holdtime |-> lie.holdtime]], "NewNeighbor"), lie)
      [] n # None /\ n.systemID # lie.sender -> push(f, "MultipleNeighbors")
      [] n # None /\ n.systemID = lie.sender /\ n.level # lie.level ->
           push(f, "NeighborChangedLevel")
      [] n # None /\ n.systemID = lie.sender /\ n.level = lie.level
            /\ n.address # lie.src -> push(f, "NeighborChangedAddress")
      [] OTHER ->
           LET minor == n.floodPort # lie.floodPort \/ n.linkID # lie.localID
               g == [f EXCEPT !.neighbor =
                        [n EXCEPT !.floodPort = lie.floodPort,
                                  !.linkID = lie.localID,
                                  !.holdtime = lie.holdtime]]
           IN  checkThreeWay(
                 IF minor THEN push(g, "NeighborChangedMinorFields") ELSE g,
                 lie)

\* The pending packet is read once: it is dropped from the model after that.
processLIE(f0) ==
    LET lie == f0.pending
        f == [f0 EXCEPT !.pending = None]
    IN  IF Foreign(f, lie) THEN cleanup(f)
        ELSE IF Inadmissible(f, lie) # "none"
        THEN push(push(cleanup(f), "UpdateZTPOffer"), Inadmissible(f, lie))
        ELSE trackNeighbor(
               [push(f, "UpdateZTPOffer") EXCEPT
                    !.lieAge = 0, !.holdtime = lie.holdtime], lie)

(***************************************************************************)
(* The transition table.  LevelChanged and FloodLeadersChanged are left    *)
(* out: nothing in the repository pushes them.                             *)
(***************************************************************************)
processOneWay(f, ev) ==
    CASE ev = "TimerTick" -> push(f, "SendLie")
      [] ev = "LieRcvd" -> processLIE(f)
      [] ev = "NewNeighbor" -> enterState(push(f, "SendLie"), "TwoWay")
      [] ev = "ValidReflection" -> enterState(f, "ThreeWay")
      [] ev = "MultipleNeighbors" ->
           enterState(startMultipleNeighborsTimer(f), "MultipleNeighborsWait")
      [] ev = "SendLie" -> sendLIE(f)
      [] OTHER -> f

processTwoWay(f, ev) ==
    CASE ev = "TimerTick" -> checkHoldtime(push(f, "SendLie"))
      [] ev = "LieRcvd" -> processLIE(f)
      [] ev = "NewNeighbor" ->
           enterState(startMultipleNeighborsTimer(push(f, "SendLie")),
                      "MultipleNeighborsWait")
      [] ev = "ValidReflection" -> enterState(f, "ThreeWay")
      [] ev \in {"NeighborChangedLevel", "NeighborChangedAddress",
                 "UnacceptableHeader", "MTUMismatch", "HoldtimeExpired"} ->
           enterState(f, "OneWay")
      [] ev = "MultipleNeighbors" ->
           enterState(startMultipleNeighborsTimer(f), "MultipleNeighborsWait")
      [] ev = "SendLie" -> sendLIE(f)
      [] OTHER -> f

processThreeWay(f, ev) ==
    CASE ev = "TimerTick" -> checkHoldtime(push(f, "SendLie"))
      [] ev = "LieRcvd" -> processLIE(f)
      [] ev = "NeighborDroppedReflection" -> enterState(f, "TwoWay")
      [] ev \in {"NeighborChangedLevel", "NeighborChangedAddress",
                 "UnacceptableHeader", "MTUMismatch", "HoldtimeExpired"} ->
           enterState(f, "OneWay")
      [] ev \in {"MultipleNeighbors", "NewNeighbor"} ->
           enterState(startMultipleNeighborsTimer(f), "MultipleNeighborsWait")
      [] ev = "SendLie" -> sendLIE(f)
      [] OTHER -> f

\* Mutant: a reflection still queued from before the wait is honoured.
processMultipleNeighborsWait_Reflects(f, ev) ==
    CASE ev = "TimerTick" ->
           IF f.mnAge # NoTime /\ f.mnAge > MultipleNeighborsTimeout
           THEN push(f, "MultipleNeighborsDone") ELSE f
      [] ev = "MultipleNeighborsDone" -> enterState(f, "OneWay")
      [] ev = "MultipleNeighbors" -> startMultipleNeighborsTimer(f)
      [] ev = "ValidReflection" -> enterState(f, "ThreeWay")
      [] ev = "LieRcvd" -> [f EXCEPT !.pending = None]
      [] OTHER -> f

\* Mutant: the wait ends one second early.
processMultipleNeighborsWait_Early(f, ev) ==
    CASE ev = "TimerTick" ->
           IF f.mnAge # NoTime /\ f.mnAge >= MultipleNeighborsTimeout
           THEN push(f, "MultipleNeighborsDone") ELSE f
      [] ev = "MultipleNeighborsDone" -> enterState(f, "OneWay")
      [] ev = "MultipleNeighbors" -> startMultipleNeighborsTimer(f)
      [] ev = "LieRcvd" -> [f EXCEPT !.pending = None]
      [] OTHER -> f

\* Mutant: every LIE restarts the timer.
processMultipleNeighborsWait_Restarts(f, ev) ==
    CASE ev = "TimerTick" ->
           IF f.mnAge # NoTime /\ f.mnAge > MultipleNeighborsTimeout
           THEN push(f, "MultipleNeighborsDone") ELSE f
      [] ev = "MultipleNeighborsDone" -> enterState(f, "OneWay")
      [] ev = "MultipleNeighbors" -> startMultipleNeighborsTimer(f)
      [] ev = "LieRcvd" -> startMultipleNeighborsTimer([f EXCEPT !.pending = None])
      [] OTHER -> f

\* A LieRcvd is ignored here without processLIE: its packet is never read.
processMultipleNeighborsWait(f, ev) ==
    CASE ev = "TimerTick" ->
           IF f.mnAge # NoTime /\ f.mnAge > MultipleNeighborsTimeout
           THEN push(f, "MultipleNeighborsDone") ELSE f
      [] ev = "MultipleNeighborsDone" -> enterState(f, "OneWay")
      [] ev = "MultipleNeighbors" -> startMultipleNeighborsTimer(f)
      [] ev = "LieRcvd" -> [f EXCEPT !.pending = None]
      [] OTHER -> f

processEvent(f, ev) ==
    CASE f.state = "OneWay" -> processOneWay(f, ev)
      [] f.state = "TwoWay" -> processTwoWay(f, ev)
      [] f.state = "ThreeWay" -> processThreeWay(f, ev)
      [] f.state = "MultipleNeighborsWait" ->
           processMultipleNeighborsWait(f, ev)

\* One iteration of drainQueue.  The outputs of the previous event are gone.
drainOne(f) ==
    processEvent([f EXCEPT !.eventQueue = Tail(@),
                           !.sent = None, !.notified = None],
                 Head(f.eventQueue))

\* HandlePacket and Tick up to drainQueue; the goroutine calls them only when
\* the queue has been drained.
HandlePacket(f, lie) == push([f EXCEPT !.pending = lie], "LieRcvd")
Tick(f) == push(f, "TimerTick")

\* One second of wall-clock time, capped at what the comparisons tell apart.
Older(age, cap) == IF age \in {NoTime, cap} THEN age ELSE age + 1
AgeFsm(f, cap) == [f EXCEPT !.lieAge = Older(@, cap), !.mnAge = Older(@, cap)]

Idle(f) == f.eventQueue = <<>>

-----------------------------------------------------------------------------
(* The order of the event queue. *)

\* The events after which every state of the table but MultipleNeighborsWait
\* goes to OneWay, or which end the wait.
LeadsToOneWay ==
    {"NeighborChangedLevel", "NeighborChangedAddress", "UnacceptableHeader",
     "MTUMismatch", "HoldtimeExpired", "MultipleNeighborsDone"}

\* The events that are about the current neighbor.
AboutNeighbor ==
    {"NewNeighbor", "ValidReflection", "NeighborDroppedReflection",
     "MultipleNeighbors", "NeighborChangedMinorFields"}

\* What makes the handshake safe is which events can wait behind which in the
\* event queue: an outside stimulus is alone in it, an event that leads to
\* OneWay is the last, a neighbor is new once, and no reflection outlives the
\* neighbor it is about.
QueueOrder(f) ==
    \A i \in 1..Len(f.eventQueue) :
        LET ev == f.eventQueue[i] IN
        /\ ev \in {"LieRcvd", "TimerTick"} => Len(f.eventQueue) = 1
        /\ ev = "LieRcvd" => f.pending # None
        /\ ev \in LeadsToOneWay =>
             /\ i = Len(f.eventQueue)
             /\ \A j \in 1..i : f.eventQueue[j] # "NewNeighbor"
        /\ ev = "NewNeighbor" =>
             \A j \in 1..(i - 1) : f.eventQueue[j] # "NewNeighbor"
        /\ ev \in AboutNeighbor => f.neighbor # None
        /\ ev \in {"ValidReflection", "MultipleNeighbors"} => f.state # "OneWay"

\* In OneWay the neighbor, and the clock that counts its silence, are news that
\* is still queued.
OneWayNeighborIsNew(f) ==
    f.state = "OneWay" /\ (f.neighbor # None \/ f.lieAge # NoTime) =>
        \E i \in 1..Len(f.eventQueue) : f.eventQueue[i] = "NewNeighbor"
=============================================================================
