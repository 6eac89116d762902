---------------------------- MODULE LieLinkProofs ---------------------------
(***************************************************************************)
(* The stations of a link, for any number of them, any timeouts and any    *)
(* bounds on losses, restarts and replacements.                            *)
(*                                                                         *)
(* LinkInv is inductive: it relates each FSM to the LIEs on their way to   *)
(* it and to the seconds for which nobody had it as a neighbor.  PeerInv   *)
(* adds, for a link of two stations that were not replaced, that each has  *)
(* heard of nobody but the other.                                          *)
(***************************************************************************)
EXTENDS LieLink, LieFsmProofs

-----------------------------------------------------------------------------
(* The invariants. *)

\* The LIEs a station has still to read, the one it has taken last included.
Inbound(f, box) ==
    {box[i] : i \in 1..Len(box)}
        \cup (IF "LieRcvd" \in Queued(f) THEN {f.pending} ELSE {})

\* A LIE on its way to s, unseen for u seconds, is from another station with
\* the same protocol version; if it reflects s, its sender has seen s in this
\* very second.
WellSent(p, s, u) ==
    /\ p.version = ProtocolMajorVersion
    /\ p.sender # s.systemID /\ p.sender # IllegalSystemID
    /\ p.holdtime = DefaultLIEHoldtime
    /\ p.neighbor # None /\ p.neighbor.originator = s.systemID => u = 0

\* The events that end ThreeWay.
Ousting == {"NeighborDroppedReflection", "MultipleNeighbors",
            "NeighborChangedLevel", "NeighborChangedAddress",
            "UnacceptableHeader", "MTUMismatch", "HoldtimeExpired"}

\* An FSM that is, or is about to be, in ThreeWay has heard its own reflection
\* since it was seen last, and neither TwoWay nor ThreeWay is without neighbor,
\* unless an event that ends it is queued.
OneSided(f, u) ==
    /\ f.neighbor # None => f.holdtime = DefaultLIEHoldtime
    /\ f.state \in {"TwoWay", "ThreeWay"} =>
         \/ f.neighbor # None
         \/ Queued(f) \cap {"UnacceptableHeader", "MTUMismatch"} # {}
    /\ "ValidReflection" \in Queued(f) => u <= f.lieAge
    /\ f.state = "ThreeWay" => u <= f.lieAge \/ Queued(f) \cap Ousting # {}

FsmOK(s, f, tick, u) ==
    /\ SameIdentity(s, f)
    /\ QueueOrder(f) /\ OneWayNeighborIsNew(f)
    /\ Clocked(f, tick)
    /\ OneSided(f, u)

\* One station: its FSM, the LIEs on their way to it, and nothing of either
\* while it is not on the link.
StationOK(s, f, box, tick, u, here) ==
    /\ FsmOK(s, f, tick, u)
    /\ \A p \in Inbound(f, box) : WellSent(p, s, u)
    /\ ~here => f = NewFSM(s) /\ box = <<>>

LinkInv ==
    \A s \in Stations :
        StationOK(s, fsm[s], inbox[s], s \in tickerC, unseen[s], s \in present)

\* A point-to-point link: two stations, and those that may take their place.
PointToPoint ==
    \A r, s, t \in Stations \ Spares : r = s \/ s = t \/ r = t

\* f knows of no station but those of others, and is not about to wait.
Undisturbed(f, others) ==
    /\ f.state # "MultipleNeighborsWait"
    /\ "MultipleNeighbors" \notin Queued(f)
    /\ "NewNeighbor" \in Queued(f) => f.state = "OneWay"
    /\ f.neighbor # None =>
         \E t \in others : /\ f.neighbor.systemID = t.systemID
                           /\ f.neighbor.linkID = t.localID

\* A LIE for s from station t that reflects nobody or s.
FromPeer(p, t, s) ==
    /\ p.sender = t.systemID /\ p.localID = t.localID
    /\ p.neighbor # None => /\ p.neighbor.originator = s.systemID
                            /\ p.neighbor.remoteID = s.localID

\* Station s, with the FSM f, has heard and will hear of others only.
Peered(s, f, box, others) ==
    /\ Undisturbed(f, others)
    /\ \A p \in Inbound(f, box) : \E t \in others : FromPeer(p, t, s)

PeerInv ==
    present = Stations \ Spares =>
        \A s \in present : Peered(s, fsm[s], inbox[s], present \ {s})

-----------------------------------------------------------------------------
(* One FSM. *)

\* The outputs of a turn are no part of the invariants.
Stripped(g) == [g EXCEPT !.sent = None, !.notified = None]

\* To drop them keeps everything else.
LEMMA StrippedFacts ==
    ASSUME NEW g \in FSM
    PROVE  LET h == Stripped(g) IN
           /\ h \in FSM /\ h.eventQueue = g.eventQueue /\ h.state = g.state
           /\ h.neighbor = g.neighbor /\ h.lieAge = g.lieAge
           /\ h.holdtime = g.holdtime /\ h.pending = g.pending
           /\ SameIdentity(g, h)
BY DEF Stripped, FSM, SameIdentity

\* A valid LIE leaves the FSM with a neighbor.
LEMMA HeardHasNeighbor ==
    ASSUME NEW f \in FSM, NEW g \in FSM, Hears(f, g), ~Forgets(f, g)
    PROVE  /\ g.neighbor # None /\ f.pending \in LiePacket
           /\ g.lieAge = 0 /\ g.holdtime = f.pending.holdtime
           /\ Introduces(f, g) \/ Contradicts(f, g) \/ Confirms(f, g)
<1>1. /\ ValidLie(f, f.pending) /\ f.pending # None
      /\ g.lieAge = 0 /\ g.holdtime = f.pending.holdtime
      /\ Introduces(f, g) \/ Contradicts(f, g) \/ Confirms(f, g)
  BY DEF Hears
<1>2. f.pending \in LiePacket
  BY <1>1 DEF FSM
<1>3. CASE Introduces(f, g)
  <2>1. NeighborOf(f.pending) \in NeighborState
    BY <1>1, <1>2, LieConstants
       DEF LiePacket, NeighborState, NeighborOf, ValidLie, Foreign, Inadmissible
  <2> QED
    BY <1>1, <1>2, <1>3, <2>1, LieConstants DEF Introduces
<1>4. CASE Contradicts(f, g)
  BY <1>1, <1>2, <1>4 DEF Contradicts
<1>5. CASE Confirms(f, g)
  <2>1. f.neighbor \in NeighborState
    BY <1>5 DEF Confirms, FSM
  <2>2. g.neighbor \in NeighborState
    BY <1>2, <1>5, <2>1 DEF Confirms, NeighborState, LiePacket
  <2> QED
    BY <1>1, <1>2, <2>2, LieConstants
<1> QED
  BY <1>1, <1>3, <1>4, <1>5

\* What CHECK_THREE_WAY may push.
LEMMA VerdictFacts ==
    ASSUME NEW f, NEW lie
    PROVE  /\ f.state = "OneWay" => Verdict(f, lie) = {}
           /\ "ValidReflection" \in Verdict(f, lie) =>
                /\ lie.neighbor # None
                /\ lie.neighbor.originator = f.systemID
           /\ f.state = "ThreeWay" =>
                \/ "ValidReflection" \in Verdict(f, lie)
                \/ Verdict(f, lie) \cap Ousting # {}
           /\ "NewNeighbor" \notin Verdict(f, lie)
BY DEF Verdict, Ousting

\* A turn that processes a LIE of the link keeps OneSided.
LEMMA HearsOneSided ==
    ASSUME NEW s, NEW f \in FSM, NEW g \in FSM, NEW u \in Nat,
           Hears(f, g), Queued(f) = {"LieRcvd"}, SameIdentity(s, f),
           f.state # "MultipleNeighborsWait",
           WellSent(f.pending, s, u), OneSided(f, u)
    PROVE  OneSided(g, u)
<1> DEFINE lie == f.pending
<1>1. /\ ~Foreign(f, lie) /\ g.state = f.state
      /\ lie.holdtime = DefaultLIEHoldtime
      /\ "ValidReflection" \in Verdict(f, lie) => u = 0
  BY VerdictFacts DEF WellSent, Foreign, SameIdentity, Hears
<1>2. CASE Forgets(f, g)
  <2>1. PICK ev \in {"MTUMismatch", "UnacceptableHeader"} :
           Queued(g) = {"UpdateZTPOffer", ev}
    BY <1>1, <1>2 DEF Forgets
  <2>2. g.neighbor = None
    BY <1>2 DEF Forgets
  <2>3. Queued(g) \cap {"UnacceptableHeader", "MTUMismatch"} # {}
    BY <2>1
  <2>4. Queued(g) \cap Ousting # {} /\ "ValidReflection" \notin Queued(g)
    BY <2>1 DEF Ousting
  <2> QED
    BY <2>2, <2>3, <2>4 DEF OneSided
<1>3. CASE ~Forgets(f, g)
  <2>1. /\ g.neighbor # None /\ g.lieAge = 0 /\ g.holdtime = lie.holdtime
        /\ Introduces(f, g) \/ Contradicts(f, g) \/ Confirms(f, g)
    BY <1>3, HeardHasNeighbor
  <2>2. "ValidReflection" \in Queued(g) => "ValidReflection" \in Verdict(f, lie)
    BY <2>1 DEF Introduces, Contradicts, Confirms
  <2>3. ASSUME f.state = "ThreeWay"
        PROVE  u = 0 \/ Queued(g) \cap Ousting # {}
    <3>1. f.neighbor # None
      BY <2>3 DEF OneSided
    <3>2. CASE Contradicts(f, g)
      BY <3>2 DEF Contradicts, Ousting
    <3>3. CASE Confirms(f, g)
      <4>1. Verdict(f, lie) \subseteq Queued(g)
        BY <3>3 DEF Confirms
      <4> QED
        BY <1>1, <2>3, <4>1, VerdictFacts
    <3> QED
      BY <2>1, <3>1, <3>2, <3>3 DEF Introduces
  <2> QED
    BY <1>1, <2>1, <2>2, <2>3 DEF OneSided
<1> QED
  BY <1>2, <1>3

\* Every turn keeps it.
LEMMA TurnOneSided ==
    ASSUME NEW s, NEW f \in FSM, NEW g \in FSM, NEW ev, NEW u \in Nat,
           Turn(f, g, ev), SameIdentity(s, f), OneSided(f, u),
           Queued(f) = {ev} \cup Behind(f),
           ev \in AboutNeighbor => f.neighbor # None,
           ev = "LieRcvd" => WellSent(f.pending, s, u)
    PROVE  OneSided(g, u)
<1>1. CASE /\ ev = "LieRcvd" /\ f.state # "MultipleNeighborsWait"
           /\ Behind(f) = {} /\ Hears(f, g)
  BY <1>1, HearsOneSided
<1>2. CASE Leaves(f, g, ev)
  BY <1>2 DEF Leaves, OneSided
<1> DEFINE Kept == /\ g.neighbor = f.neighbor /\ g.lieAge = f.lieAge
                   /\ g.holdtime = f.holdtime
<1>3. CASE Kept /\ Advances(f, g, ev)
  <2>1. /\ "ValidReflection" \in Queued(g) => "ValidReflection" \in Queued(f)
        /\ g.state = "ThreeWay" => "ValidReflection" \in Queued(f)
    BY <1>3 DEF Advances
  <2>2. g.state \in {"TwoWay", "ThreeWay"} =>
          \/ f.neighbor # None
          \/ Queued(g) \cap {"UnacceptableHeader", "MTUMismatch"} # {}
    BY <1>3 DEF Advances, AboutNeighbor
  <2> QED
    BY <1>3, <2>1, <2>2 DEF OneSided
<1>4. CASE Kept /\ g.state = f.state /\ Ticks(f, g, ev)
  <2>1. Queued(f) = {"TimerTick"} /\ f.state \in State
    BY <1>4 DEF Ticks, FSM
  <2>2. "ValidReflection" \notin Queued(g)
    BY <1>4, <2>1 DEF Ticks, State
  <2>3. f.state = "ThreeWay" => u <= f.lieAge
    BY <2>1 DEF OneSided, Ousting
  <2>4. f.state \in {"TwoWay", "ThreeWay"} => f.neighbor # None
    BY <2>1 DEF OneSided
  <2> QED
    BY <1>4, <2>2, <2>3, <2>4 DEF OneSided
<1>5. CASE Kept /\ g.state = f.state /\ Passes(f, g, ev)
  <2>1. Queued(g) = Behind(f)
    BY <1>5 DEF Passes
  <2>2. f.state \in {"TwoWay", "ThreeWay"} =>
          ev \notin {"UnacceptableHeader", "MTUMismatch"}
    BY <1>5 DEF Passes, LeadsToOneWay
  <2>3. f.state = "ThreeWay" => ev \notin Ousting
    BY <1>5 DEF Passes, LeadsToOneWay, Ousting
  <2> QED
    BY <1>5, <2>1, <2>2, <2>3 DEF OneSided
<1> QED
  BY <1>1, <1>2, <1>3, <1>4, <1>5 DEF Turn

\* A turn of a station with one peer keeps it undisturbed.
LEMMA TurnUndisturbed ==
    ASSUME NEW s, NEW others, NEW f \in FSM, NEW g \in FSM, NEW ev, NEW u,
           Turn(f, g, ev), SameIdentity(s, f), OneSided(f, u),
           Undisturbed(f, others),
           \A r, t \in others : r = t,
           Queued(f) = {ev} \cup Behind(f),
           ev = "NewNeighbor" => "NewNeighbor" \notin Behind(f),
           ev = "LieRcvd" => \E t \in others : FromPeer(f.pending, t, s)
    PROVE  Undisturbed(g, others)
<1>1. CASE /\ ev = "LieRcvd" /\ Behind(f) = {} /\ Hears(f, g)
  <2> DEFINE lie == f.pending
  <2>1. PICK t \in others : FromPeer(lie, t, s)
    BY <1>1
  <2>2. g.state = f.state /\ f.state # "MultipleNeighborsWait"
    BY <1>1 DEF Hears, Undisturbed
  <2>3. "MultipleNeighbors" \notin Verdict(f, lie)
    BY <2>1 DEF Verdict, FromPeer, SameIdentity
  <2>4. CASE Forgets(f, g)
    <3>1. "MultipleNeighbors" \notin Queued(g) /\ "NewNeighbor" \notin Queued(g)
          /\ g.neighbor = None
      BY <2>4 DEF Forgets
    <3> QED
      BY <2>2, <3>1 DEF Undisturbed
  <2>5. CASE ~Forgets(f, g)
    <3>1. /\ Introduces(f, g) \/ Contradicts(f, g) \/ Confirms(f, g)
          /\ lie \in LiePacket
      BY <1>1, <2>5, HeardHasNeighbor
    <3>2. CASE Introduces(f, g)
      <4>1. f.state = "OneWay"
        BY <1>1, <2>2, <3>2 DEF Introduces, OneSided, FSM, State
      <4>2. /\ g.neighbor.systemID = t.systemID
            /\ g.neighbor.linkID = t.localID
        BY <2>1, <3>2 DEF Introduces, NeighborOf, FromPeer
      <4>3. "MultipleNeighbors" \notin Queued(g)
        BY <2>3, <3>2 DEF Introduces
      <4> QED
        BY <2>1, <2>2, <4>1, <4>2, <4>3 DEF Undisturbed
    <3>3. CASE Contradicts(f, g)
      <4>1. f.neighbor.systemID = t.systemID
        BY <2>1, <3>3 DEF Contradicts, Undisturbed
      <4>2. "MultipleNeighbors" \notin Queued(g) /\ "NewNeighbor" \notin Queued(g)
        BY <2>1, <3>3, <4>1 DEF Contradicts, FromPeer
      <4>3. g.neighbor = f.neighbor
        BY <3>3 DEF Contradicts
      <4> QED
        BY <2>2, <4>2, <4>3 DEF Undisturbed
    <3>4. CASE Confirms(f, g)
      <4>1. "MultipleNeighbors" \notin Queued(g) /\ "NewNeighbor" \notin Queued(g)
        BY <2>3, <3>4, VerdictFacts DEF Confirms
      <4>2. f.neighbor \in NeighborState
        BY <3>4 DEF Confirms, FSM
      <4>3. /\ g.neighbor.systemID = t.systemID
            /\ g.neighbor.linkID = t.localID
        BY <2>1, <3>4, <4>2 DEF Confirms, FromPeer, NeighborState
      <4> QED
        BY <2>1, <2>2, <4>1, <4>3 DEF Undisturbed
    <3> QED
      BY <3>1, <3>2, <3>3, <3>4
  <2> QED
    BY <2>4, <2>5
<1>2. CASE Leaves(f, g, ev)
  BY <1>2 DEF Leaves, Undisturbed
<1>3. CASE g.neighbor = f.neighbor /\ Advances(f, g, ev)
  BY <1>3 DEF Advances, Undisturbed
<1>4. CASE g.neighbor = f.neighbor /\ g.state = f.state /\ Ticks(f, g, ev)
  <2>1. "MultipleNeighbors" \notin Queued(g) /\ "NewNeighbor" \notin Queued(g)
    BY <1>4 DEF Ticks, Undisturbed, FSM, State
  <2> QED
    BY <1>4, <2>1 DEF Undisturbed
<1>5. CASE g.neighbor = f.neighbor /\ g.state = f.state /\ Passes(f, g, ev)
  BY <1>5 DEF Passes, Undisturbed
<1> QED
  BY <1>1, <1>2, <1>3, <1>4, <1>5 DEF Turn

-----------------------------------------------------------------------------
(* One station. *)

\* A new FSM, or one that restarts, is in order whoever has seen it.
LEMMA NewStation ==
    ASSUME NEW s \in Stations, NEW tick, NEW u, NEW here
    PROVE  LET f == NewFSM(s) IN
           /\ f \in FSM /\ f.eventQueue = <<>> /\ f.state = "OneWay"
           /\ f.neighbor = None /\ Queued(f) = {}
           /\ StationOK(s, f, <<>>, tick, u, here)
<1> DEFINE f == NewFSM(s)
<1>1. s \in Identity
  BY LinkConstants
<1>2. /\ f \in FSM /\ f.eventQueue = <<>> /\ f.state = "OneWay"
      /\ f.neighbor = None /\ f.lieAge = NoTime
  BY <1>1 DEF NewFSM, FSM, Identity, State
<1>3. SameIdentity(s, f)
  BY DEF NewFSM, SameIdentity
<1>4. StationOK(s, f, <<>>, tick, u, here) <=> StationOK(s, f, <<>>, tick, u, TRUE)
  BY DEF StationOK
<1> HIDE DEF f
<1>5. Queued(f) = {} /\ Inbound(f, <<>>) = {}
  BY <1>2 DEF Queued, Inbound
<1>6. FsmOK(s, f, tick, u)
  BY <1>2, <1>3, <1>5
     DEF FsmOK, QueueOrder, OneWayNeighborIsNew, Clocked, OneSided
<1> QED
  BY <1>2, <1>4, <1>5, <1>6 DEF StationOK, f

\* To have been seen later does no harm.
LEMMA SeenLater ==
    ASSUME NEW s, NEW f \in FSM, NEW box, NEW tick, NEW u \in Nat, NEW here,
           NEW v \in Nat, v <= u, StationOK(s, f, box, tick, u, here)
    PROVE  StationOK(s, f, box, tick, v, here)
<1>1. f.lieAge \in Int
  BY DEF FSM, NoTime
<1>2. OneSided(f, v)
  BY <1>1 DEF StationOK, FsmOK, OneSided
<1>3. \A p \in Inbound(f, box) : WellSent(p, s, v)
  BY DEF StationOK, WellSent
<1> QED
  BY <1>2, <1>3 DEF StationOK, FsmOK

\* The LIEs behind the first, and one more.
LEMMA BoxFacts ==
    ASSUME NEW box \in Seq(LiePacket)
    PROVE  /\ box # <<>> =>
                /\ Tail(box) \in Seq(LiePacket) /\ Head(box) \in LiePacket
                /\ {Tail(box)[i] : i \in 1..Len(Tail(box))}
                     \subseteq {box[i] : i \in 1..Len(box)}
                /\ Head(box) \in {box[i] : i \in 1..Len(box)}
           /\ \A p \in LiePacket :
                /\ Append(box, p) \in Seq(LiePacket)
                /\ {Append(box, p)[i] : i \in 1..Len(Append(box, p))}
                     \subseteq {box[i] : i \in 1..Len(box)} \cup {p}
<1>1. ASSUME box # <<>>
      PROVE  /\ Tail(box) \in Seq(LiePacket) /\ Head(box) \in LiePacket
             /\ {Tail(box)[i] : i \in 1..Len(Tail(box))}
                  \subseteq {box[i] : i \in 1..Len(box)}
             /\ Head(box) \in {box[i] : i \in 1..Len(box)}
  <2>1. /\ Len(box) \in Nat \ {0} /\ Head(box) = box[1]
        /\ Tail(box) \in Seq(LiePacket) /\ Head(box) \in LiePacket
        /\ Len(Tail(box)) = Len(box) - 1
        /\ \A i \in 1..Len(Tail(box)) : Tail(box)[i] = box[i + 1]
    BY <1>1, HeadTailProperties, EmptySeq
  <2>2. \A i \in 1..Len(Tail(box)) : i + 1 \in 1..Len(box)
    BY <2>1
  <2>3. 1 \in 1..Len(box)
    BY <2>1
  <2> QED
    BY <2>1, <2>2, <2>3
<1>2. ASSUME NEW p \in LiePacket
      PROVE  /\ Append(box, p) \in Seq(LiePacket)
             /\ {Append(box, p)[i] : i \in 1..Len(Append(box, p))}
                  \subseteq {box[i] : i \in 1..Len(box)} \cup {p}
  <2>1. /\ Append(box, p) \in Seq(LiePacket)
        /\ Len(Append(box, p)) = Len(box) + 1 /\ Len(box) \in Nat
        /\ Append(box, p)[Len(box) + 1] = p
        /\ \A i \in 1..Len(box) : Append(box, p)[i] = box[i]
    BY AppendProperties
  <2>2. \A i \in 1..Len(Append(box, p)) : i \in 1..Len(box) \/ i = Len(box) + 1
    BY <2>1
  <2> QED
    BY <2>1, <2>2
<1> QED
  BY <1>1, <1>2

\* A stimulus is put into the drained queue of a station on the link.
LEMMA StationStimulus ==
    ASSUME NEW s, NEW f \in FSM, NEW box, NEW box2,
           NEW tick, NEW tick2, NEW u, NEW ev \in {"TimerTick", "LieRcvd"},
           StationOK(s, f, box, tick, u, TRUE), Idle(f),
           NEW g \in FSM, g.state = f.state, g.neighbor = f.neighbor,
           g.holdtime = f.holdtime, g.lieAge = f.lieAge, SameIdentity(f, g),
           QueueOrder(g), OneWayNeighborIsNew(g), Queued(g) = {ev},
           ev = "LieRcvd" => tick2 = tick,
           \A p \in Inbound(g, box2) : WellSent(p, s, u)
    PROVE  StationOK(s, g, box2, tick2, u, TRUE)
<1>1. Queued(f) = {}
  BY DEF Idle, Queued
<1>2. FsmOK(s, f, tick, u)
  BY DEF StationOK
<1>3. SameIdentity(s, g)
  BY <1>2 DEF FsmOK, SameIdentity
<1>4. Clocked(g, tick2)
  <2>1. f.neighbor # None /\ f.state # "MultipleNeighborsWait" =>
          /\ f.holdtime = f.neighbor.holdtime
          /\ f.holdtime # 0 /\ f.lieAge > f.holdtime => tick
    BY <1>1, <1>2 DEF FsmOK, Clocked
  <2>2. f.neighbor # None => f.lieAge # NoTime
    BY <1>2 DEF FsmOK, Clocked
  <2>3. tick => tick2 \/ Queued(g) \cap {"TimerTick", "HoldtimeExpired"} # {}
    OBVIOUS
  <2> QED
    BY <2>1, <2>2, <2>3 DEF Clocked
<1>5. OneSided(g, u)
  BY <1>1, <1>2 DEF FsmOK, OneSided
<1> QED
  BY <1>3, <1>4, <1>5 DEF StationOK, FsmOK

\* A second passes for a station on the link that has nothing to do.
LEMMA StationAges ==
    ASSUME NEW s, NEW f \in FSM, NEW u \in Nat, NEW v \in Nat,
           StationOK(s, f, <<>>, FALSE, u, TRUE), Idle(f), u <= AgeCap,
           v \in {0, 1, Older(u, AgeCap)}
    PROVE  /\ AgeFsm(f, AgeCap) \in FSM /\ v \in 0..AgeCap
           /\ StationOK(s, AgeFsm(f, AgeCap), <<>>, TRUE, v, TRUE)
<1> DEFINE g == AgeFsm(f, AgeCap)
<1>1. /\ AgeCap \in Nat \ {0}
      /\ f.lieAge \in Nat \cup {NoTime} /\ f.mnAge \in Nat \cup {NoTime}
      /\ NoTime = -1
  <2>1. MultipleNeighborsTimeout \in Nat
    BY LieConstants DEF MultipleNeighborsTimeout
  <2> QED
    BY <2>1, LinkConstants DEF FSM, NoTime
<1>2. /\ Older(f.lieAge, AgeCap) \in Nat \cup {NoTime}
      /\ Older(f.mnAge, AgeCap) \in Nat \cup {NoTime}
      /\ f.lieAge # NoTime => Older(f.lieAge, AgeCap) # NoTime
      /\ v \in 0..AgeCap
      /\ f.lieAge # NoTime /\ u <= f.lieAge => v <= Older(f.lieAge, AgeCap)
      /\ f.lieAge = NoTime => Older(f.lieAge, AgeCap) = NoTime
  BY <1>1 DEF Older
<1>3. /\ g \in FSM /\ g.state = f.state /\ g.neighbor = f.neighbor
      /\ g.holdtime = f.holdtime /\ g.eventQueue = f.eventQueue
      /\ g.lieAge = Older(f.lieAge, AgeCap) /\ g.pending = f.pending
  BY <1>2 DEF AgeFsm, FSM
<1>4. SameIdentity(f, g)
  BY DEF AgeFsm, FSM, SameIdentity
<1> HIDE DEF g
<1>5. Queued(f) = {} /\ Queued(g) = {}
  BY <1>3 DEF Idle, Queued
<1>6. FsmOK(s, f, FALSE, u)
  BY DEF StationOK
<1>7. SameIdentity(s, g) /\ QueueOrder(g)
  BY <1>3, <1>4, <1>6 DEF FsmOK, SameIdentity, QueueOrder, Idle
<1>8. OneWayNeighborIsNew(g)
  BY <1>2, <1>3, <1>6 DEF FsmOK, OneWayNeighborIsNew
<1>9. Clocked(g, TRUE)
  BY <1>2, <1>3, <1>5, <1>6 DEF FsmOK, Clocked
<1>10. OneSided(g, v)
  <2>1. f.state \in {"TwoWay", "ThreeWay"} =>
          f.neighbor # None /\ f.lieAge # NoTime
    BY <1>5, <1>6 DEF FsmOK, OneSided, Clocked
  <2>2. f.state = "ThreeWay" => u <= f.lieAge
    BY <1>5, <1>6 DEF FsmOK, OneSided
  <2>3. f.neighbor # None => f.holdtime = DefaultLIEHoldtime
    BY <1>6 DEF FsmOK, OneSided
  <2> QED
    BY <1>2, <1>3, <1>5, <2>1, <2>2, <2>3 DEF OneSided
<1>11. Inbound(g, <<>>) = {}
  BY <1>5 DEF Inbound
<1> QED
  BY <1>2, <1>3, <1>7, <1>8, <1>9, <1>10, <1>11 DEF StationOK, FsmOK, g

\* What a turn sends is the LIE of the FSM, whose neighbor it keeps; and it
\* leaves no LIE unread.
LEMMA TurnSends ==
    ASSUME NEW f \in FSM, NEW g \in FSM, NEW ev, Turn(f, g, ev),
           "LieRcvd" \notin Behind(f)
    PROVE  /\ g.sent # None => g.sent = LieOf(f) /\ g.neighbor = f.neighbor
           /\ "LieRcvd" \notin Queued(g)
<1>1. CASE Hears(f, g)
  <2>1. "LieRcvd" \notin Verdict(f, f.pending)
    BY DEF Verdict
  <2> QED
    BY <1>1, <2>1 DEF Hears, Forgets, Introduces, Contradicts, Confirms
<1>2. CASE Leaves(f, g, ev)
  BY <1>2 DEF Leaves
<1>3. CASE Advances(f, g, ev)
  BY <1>3 DEF Advances
<1>4. CASE Ticks(f, g, ev)
  BY <1>4 DEF Ticks, FSM, State
<1>5. CASE g.neighbor = f.neighbor /\ Passes(f, g, ev)
  BY <1>5 DEF Passes
<1> QED
  BY <1>1, <1>2, <1>3, <1>4, <1>5 DEF Turn

\* A station on the link processes an event.
LEMMA StationTurn ==
    ASSUME NEW s, NEW f \in FSM, NEW box \in Seq(LiePacket),
           NEW tick \in BOOLEAN, NEW u \in Nat,
           StationOK(s, f, box, tick, u, TRUE), ~Idle(f)
    PROVE  LET g == drainOne(f)
               h == Stripped(g)
           IN  /\ g \in FSM /\ h \in FSM
               /\ StationOK(s, h, box, tick, u, TRUE)
               /\ g.sent # None => g.sent = LieOf(f) /\ g.neighbor = f.neighbor
               /\ Inbound(h, box) \subseteq Inbound(f, box)
               /\ Turn(f, g, Head(f.eventQueue)) /\ h.neighbor = g.neighbor
               /\ h.state = g.state /\ Queued(h) = Queued(g)
<1> DEFINE g == drainOne(f)
           h == Stripped(g)
           ev == Head(f.eventQueue)
<1>1. FsmOK(s, f, tick, u) /\ f.eventQueue # <<>>
  BY DEF StationOK, Idle
<1>2. g \in FSM /\ QueueOrder(g) /\ OneWayNeighborIsNew(g) /\ Turn(f, g, ev)
  BY <1>1, DrainOne, DrainOneTurn DEF FsmOK
<1>3. /\ Queued(f) = {ev} \cup Behind(f)
      /\ ev \in LeadsToOneWay \cup {"LieRcvd", "TimerTick"} => Behind(f) = {}
      /\ "LieRcvd" \notin Behind(f)
      /\ f.state = "OneWay" /\ f.neighbor # None => "NewNeighbor" \in Queued(f)
      /\ ev \in AboutNeighbor => f.neighbor # None
  BY <1>1, QueueSet DEF FsmOK
<1> HIDE DEF g, ev
<1>4. Clocked(g, tick)
  <2>1. Clocked(f, tick)
    BY <1>1 DEF FsmOK
  <2> QED
    BY <1>2, <1>3, <2>1, TurnClock
<1>5. ev = "LieRcvd" => WellSent(f.pending, s, u)
  BY <1>3 DEF StationOK, Inbound
<1>6. OneSided(g, u)
  BY <1>1, <1>2, <1>3, <1>5, TurnOneSided DEF FsmOK
<1>7. /\ g.sent # None => g.sent = LieOf(f) /\ g.neighbor = f.neighbor
      /\ "LieRcvd" \notin Queued(g)
  BY <1>2, <1>3, TurnSends
<1>8. /\ h \in FSM /\ h.eventQueue = g.eventQueue /\ h.state = g.state
      /\ h.neighbor = g.neighbor /\ h.lieAge = g.lieAge
      /\ h.holdtime = g.holdtime /\ h.pending = g.pending
      /\ SameIdentity(g, h)
  BY <1>2, StrippedFacts
<1>9. SameIdentity(s, h)
  BY <1>1, <1>2, <1>8 DEF Turn, FsmOK, SameIdentity
<1> HIDE DEF h
<1>10. Queued(h) = Queued(g)
  BY <1>8 DEF Queued
<1>11. QueueOrder(h) /\ OneWayNeighborIsNew(h)
  BY <1>2, <1>8 DEF QueueOrder, OneWayNeighborIsNew
<1>12. Clocked(h, tick) /\ OneSided(h, u)
  BY <1>4, <1>6, <1>8, <1>10 DEF Clocked, OneSided
<1>13. Inbound(h, box) \subseteq Inbound(f, box)
  BY <1>7, <1>10 DEF Inbound
<1>14. StationOK(s, h, box, tick, u, TRUE)
  BY <1>9, <1>11, <1>12, <1>13 DEF StationOK, FsmOK
<1> QED
  BY <1>2, <1>7, <1>8, <1>10, <1>13, <1>14 DEF g, h, ev

-----------------------------------------------------------------------------
(* The link. *)

\* At first every station has a new FSM.
LEMMA InitLink == Init => TypeOK /\ LinkInv
<1> SUFFICES ASSUME Init PROVE TypeOK /\ LinkInv
  OBVIOUS
<1>1. \A s \in Stations : NewFSM(s) \in FSM
  BY NewStation
<1>2. <<>> \in Seq(LiePacket)
  BY EmptySeq
<1>3. TypeOK
  BY <1>1, <1>2, LinkConstants DEF Init, TypeOK
<1>4. LinkInv
  BY NewStation DEF Init, LinkInv
<1> QED
  BY <1>3, <1>4

\* The facts about one station that every step starts from.
LEMMA StationFacts ==
    ASSUME TypeOK, LinkInv, NEW s \in Stations
    PROVE  /\ fsm[s] \in FSM /\ inbox[s] \in Seq(LiePacket)
           /\ unseen[s] \in Nat /\ unseen[s] <= AgeCap
           /\ StationOK(s, fsm[s], inbox[s], s \in tickerC, unseen[s],
                        s \in present)
           /\ s \in present => StationOK(s, fsm[s], inbox[s], s \in tickerC,
                                         unseen[s], TRUE)
<1>1. /\ fsm[s] \in FSM /\ inbox[s] \in Seq(LiePacket)
      /\ unseen[s] \in Nat /\ unseen[s] <= AgeCap
  BY LinkConstants DEF TypeOK
<1>2. StationOK(s, fsm[s], inbox[s], s \in tickerC, unseen[s], s \in present)
  BY DEF LinkInv
<1>3. s \in present => StationOK(s, fsm[s], inbox[s], s \in tickerC,
                                 unseen[s], TRUE)
  BY <1>2 DEF StationOK
<1> QED
  BY <1>1, <1>2, <1>3

\* A tick or a LIE is taken by an idle FSM.
LEMMA StimulusFacts ==
    ASSUME NEW f \in FSM, Idle(f), OneWayNeighborIsNew(f)
    PROVE  /\ LET g == Tick(f) IN
              /\ g \in FSM /\ QueueOrder(g) /\ OneWayNeighborIsNew(g)
              /\ g.state = f.state /\ g.neighbor = f.neighbor
              /\ g.holdtime = f.holdtime /\ g.lieAge = f.lieAge
              /\ SameIdentity(f, g) /\ Queued(g) = {"TimerTick"}
           /\ \A lie \in LiePacket :
                LET g == HandlePacket(f, lie) IN
                /\ g \in FSM /\ QueueOrder(g) /\ OneWayNeighborIsNew(g)
                /\ g.state = f.state /\ g.neighbor = f.neighbor
                /\ g.holdtime = f.holdtime /\ g.lieAge = f.lieAge
                /\ SameIdentity(f, g) /\ Queued(g) = {"LieRcvd"}
                /\ g.pending = lie
<1>1. {"TimerTick", "LieRcvd"} \subseteq Event
  BY DEF Event
<1>2. ASSUME NEW h \in FSM, h.eventQueue = <<>>, OneWayNeighborIsNew(h),
             NEW ev \in {"TimerTick", "LieRcvd"},
             ev = "LieRcvd" => h.pending # None
      PROVE  LET g == push(h, ev) IN
             /\ g \in FSM /\ QueueOrder(g) /\ OneWayNeighborIsNew(g)
             /\ g.state = h.state /\ g.neighbor = h.neighbor
             /\ g.holdtime = h.holdtime /\ g.lieAge = h.lieAge
             /\ SameIdentity(h, g) /\ Queued(g) = {ev}
             /\ g.pending = h.pending
  <2>1. LET g == push(h, ev) IN
        /\ g \in FSM /\ QueueOrder(g) /\ OneWayNeighborIsNew(g)
    BY <1>2, Stimulus DEF Idle
  <2>2. LET g == push(h, ev) IN
        /\ g.state = h.state /\ g.neighbor = h.neighbor
        /\ g.holdtime = h.holdtime /\ g.lieAge = h.lieAge
        /\ SameIdentity(h, g) /\ g.pending = h.pending
        /\ g.eventQueue = <<ev>>
    BY <1>1, <1>2, PushFacts
  <2>3. Queued(push(h, ev)) = {ev}
    BY <2>1, <2>2, QueuedOne
  <2> QED
    BY <2>1, <2>2, <2>3
<1>3. LET g == Tick(f) IN
      /\ g \in FSM /\ QueueOrder(g) /\ OneWayNeighborIsNew(g)
      /\ g.state = f.state /\ g.neighbor = f.neighbor
      /\ g.holdtime = f.holdtime /\ g.lieAge = f.lieAge
      /\ SameIdentity(f, g) /\ Queued(g) = {"TimerTick"}
  BY <1>2 DEF Tick, Idle
<1>4. ASSUME NEW lie \in LiePacket
      PROVE  LET g == HandlePacket(f, lie) IN
             /\ g \in FSM /\ QueueOrder(g) /\ OneWayNeighborIsNew(g)
             /\ g.state = f.state /\ g.neighbor = f.neighbor
             /\ g.holdtime = f.holdtime /\ g.lieAge = f.lieAge
             /\ SameIdentity(f, g) /\ Queued(g) = {"LieRcvd"}
             /\ g.pending = lie
  <2> DEFINE h == [f EXCEPT !.pending = lie]
  <2>1. /\ h \in FSM /\ h.eventQueue = <<>> /\ h.pending = lie
        /\ h.state = f.state /\ h.neighbor = f.neighbor
        /\ h.holdtime = f.holdtime /\ h.lieAge = f.lieAge
    BY DEF FSM, Idle
  <2>2. SameIdentity(f, h)
    BY DEF FSM, SameIdentity
  <2>3. HandlePacket(f, lie) = push(h, "LieRcvd") /\ h.pending # None
    BY <2>1, LieConstants DEF HandlePacket
  <2> HIDE DEF h
  <2>4. OneWayNeighborIsNew(h)
    BY <2>1 DEF OneWayNeighborIsNew, Idle
  <2> QED
    BY <1>2, <2>1, <2>2, <2>3, <2>4 DEF SameIdentity
<1> QED
  BY <1>3, <1>4

\* A second passes only when everyone is idle.
LEMMA StepSecond ==
    TypeOK /\ LinkInv /\ SecondElapses => TypeOK' /\ LinkInv'
<1> SUFFICES ASSUME TypeOK, LinkInv, SecondElapses PROVE TypeOK' /\ LinkInv'
  OBVIOUS
<1>1. /\ inbox' = inbox /\ present' = present /\ tickerC' = present
      /\ losses' = losses /\ restarts' = restarts /\ tickerC = {}
  BY DEF SecondElapses, AllQuiet
<1>2. ASSUME NEW s \in Stations
      PROVE  /\ fsm'[s] \in FSM /\ unseen'[s] \in 0..AgeCap
             /\ StationOK(s, fsm'[s], inbox'[s], s \in tickerC', unseen'[s],
                          s \in present')
  <2>1. CASE s \in present
    <3>1. /\ Idle(fsm[s]) /\ inbox[s] = <<>> /\ fsm'[s] = AgeFsm(fsm[s], AgeCap)
          /\ unseen'[s] \in {0, 1, Older(unseen[s], AgeCap)}
      BY <2>1 DEF SecondElapses, AllQuiet
    <3>2. /\ fsm[s] \in FSM /\ unseen[s] \in Nat /\ unseen[s] <= AgeCap
          /\ StationOK(s, fsm[s], <<>>, s \in tickerC, unseen[s], TRUE)
      BY <2>1, <3>1, StationFacts
    <3>3. StationOK(s, fsm[s], <<>>, FALSE, unseen[s], TRUE)
      BY <1>1, <3>2 DEF StationOK, FsmOK, Clocked
    <3>4. unseen'[s] \in Nat
      BY <3>1, <3>2 DEF Older
    <3>5. /\ fsm'[s] \in FSM /\ unseen'[s] \in 0..AgeCap
          /\ StationOK(s, fsm'[s], <<>>, TRUE, unseen'[s], TRUE)
      BY <3>1, <3>2, <3>3, <3>4, StationAges
    <3>6. StationOK(s, fsm'[s], <<>>, s \in tickerC', unseen'[s], s \in present')
      BY <1>1, <2>1, <3>5 DEF StationOK, FsmOK, Clocked
    <3> QED
      BY <1>1, <3>1, <3>5, <3>6
  <2>2. CASE s \notin present
    <3>1. fsm'[s] = fsm[s] /\ unseen'[s] = 0
      BY <2>2 DEF SecondElapses
    <3>2. fsm[s] = NewFSM(s) /\ inbox[s] = <<>>
      BY <2>2, StationFacts DEF StationOK
    <3> QED
      BY <1>1, <3>1, <3>2, NewStation, LinkConstants
  <2> QED
    BY <2>1, <2>2
<1>3. fsm' \in [Stations -> FSM] /\ unseen' \in [Stations -> 0..AgeCap]
  BY <1>2 DEF SecondElapses
<1>4. TypeOK'
  BY <1>1, <1>3 DEF TypeOK
<1> QED
  BY <1>2, <1>4 DEF LinkInv

\* A station takes a tick or a LIE.
LEMMA StepStimulus ==
    ASSUME TypeOK, LinkInv, NEW s \in Stations,
           TickerFires(s) \/ PacketArrives(s)
    PROVE  TypeOK' /\ LinkInv'
<1> DEFINE f == fsm[s]
<1>1. /\ s \in present /\ Idle(f) /\ present' = present
      /\ losses' = losses /\ restarts' = restarts /\ unseen' = unseen
  BY DEF TickerFires, PacketArrives, NoneDraining, TypeOK
<1>2. /\ f \in FSM /\ inbox[s] \in Seq(LiePacket)
      /\ StationOK(s, f, inbox[s], s \in tickerC, unseen[s], TRUE)
  BY <1>1, StationFacts
<1>3. OneWayNeighborIsNew(f) /\ Queued(f) = {}
  BY <1>1, <1>2 DEF StationOK, FsmOK, Idle, Queued
<1> HIDE DEF f
<1>4. ASSUME NEW g \in FSM, NEW box \in Seq(LiePacket),
             fsm' = [fsm EXCEPT ![s] = g], inbox' = [inbox EXCEPT ![s] = box],
             tickerC' \in {tickerC, tickerC \ {s}},
             StationOK(s, g, box, s \in tickerC', unseen[s], TRUE)
      PROVE  TypeOK' /\ LinkInv'
  <2>1. TypeOK'
    BY <1>1, <1>4 DEF TypeOK
  <2>2. ASSUME NEW r \in Stations
        PROVE  StationOK(r, fsm'[r], inbox'[r], r \in tickerC', unseen'[r],
                         r \in present')
    <3>1. CASE r = s
      <4>1. fsm'[s] = g /\ inbox'[s] = box
        BY <1>4 DEF TypeOK
      <4> QED
        BY <1>1, <1>4, <3>1, <4>1 DEF StationOK, FsmOK, Clocked
    <3>2. CASE r # s
      <4>1. fsm'[r] = fsm[r] /\ inbox'[r] = inbox[r]
            /\ (r \in tickerC' <=> r \in tickerC)
        BY <1>4, <3>2 DEF TypeOK
      <4> QED
        BY <1>1, <4>1, StationFacts DEF StationOK, FsmOK, Clocked
    <3> QED
      BY <3>1, <3>2
  <2> QED
    BY <2>1, <2>2 DEF LinkInv
<1>5. CASE TickerFires(s)
  <2> DEFINE g == Tick(f)
  <2>1. /\ fsm' = [fsm EXCEPT ![s] = g] /\ inbox' = [inbox EXCEPT ![s] = inbox[s]]
        /\ tickerC' = tickerC \ {s}
    BY <1>5 DEF TickerFires, TypeOK, f
  <2>2. /\ g \in FSM /\ QueueOrder(g) /\ OneWayNeighborIsNew(g)
        /\ g.state = f.state /\ g.neighbor = f.neighbor
        /\ g.holdtime = f.holdtime /\ g.lieAge = f.lieAge
        /\ SameIdentity(f, g) /\ Queued(g) = {"TimerTick"}
    BY <1>1, <1>2, <1>3, StimulusFacts
  <2> HIDE DEF g
  <2>3. \A p \in Inbound(g, inbox[s]) : WellSent(p, s, unseen[s])
    BY <1>2, <2>2 DEF Inbound, StationOK
  <2>4. StationOK(s, g, inbox[s], FALSE, unseen[s], TRUE)
    BY <1>1, <1>2, <2>2, <2>3, StationStimulus
  <2>5. StationOK(s, g, inbox[s], s \in tickerC', unseen[s], TRUE)
    BY <2>1, <2>4 DEF StationOK, FsmOK, Clocked
  <2> QED
    BY <1>2, <1>4, <2>1, <2>2, <2>5
<1>6. CASE PacketArrives(s)
  <2> DEFINE lie == Head(inbox[s])
             g == HandlePacket(f, lie)
             box == Tail(inbox[s])
  <2>1. /\ fsm' = [fsm EXCEPT ![s] = g] /\ inbox' = [inbox EXCEPT ![s] = box]
        /\ tickerC' = tickerC /\ inbox[s] # <<>>
    BY <1>6 DEF PacketArrives, TypeOK, f
  <2>2. /\ box \in Seq(LiePacket) /\ lie \in LiePacket
        /\ {box[i] : i \in 1..Len(box)}
             \subseteq {inbox[s][i] : i \in 1..Len(inbox[s])}
        /\ lie \in {inbox[s][i] : i \in 1..Len(inbox[s])}
    BY <1>2, <2>1, BoxFacts
  <2>3. /\ g \in FSM /\ QueueOrder(g) /\ OneWayNeighborIsNew(g)
        /\ g.state = f.state /\ g.neighbor = f.neighbor
        /\ g.holdtime = f.holdtime /\ g.lieAge = f.lieAge
        /\ SameIdentity(f, g) /\ Queued(g) = {"LieRcvd"}
        /\ g.pending = lie
    BY <1>1, <1>2, <1>3, <2>2, StimulusFacts
  <2> HIDE DEF g, lie, box
  <2>4. \A p \in Inbound(g, box) : WellSent(p, s, unseen[s])
    BY <1>2, <2>2, <2>3 DEF Inbound, StationOK
  <2>5. StationOK(s, g, box, s \in tickerC, unseen[s], TRUE)
    BY <1>1, <1>2, <2>3, <2>4, StationStimulus
  <2>6. StationOK(s, g, box, s \in tickerC', unseen[s], TRUE)
    BY <2>1, <2>5
  <2> QED
    BY <1>2, <1>4, <2>1, <2>2, <2>3, <2>6
<1> QED
  BY <1>5, <1>6

\* A station processes an event; what it sends reaches the others.
LEMMA StepProcess ==
    ASSUME TypeOK, LinkInv, NEW s \in Stations, ProcessEvent(s)
    PROVE  TypeOK' /\ LinkInv'
<1> DEFINE f == fsm[s]
           g == drainOne(f)
           h == Stripped(g)
<1>1. /\ s \in present /\ ~Idle(f) /\ fsm' = [fsm EXCEPT ![s] = h]
      /\ inbox' = IF g.sent = None THEN inbox
                  ELSE [t \in Stations |->
                          IF t \in present \ {s}
                          THEN Append(inbox[t], g.sent) ELSE inbox[t]]
      /\ unseen' = [r \in Stations |->
                      IF g.neighbor # None /\ g.neighbor.systemID = r.systemID
                      THEN 0 ELSE unseen[r]]
      /\ tickerC' = tickerC /\ present' = present /\ losses' = losses
      /\ restarts' = restarts
  BY DEF ProcessEvent, SeenBy, Stripped
<1>2. /\ f \in FSM /\ inbox[s] \in Seq(LiePacket) /\ unseen[s] \in Nat
      /\ StationOK(s, f, inbox[s], s \in tickerC, unseen[s], TRUE)
  BY <1>1, StationFacts
<1>3. /\ g \in FSM /\ h \in FSM
      /\ StationOK(s, h, inbox[s], s \in tickerC, unseen[s], TRUE)
      /\ g.sent # None => g.sent = LieOf(f) /\ g.neighbor = f.neighbor
  <2> HIDE DEF f, g, h
  <2>1. ASSUME NEW tick \in BOOLEAN, tick <=> s \in tickerC
        PROVE  /\ g \in FSM /\ h \in FSM
               /\ StationOK(s, h, inbox[s], s \in tickerC, unseen[s], TRUE)
               /\ g.sent # None => g.sent = LieOf(f) /\ g.neighbor = f.neighbor
    <3>1. StationOK(s, f, inbox[s], tick, unseen[s], TRUE)
      BY <1>2, <2>1 DEF StationOK, FsmOK, Clocked
    <3>2. /\ g \in FSM /\ h \in FSM
          /\ StationOK(s, h, inbox[s], tick, unseen[s], TRUE)
          /\ g.sent # None => g.sent = LieOf(f) /\ g.neighbor = f.neighbor
      BY <1>1, <1>2, <3>1, StationTurn DEF g, h
    <3> QED
      BY <2>1, <3>2 DEF StationOK, FsmOK, Clocked
  <2> QED
    BY <2>1
<1>4. SameIdentity(s, f) /\ s \in Identity
  BY <1>2, LinkConstants DEF StationOK, FsmOK
<1>5. g.sent # None => g.sent \in LiePacket
  BY <1>3 DEF FSM
<1> HIDE DEF f, g, h
<1>6. ASSUME NEW r \in Stations
      PROVE  unseen'[r] \in Nat /\ unseen'[r] <= unseen[r]
             /\ unseen'[r] \in 0..AgeCap
  BY <1>1, LinkConstants DEF TypeOK
<1>7. ASSUME NEW r \in Stations, r # s, g.sent # None
      PROVE  WellSent(g.sent, r, unseen'[r])
  <2>1. /\ g.sent = LieOf(f) /\ g.neighbor = f.neighbor
        /\ f.systemID = s.systemID
    BY <1>3, <1>4, <1>7 DEF SameIdentity
  <2>2. s.systemID # r.systemID /\ s.systemID # IllegalSystemID
    BY <1>4, <1>7, LinkConstants, LieConstants DEF Identity
  <2>3. /\ g.sent.version = ProtocolMajorVersion
        /\ g.sent.sender = s.systemID
        /\ g.sent.holdtime = DefaultLIEHoldtime
    BY <2>1 DEF LieOf
  <2>4. g.sent.neighbor # None /\ g.sent.neighbor.originator = r.systemID
          => unseen'[r] = 0
    BY <1>1, <2>1 DEF LieOf
  <2> QED
    BY <2>2, <2>3, <2>4 DEF WellSent
<1>8. ASSUME NEW r \in Stations
      PROVE  /\ inbox'[r] \in Seq(LiePacket)
             /\ StationOK(r, fsm'[r], inbox'[r], r \in tickerC', unseen'[r],
                          r \in present')
  <2>1. /\ fsm[r] \in FSM /\ inbox[r] \in Seq(LiePacket)
        /\ unseen[r] \in Nat
        /\ StationOK(r, fsm[r], inbox[r], r \in tickerC, unseen[r],
                     r \in present)
    BY StationFacts
  <2>2. CASE r = s
    <3>1. fsm'[s] = h /\ inbox'[s] = inbox[s]
      BY <1>1 DEF TypeOK
    <3>2. StationOK(s, h, inbox[s], s \in tickerC, unseen'[s], TRUE)
      BY <1>3, <1>6, <2>1, <2>2, SeenLater
    <3>3. StationOK(s, h, inbox[s], s \in tickerC, unseen'[s], s \in present)
      BY <1>1, <3>2
    <3> QED
      BY <1>1, <2>1, <2>2, <3>1, <3>3
  <2>3. CASE r # s
    <3>1. fsm'[r] = fsm[r]
      BY <1>1, <2>3 DEF TypeOK
    <3>2. StationOK(r, fsm[r], inbox[r], r \in tickerC, unseen'[r],
                    r \in present)
      BY <1>6, <2>1, SeenLater
    <3>3. CASE g.sent = None \/ r \notin present
      <4>1. inbox'[r] = inbox[r]
        BY <1>1, <3>3
      <4> QED
        BY <1>1, <2>1, <3>1, <3>2, <4>1
    <3>4. CASE g.sent # None /\ r \in present
      <4>1. inbox'[r] = Append(inbox[r], g.sent)
        BY <1>1, <2>3, <3>4
      <4>2. /\ inbox'[r] \in Seq(LiePacket)
            /\ {inbox'[r][i] : i \in 1..Len(inbox'[r])}
                 \subseteq {inbox[r][i] : i \in 1..Len(inbox[r])} \cup {g.sent}
        BY <1>5, <2>1, <3>4, <4>1, BoxFacts
      <4>3. \A p \in Inbound(fsm[r], inbox'[r]) : WellSent(p, r, unseen'[r])
        BY <1>7, <2>3, <3>2, <3>4, <4>2 DEF StationOK, Inbound
      <4>4. StationOK(r, fsm[r], inbox'[r], r \in tickerC, unseen'[r],
                      r \in present)
        BY <3>2, <3>4, <4>3 DEF StationOK
      <4> QED
        BY <1>1, <3>1, <4>2, <4>4
    <3> QED
      BY <3>3, <3>4
  <2> QED
    BY <2>2, <2>3
<1>9. TypeOK'
  <2>1. fsm' \in [Stations -> FSM]
    BY <1>1, <1>3 DEF TypeOK
  <2>2. inbox' \in [Stations -> Seq(LiePacket)]
    BY <1>1, <1>8 DEF TypeOK
  <2>3. unseen' \in [Stations -> 0..AgeCap]
    BY <1>1, <1>6
  <2> QED
    BY <1>1, <2>1, <2>2, <2>3 DEF TypeOK
<1> QED
  BY <1>8, <1>9 DEF LinkInv

\* A LIE is lost, or a station restarts or is replaced.
LEMMA StepFault ==
    ASSUME TypeOK, LinkInv, NEW s \in Stations,
           Lose(s) \/ Restart(s) \/ \E t \in Spares : Replace(s, t)
    PROVE  TypeOK' /\ LinkInv'
<1>1. CASE Lose(s)
  <2> DEFINE box == Tail(inbox[s])
  <2>1. /\ s \in present /\ inbox[s] # <<>>
        /\ inbox' = [inbox EXCEPT ![s] = box]
        /\ losses < MaxLosses /\ losses' = losses + 1
        /\ fsm' = fsm /\ tickerC' = tickerC /\ present' = present
        /\ restarts' = restarts /\ unseen' = unseen
    BY <1>1 DEF Lose, TypeOK
  <2>2. /\ inbox[s] \in Seq(LiePacket)
        /\ StationOK(s, fsm[s], inbox[s], s \in tickerC, unseen[s], s \in present)
    BY StationFacts
  <2>3. /\ box \in Seq(LiePacket)
        /\ {box[i] : i \in 1..Len(box)}
             \subseteq {inbox[s][i] : i \in 1..Len(inbox[s])}
    BY <2>1, <2>2, BoxFacts
  <2> HIDE DEF box
  <2>4. StationOK(s, fsm[s], box, s \in tickerC, unseen[s], s \in present)
    BY <2>1, <2>2, <2>3 DEF StationOK, Inbound
  <2>5. TypeOK'
    BY <2>1, <2>3, LinkConstants DEF TypeOK
  <2>6. \A r \in Stations :
          StationOK(r, fsm[r], inbox'[r], r \in tickerC, unseen[r], r \in present)
    BY <2>1, <2>4 DEF LinkInv, TypeOK
  <2> QED
    BY <2>1, <2>5, <2>6 DEF LinkInv
<1>2. CASE Restart(s)
  <2>1. /\ fsm' = [fsm EXCEPT ![s] = NewFSM(s)]
        /\ inbox' = [inbox EXCEPT ![s] = <<>>]
        /\ restarts < MaxRestarts /\ restarts' = restarts + 1
        /\ tickerC' = tickerC /\ present' = present
        /\ losses' = losses /\ unseen' = unseen
    BY <1>2 DEF Restart
  <2>2. NewFSM(s) \in FSM /\ <<>> \in Seq(LiePacket)
    BY NewStation, EmptySeq
  <2>3. TypeOK'
    BY <2>1, <2>2, LinkConstants DEF TypeOK
  <2>4. \A r \in Stations :
          StationOK(r, fsm'[r], inbox'[r], r \in tickerC, unseen[r], r \in present)
    BY <2>1, NewStation DEF LinkInv, TypeOK
  <2> QED
    BY <2>1, <2>3, <2>4 DEF LinkInv
<1>3. ASSUME NEW t \in Spares, Replace(s, t)
      PROVE  TypeOK' /\ LinkInv'
  <2>1. /\ s \in present /\ t \in Spares \ present /\ t \in Stations
        /\ present' = (present \ {s}) \cup {t}
        /\ fsm' = [fsm EXCEPT ![s] = NewFSM(s)]
        /\ inbox' = [inbox EXCEPT ![s] = <<>>]
        /\ tickerC' = tickerC \ {s}
        /\ unseen' = [unseen EXCEPT ![s] = 0]
        /\ restarts < MaxRestarts /\ restarts' = restarts + 1
        /\ losses' = losses
    BY <1>3, LinkConstants DEF Replace
  <2>2. NewFSM(s) \in FSM /\ <<>> \in Seq(LiePacket)
    BY NewStation, EmptySeq
  <2>3. TypeOK'
    BY <2>1, <2>2, LinkConstants DEF TypeOK
  <2>4. ASSUME NEW r \in Stations
        PROVE  StationOK(r, fsm'[r], inbox'[r], r \in tickerC', unseen'[r],
                         r \in present')
    <3>1. CASE r = s
      <4>1. fsm'[r] = NewFSM(r) /\ inbox'[r] = <<>>
        BY <2>1, <3>1 DEF TypeOK
      <4> QED
        BY <4>1, NewStation
    <3>2. CASE r # s
      <4>1. /\ fsm'[r] = fsm[r] /\ inbox'[r] = inbox[r]
            /\ unseen'[r] = unseen[r] /\ (r \in tickerC' <=> r \in tickerC)
            /\ (r \in present => r \in present')
        BY <2>1, <3>2 DEF TypeOK
      <4>2. StationOK(r, fsm[r], inbox[r], r \in tickerC, unseen[r],
                      r \in present)
        BY StationFacts
      <4> QED
        BY <4>1, <4>2 DEF StationOK, FsmOK, Clocked
    <3> QED
      BY <3>1, <3>2
  <2> QED
    BY <2>3, <2>4 DEF LinkInv
<1> QED
  BY <1>1, <1>2, <1>3

\* Every step keeps the invariant.
LEMMA StepLink == TypeOK /\ LinkInv /\ [Next]_vars => TypeOK' /\ LinkInv'
<1> SUFFICES ASSUME TypeOK, LinkInv, [Next]_vars PROVE TypeOK' /\ LinkInv'
  OBVIOUS
<1>1. CASE SecondElapses
  BY <1>1, StepSecond
<1>2. ASSUME NEW s \in Stations, TickerFires(s) \/ PacketArrives(s)
      PROVE  TypeOK' /\ LinkInv'
  BY <1>2, StepStimulus
<1>3. ASSUME NEW s \in Stations, ProcessEvent(s)
      PROVE  TypeOK' /\ LinkInv'
  BY <1>3, StepProcess
<1>4. ASSUME NEW s \in Stations,
             Lose(s) \/ Restart(s) \/ \E t \in Spares : Replace(s, t)
      PROVE  TypeOK' /\ LinkInv'
  BY <1>4, StepFault
<1>5. CASE UNCHANGED vars
  BY <1>5 DEF vars, TypeOK, LinkInv
<1> QED
  BY <1>1, <1>2, <1>3, <1>4, <1>5 DEF Next

-----------------------------------------------------------------------------
(* A point-to-point link. *)

\* Nothing is heard from anybody new while state and neighbor are kept and
\* neither a LIE nor an event about another neighbor comes in.
LEMMA StaysPeered ==
    ASSUME NEW s, NEW others, NEW f, NEW box, NEW g, NEW rest,
           Peered(s, f, box, others),
           g.state = f.state, g.neighbor = f.neighbor,
           Queued(g) \cap {"MultipleNeighbors", "NewNeighbor"} \subseteq Queued(f),
           Inbound(g, rest) \subseteq Inbound(f, box)
    PROVE  Peered(s, g, rest, others)
BY DEF Peered, Undisturbed

\* A new FSM has heard of nobody.
LEMMA NewPeered ==
    ASSUME NEW s \in Stations, NEW others
    PROVE  Peered(s, NewFSM(s), <<>>, others)
<1>1. /\ NewFSM(s).state = "OneWay" /\ NewFSM(s).neighbor = None
      /\ Queued(NewFSM(s)) = {}
  BY NewStation
<1>2. Inbound(NewFSM(s), <<>>) = {}
  BY <1>1 DEF Inbound
<1> QED
  BY <1>1, <1>2 DEF Peered, Undisturbed

\* A turn of a station with one peer: it still knows of that peer only, and the
\* LIE it may send reflects nobody or that peer.
LEMMA TurnPeered ==
    ASSUME NEW s \in Stations, NEW others, \A r, t \in others : r = t,
           NEW f \in FSM, NEW box \in Seq(LiePacket), NEW tick, NEW u \in Nat,
           StationOK(s, f, box, tick, u, TRUE), ~Idle(f),
           Peered(s, f, box, others)
    PROVE  LET g == drainOne(f)
               h == Stripped(g)
           IN  /\ Peered(s, h, box, others)
               /\ g \in FSM
               /\ g.sent # None => \A r \in others : FromPeer(g.sent, s, r)
<1> DEFINE g == drainOne(f)
           h == Stripped(g)
           ev == Head(f.eventQueue)
<1>1. FsmOK(s, f, tick, u) /\ f.eventQueue # <<>>
  BY DEF StationOK, Idle
<1>2. g \in FSM /\ Turn(f, g, ev)
  BY <1>1, DrainOne, DrainOneTurn DEF FsmOK
<1>3. /\ Queued(f) = {ev} \cup Behind(f)
      /\ "LieRcvd" \notin Behind(f)
      /\ ev = "NewNeighbor" => "NewNeighbor" \notin Behind(f)
  BY <1>1, QueueSet DEF FsmOK
<1> HIDE DEF g, ev
<1>4. SameIdentity(s, f) /\ OneSided(f, u)
  BY <1>1 DEF FsmOK
<1>5. ev = "LieRcvd" => \E t \in others : FromPeer(f.pending, t, s)
  BY <1>3 DEF Peered, Inbound
<1>6. Undisturbed(g, others)
  BY <1>2, <1>3, <1>4, <1>5, TurnUndisturbed DEF Peered
<1>7. /\ g.sent # None => g.sent = LieOf(f) /\ g.neighbor = f.neighbor
      /\ "LieRcvd" \notin Queued(g)
  BY <1>2, <1>3, TurnSends
<1>8. h.eventQueue = g.eventQueue /\ h.state = g.state /\ h.neighbor = g.neighbor
  BY <1>2, StrippedFacts
<1> HIDE DEF h
<1>9. Queued(h) = Queued(g)
  BY <1>8 DEF Queued
<1>10. Inbound(h, box) \subseteq Inbound(f, box)
  BY <1>7, <1>9 DEF Inbound
<1>11. Peered(s, h, box, others)
  BY <1>6, <1>8, <1>9, <1>10 DEF Peered, Undisturbed
<1>12. ASSUME g.sent # None, NEW r \in others
       PROVE  FromPeer(g.sent, s, r)
  <2>1. f.neighbor # None => /\ f.neighbor.systemID = r.systemID
                             /\ f.neighbor.linkID = r.localID
    BY DEF Peered, Undisturbed
  <2>2. /\ g.sent.sender = s.systemID /\ g.sent.localID = s.localID
        /\ g.sent.neighbor # None =>
             /\ f.neighbor # None
             /\ g.sent.neighbor.originator = f.neighbor.systemID
             /\ g.sent.neighbor.remoteID = f.neighbor.linkID
    BY <1>4, <1>7, <1>12 DEF LieOf, SameIdentity
  <2> QED
    BY <2>1, <2>2 DEF FromPeer
<1> QED
  BY <1>2, <1>11, <1>12 DEF g, h

\* At first nobody has heard of anybody.
LEMMA InitPeer == Init => PeerInv
BY NewPeered DEF Init, PeerInv

\* No step of a point-to-point link introduces a third station but Replace.
LEMMA StepPeer ==
    ASSUME PointToPoint, TypeOK, LinkInv, PeerInv, [Next]_vars
    PROVE  PeerInv'
<1> SUFFICES ASSUME present' = Stations \ Spares
             PROVE  \A r \in present' :
                       Peered(r, fsm'[r], inbox'[r], present' \ {r})
  BY DEF PeerInv
<1>1. \A s, t : ~Replace(s, t)
  <2> SUFFICES ASSUME NEW s, NEW t, Replace(s, t) PROVE FALSE
    OBVIOUS
  <2>1. t \in Spares \ present /\ present' = (present \ {s}) \cup {t}
    BY Zenon DEF Replace
  <2> QED
    BY <2>1
<1>2. present' = present
  BY <1>1 DEF Next, vars, SecondElapses, TickerFires, PacketArrives,
              ProcessEvent, Lose, Restart
<1>3. \A r \in present : /\ r \in Stations
                         /\ Peered(r, fsm[r], inbox[r], present \ {r})
  BY <1>2 DEF PeerInv
<1> SUFFICES ASSUME NEW r \in present
             PROVE  Peered(r, fsm'[r], inbox'[r], present \ {r})
  BY <1>2
<1>4. /\ r \in Stations /\ Peered(r, fsm[r], inbox[r], present \ {r})
      /\ fsm[r] \in FSM /\ inbox[r] \in Seq(LiePacket)
      /\ OneWayNeighborIsNew(fsm[r])
  BY <1>3, StationFacts DEF StationOK, FsmOK
<1>5. CASE SecondElapses
  <2>1. fsm'[r] = AgeFsm(fsm[r], AgeCap) /\ inbox'[r] = inbox[r]
    BY <1>4, <1>5 DEF SecondElapses
  <2>2. LET g == AgeFsm(fsm[r], AgeCap) IN
        /\ g.state = fsm[r].state /\ g.neighbor = fsm[r].neighbor
        /\ g.eventQueue = fsm[r].eventQueue /\ g.pending = fsm[r].pending
    BY <1>4 DEF AgeFsm, FSM
  <2>3. /\ fsm'[r].state = fsm[r].state /\ fsm'[r].neighbor = fsm[r].neighbor
        /\ Queued(fsm'[r]) = Queued(fsm[r]) /\ fsm'[r].pending = fsm[r].pending
    BY <2>1, <2>2 DEF Queued
  <2>4. Inbound(fsm'[r], inbox'[r]) \subseteq Inbound(fsm[r], inbox[r])
    BY <2>1, <2>3 DEF Inbound
  <2> QED
    BY <1>4, <2>3, <2>4, StaysPeered
<1>6. ASSUME NEW s \in Stations, TickerFires(s) \/ PacketArrives(s)
      PROVE  Peered(r, fsm'[r], inbox'[r], present \ {r})
  <2>1. Idle(fsm[r])
    BY <1>6 DEF TickerFires, PacketArrives, NoneDraining
  <2>2. CASE r # s
    <3>1. fsm'[r] = fsm[r] /\ inbox'[r] = inbox[r]
      BY <1>4, <1>6, <2>2 DEF TickerFires, PacketArrives, TypeOK
    <3> QED
      BY <1>4, <3>1
  <2>3. CASE r = s /\ TickerFires(s)
    <3> DEFINE g == Tick(fsm[r])
    <3>1. fsm'[r] = g /\ inbox'[r] = inbox[r]
      BY <1>4, <2>3 DEF TickerFires, TypeOK
    <3>2. /\ g.state = fsm[r].state /\ g.neighbor = fsm[r].neighbor
          /\ Queued(g) = {"TimerTick"}
      BY <1>4, <2>1, StimulusFacts
    <3> HIDE DEF g
    <3>3. Inbound(g, inbox[r]) \subseteq Inbound(fsm[r], inbox[r])
      BY <3>2 DEF Inbound
    <3>4. Queued(g) \cap {"MultipleNeighbors", "NewNeighbor"}
            \subseteq Queued(fsm[r])
      BY <3>2
    <3> QED
      BY <1>4, <3>1, <3>2, <3>3, <3>4, StaysPeered
  <2>4. CASE r = s /\ PacketArrives(s)
    <3> DEFINE lie == Head(inbox[r])
               g == HandlePacket(fsm[r], lie)
               box == Tail(inbox[r])
    <3>1. fsm'[r] = g /\ inbox'[r] = box /\ inbox[r] # <<>>
      BY <1>4, <2>4 DEF PacketArrives, TypeOK
    <3>2. /\ lie \in LiePacket
          /\ {box[i] : i \in 1..Len(box)}
               \subseteq {inbox[r][i] : i \in 1..Len(inbox[r])}
          /\ lie \in {inbox[r][i] : i \in 1..Len(inbox[r])}
      BY <1>4, <3>1, BoxFacts
    <3>3. /\ g.state = fsm[r].state /\ g.neighbor = fsm[r].neighbor
          /\ Queued(g) = {"LieRcvd"} /\ g.pending = lie
      BY <1>4, <2>1, <3>2, StimulusFacts
    <3> HIDE DEF g, lie, box
    <3>4. Inbound(g, box) \subseteq Inbound(fsm[r], inbox[r])
      BY <3>2, <3>3 DEF Inbound
    <3>5. Queued(g) \cap {"MultipleNeighbors", "NewNeighbor"}
            \subseteq Queued(fsm[r])
      BY <3>3
    <3> QED
      BY <1>4, <3>1, <3>3, <3>4, <3>5, StaysPeered
  <2> QED
    BY <1>6, <2>2, <2>3, <2>4
<1>7. ASSUME NEW s \in Stations, ProcessEvent(s)
      PROVE  Peered(r, fsm'[r], inbox'[r], present \ {r})
  <2> DEFINE g == drainOne(fsm[s])
             h == Stripped(g)
  <2>1. /\ s \in present /\ ~Idle(fsm[s]) /\ fsm' = [fsm EXCEPT ![s] = h]
        /\ inbox' = IF g.sent = None THEN inbox
                    ELSE [t \in Stations |->
                            IF t \in present \ {s}
                            THEN Append(inbox[t], g.sent) ELSE inbox[t]]
    BY <1>7 DEF ProcessEvent, Stripped
  <2>2. /\ fsm[s] \in FSM /\ inbox[s] \in Seq(LiePacket) /\ unseen[s] \in Nat
        /\ StationOK(s, fsm[s], inbox[s], s \in tickerC, unseen[s], TRUE)
        /\ Peered(s, fsm[s], inbox[s], present \ {s})
    BY <1>3, <2>1, StationFacts
  <2>3. \A t1, t2 \in present \ {s} : t1 = t2
    BY <1>2, <2>1 DEF PointToPoint
  <2>4. /\ Peered(s, h, inbox[s], present \ {s}) /\ g \in FSM
        /\ g.sent # None => \A t \in present \ {s} : FromPeer(g.sent, s, t)
    BY <2>1, <2>2, <2>3, TurnPeered
  <2> HIDE DEF g, h
  <2>5. CASE r = s
    <3>1. fsm'[r] = h /\ inbox'[r] = inbox[r]
      BY <1>4, <2>1, <2>5 DEF TypeOK
    <3> QED
      BY <2>4, <2>5, <3>1
  <2>6. CASE r # s /\ g.sent = None
    <3>1. fsm'[r] = fsm[r] /\ inbox'[r] = inbox[r]
      BY <1>4, <2>1, <2>6 DEF TypeOK
    <3> QED
      BY <1>4, <3>1
  <2>7. CASE r # s /\ g.sent # None
    <3>1. fsm'[r] = fsm[r] /\ inbox'[r] = Append(inbox[r], g.sent)
      BY <1>4, <2>1, <2>7 DEF TypeOK
    <3>2. FromPeer(g.sent, s, r) /\ s \in present \ {r}
      BY <2>1, <2>4, <2>7
    <3>3. g.sent \in LiePacket
      BY <2>4, <2>7 DEF FSM
    <3>4. {inbox'[r][i] : i \in 1..Len(inbox'[r])}
            \subseteq {inbox[r][i] : i \in 1..Len(inbox[r])} \cup {g.sent}
      BY <1>4, <3>1, <3>3, BoxFacts
    <3>5. Inbound(fsm[r], inbox'[r])
            \subseteq Inbound(fsm[r], inbox[r]) \cup {g.sent}
      BY <3>4 DEF Inbound
    <3> QED
      BY <1>4, <3>1, <3>2, <3>5 DEF Peered
  <2> QED
    BY <2>5, <2>6, <2>7
<1>8. ASSUME NEW s \in Stations, Lose(s)
      PROVE  Peered(r, fsm'[r], inbox'[r], present \ {r})
  <2>1. CASE r = s
    <3> DEFINE box == Tail(inbox[r])
    <3>1. fsm'[r] = fsm[r] /\ inbox'[r] = box /\ inbox[r] # <<>>
      BY <1>4, <1>8, <2>1 DEF Lose, TypeOK
    <3>2. {box[i] : i \in 1..Len(box)}
            \subseteq {inbox[r][i] : i \in 1..Len(inbox[r])}
      BY <1>4, <3>1, BoxFacts
    <3> HIDE DEF box
    <3>3. Inbound(fsm[r], box) \subseteq Inbound(fsm[r], inbox[r])
      BY <3>2 DEF Inbound
    <3> QED
      BY <1>4, <3>1, <3>3 DEF Peered
  <2>2. CASE r # s
    <3>1. fsm'[r] = fsm[r] /\ inbox'[r] = inbox[r]
      BY <1>4, <1>8, <2>2 DEF Lose, TypeOK
    <3> QED
      BY <1>4, <3>1
  <2> QED
    BY <2>1, <2>2
<1>9. ASSUME NEW s \in Stations, Restart(s)
      PROVE  Peered(r, fsm'[r], inbox'[r], present \ {r})
  <2>1. CASE r = s
    <3>1. fsm'[r] = NewFSM(r) /\ inbox'[r] = <<>>
      BY <1>4, <1>9, <2>1 DEF Restart, TypeOK
    <3> QED
      BY <1>4, <3>1, NewPeered
  <2>2. CASE r # s
    <3>1. fsm'[r] = fsm[r] /\ inbox'[r] = inbox[r]
      BY <1>4, <1>9, <2>2 DEF Restart, TypeOK
    <3> QED
      BY <1>4, <3>1
  <2> QED
    BY <2>1, <2>2
<1>10. CASE UNCHANGED vars
  BY <1>4, <1>10 DEF vars
<1> QED
  BY <1>1, <1>5, <1>6, <1>7, <1>8, <1>9, <1>10 DEF Next

-----------------------------------------------------------------------------
(* The theorems. *)

\* The invariants hold for any number of stations, losses and restarts.
THEOREM LinkInvariance == Spec => [](TypeOK /\ LinkInv)
<1> QED
  BY InitLink, StepLink, PTL DEF Spec

\* FSMs, inboxes, clocks and counters keep their types and bounds.
THEOREM LinkTypeCorrect == Spec => []TypeOK
<1> QED
  BY LinkInvariance, PTL

\* A station that is still in ThreeWay was some other station's current
\* neighbor within the last holdtime.
THEOREM OneSidedBounded == Spec => []OneSidedIsBounded
<1>1. TypeOK /\ LinkInv => OneSidedIsBounded
  <2> SUFFICES ASSUME TypeOK, LinkInv, AllQuiet, NEW s \in present,
                      fsm[s].state = "ThreeWay"
               PROVE  unseen[s] <= DefaultLIEHoldtime
    BY DEF OneSidedIsBounded
  <2>1. s \in Stations /\ s \notin tickerC /\ Idle(fsm[s])
    BY DEF TypeOK, AllQuiet
  <2>2. /\ fsm[s] \in FSM /\ unseen[s] \in Nat
        /\ FsmOK(s, fsm[s], s \in tickerC, unseen[s])
    BY <2>1, StationFacts DEF StationOK
  <2>3. Queued(fsm[s]) = {}
    BY <2>1 DEF Idle, Queued
  <2>4. /\ fsm[s].neighbor # None /\ unseen[s] <= fsm[s].lieAge
        /\ fsm[s].holdtime = DefaultLIEHoldtime
    BY <2>2, <2>3 DEF FsmOK, OneSided
  <2>5. /\ DefaultLIEHoldtime \in Nat \ {0}
        /\ fsm[s].lieAge \in Nat \cup {NoTime} /\ NoTime = -1
    BY <2>2, LieConstants DEF FSM, NoTime
  <2>6. ~(fsm[s].lieAge > DefaultLIEHoldtime)
    BY <2>1, <2>2, <2>3, <2>4, <2>5 DEF FsmOK, Clocked
  <2> QED
    BY <2>2, <2>4, <2>5, <2>6
<1> QED
  BY <1>1, LinkInvariance, PTL

\* On a point-to-point link no loss and no restart looks like a second neighbor:
\* until a station is replaced, none sits out the multiple-neighbors wait.  With
\* three stations the wait is what the link deserves.
THEOREM NoFalseNeighbors ==
    ASSUME PointToPoint PROVE Spec => []NoFalseMultipleNeighbors
<1>1. Init => PeerInv
  BY InitPeer
<1>2. TypeOK /\ LinkInv /\ PeerInv /\ [Next]_vars => PeerInv'
  BY StepPeer
<1>3. PeerInv => NoFalseMultipleNeighbors
  BY DEF PeerInv, Peered, Undisturbed, NoFalseMultipleNeighbors
<1> QED
  BY <1>1, <1>2, <1>3, LinkInvariance, PTL DEF Spec
=============================================================================
