------------------------------ MODULE LieLink -------------------------------
(***************************************************************************)
(* The LIE FSMs of the stations on one multicast link: what they do to     *)
(* each other while LIEs are lost, stations restart, and one takes the     *)
(* place of another.                                                       *)
(*                                                                         *)
(* The link is timely: a LIE that is not lost arrives, and is processed,   *)
(* before the next second begins.  Losses and restarts are bounded.        *)
(*                                                                         *)
(* A goroutine takes its next tick or LIE only when no other station is    *)
(* draining its queue: draining touches one FSM and appends to inboxes, so *)
(* every other interleaving is equivalent to one of these.                 *)
(***************************************************************************)
EXTENDS LieFsm, FiniteSets

CONSTANTS
    Stations,       \* identities of the stations, distinct system IDs
    Spares,         \* the stations that are not on the link at first
    AgeCap,         \* bound of the clocks: past every timeout
    MaxLosses,      \* bound on lost LIEs
    MaxRestarts     \* bound on restarts

ASSUME LinkConstants ==
    /\ Stations \subseteq Identity
    /\ Spares \subseteq Stations
    /\ \A s, t \in Stations : s.systemID = t.systemID => s = t
    /\ AgeCap \in Nat /\ MultipleNeighborsTimeout < AgeCap
    /\ MaxLosses \in Nat /\ MaxRestarts \in Nat

VARIABLES
    fsm,        \* station -> FSM
    inbox,      \* station -> the LIEs on their way to it, in order
    tickerC,    \* the stations whose ticker has fired and was not read
    present,    \* the stations on the link
    losses, restarts,
    unseen      \* history: station -> seconds since some other station last
                \* had it as its current neighbor

vars == <<fsm, inbox, tickerC, present, losses, restarts, unseen>>

Init ==
    /\ fsm = [s \in Stations |-> NewFSM(s)]
    /\ inbox = [s \in Stations |-> <<>>]
    /\ tickerC = {}
    /\ present = Stations \ Spares
    /\ losses = 0 /\ restarts = 0
    /\ unseen = [s \in Stations |-> 0]

\* Some other station on the link has s as its current neighbor.
Seen(s) ==
    \E t \in present \ {s} : /\ fsm[t].neighbor # None
                             /\ fsm[t].neighbor.systemID = s.systemID

\* Everyone has read its tick and its LIEs, and has drained its queue.
AllQuiet ==
    /\ tickerC = {}
    /\ \A s \in present : Idle(fsm[s]) /\ inbox[s] = <<>>

\* Station f's current neighbor has just been seen.
SeenBy(f) == [s \in Stations |->
    IF f.neighbor # None /\ f.neighbor.systemID = s.systemID THEN 0
    ELSE unseen[s]]

SecondElapses ==
    /\ AllQuiet
    /\ fsm' = [s \in Stations |-> IF s \in present THEN AgeFsm(fsm[s], AgeCap)
                                                   ELSE fsm[s]]
    /\ tickerC' = present
    /\ unseen' = [s \in Stations |-> IF s \notin present THEN 0
                                     ELSE IF Seen(s) THEN 1
                                     ELSE Older(unseen[s], AgeCap)]
    /\ UNCHANGED <<inbox, present, losses, restarts>>

\* No station is draining its queue.
NoneDraining == \A s \in present : Idle(fsm[s])

\* Interface.Run: the ticker's case and the receive channel's case.
TickerFires(s) ==
    /\ s \in tickerC /\ NoneDraining
    /\ tickerC' = tickerC \ {s}
    /\ fsm' = [fsm EXCEPT ![s] = Tick(@)]
    /\ UNCHANGED <<inbox, present, losses, restarts, unseen>>

PacketArrives(s) ==
    /\ s \in present /\ inbox[s] # <<>> /\ NoneDraining
    /\ fsm' = [fsm EXCEPT ![s] = HandlePacket(@, Head(inbox[s]))]
    /\ inbox' = [inbox EXCEPT ![s] = Tail(@)]
    /\ UNCHANGED <<tickerC, present, losses, restarts, unseen>>

\* One turn of drainQueue; a LIE that is sent reaches every other station.
ProcessEvent(s) ==
    /\ s \in present /\ ~Idle(fsm[s])
    /\ LET g == drainOne(fsm[s]) IN
         /\ fsm' = [fsm EXCEPT ![s] = [g EXCEPT !.sent = None,
                                                !.notified = None]]
         /\ inbox' = IF g.sent = None THEN inbox
                     ELSE [t \in Stations |->
                             IF t \in present \ {s}
                             THEN Append(inbox[t], g.sent) ELSE inbox[t]]
         /\ unseen' = SeenBy(g)
    /\ UNCHANGED <<tickerC, present, losses, restarts>>

\* The network loses a LIE.
Lose(s) ==
    /\ s \in present /\ inbox[s] # <<>> /\ losses < MaxLosses
    /\ inbox' = [inbox EXCEPT ![s] = Tail(@)]
    /\ losses' = losses + 1
    /\ UNCHANGED <<fsm, tickerC, present, restarts, unseen>>

\* The agent of station s restarts: same identity, a new FSM, nothing read.
Restart(s) ==
    /\ s \in present /\ restarts < MaxRestarts
    /\ fsm' = [fsm EXCEPT ![s] = NewFSM(s)]
    /\ inbox' = [inbox EXCEPT ![s] = <<>>]
    /\ restarts' = restarts + 1
    /\ UNCHANGED <<tickerC, present, losses, unseen>>

\* Station s is unplugged and t is plugged in instead, with a system ID of its
\* own; or s comes back from a restart with another system ID.
Replace(s, t) ==
    /\ s \in present /\ t \in Spares \ present /\ restarts < MaxRestarts
    /\ present' = (present \ {s}) \cup {t}
    /\ inbox' = [inbox EXCEPT ![s] = <<>>]
    /\ tickerC' = tickerC \ {s}
    /\ fsm' = [fsm EXCEPT ![s] = NewFSM(s)]
    /\ unseen' = [unseen EXCEPT ![s] = 0]
    /\ restarts' = restarts + 1
    /\ UNCHANGED losses

Next ==
    \/ SecondElapses
    \/ \E s \in Stations : \/ TickerFires(s)
                           \/ PacketArrives(s)
                           \/ ProcessEvent(s)
                           \/ Lose(s)
                           \/ Restart(s)
                           \/ \E t \in Spares : Replace(s, t)

Spec == Init /\ [][Next]_vars

\* Time passes and the goroutines run.
FairSpec ==
    /\ Spec
    /\ WF_vars(SecondElapses)
    /\ \A s \in Stations : /\ WF_vars(TickerFires(s))
                           /\ WF_vars(PacketArrives(s))
                           /\ WF_vars(ProcessEvent(s))

-----------------------------------------------------------------------------
(* Properties *)

\* The variables keep their types and the bounds hold.
TypeOK ==
    /\ fsm \in [Stations -> FSM]
    /\ inbox \in [Stations -> Seq(LiePacket)]
    /\ tickerC \subseteq present /\ present \subseteq Stations
    /\ losses \in 0..MaxLosses /\ restarts \in 0..MaxRestarts
    /\ unseen \in [Stations -> 0..AgeCap]

\* A one-sided adjacency is bounded by the holdtime: a station that is still in
\* ThreeWay was some other station's current neighbor within the last holdtime,
\* whatever was lost and whoever restarted.
OneSidedIsBounded ==
    AllQuiet => \A s \in present :
        fsm[s].state = "ThreeWay" => unseen[s] <= DefaultLIEHoldtime

\* Until a station is replaced, no loss and no restart looks like a second
\* neighbor, which would silence the link for the multiple-neighbors timeout.
NoFalseMultipleNeighbors ==
    present = Stations \ Spares =>
        \A s \in present : fsm[s].state # "MultipleNeighborsWait"

\* The adjacency comes up and stays up once losses, restarts and replacements
\* have stopped, although both stations may have to sit out the wait.
AdjacencyForms ==
    <>[](\A s \in present : fsm[s].state = "ThreeWay")
=============================================================================
