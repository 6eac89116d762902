------------------------ MODULE AgentInterfacesProofs -----------------------
(***************************************************************************)
(* For any number of interfaces, restarts of them, adjacency events and    *)
(* capacities of the channels: sockets and receive loops belong to running *)
(* interfaces, and the flood engine's adjacencies follow the LIE FSMs.     *)
(***************************************************************************)
EXTENDS AgentInterfaces, TLAPS

-----------------------------------------------------------------------------
(* The inductive invariant *)

\* What the goroutines, the channels and the event loop keep.
LieGoroutine == [iface : Ifaces, state : LieState, cancelled : BOOLEAN,
                 exited : BOOLEAN]
RecvLoop == [inst : Nat, pc : {"start", "check", "call", "read", "exited"},
             conn : {None} \cup Nat, cancelled : BOOLEAN]
AdjEvent == [iface : Ifaces, state : LieState, inst : Nat]
AdjChange == [iface : Ifaces, up : BOOLEAN]
Used == [sockets : Nat, changes : Nat, configs : Nat]

\* The handler of an adjacency event is at one of its later steps.
Handling == loop.pc \in {"up", "down", "cancel", "close"}

\* The types of all variables.
Typed ==
    /\ cfg \subseteq Ifaces
    /\ pendingCfg = None \/ pendingCfg \subseteq Ifaces
    /\ interfaces \in [Ifaces -> {None} \cup InterfaceState]
    /\ lie \in Seq(LieGoroutine)
    /\ floodConn \in Seq({None} \cup Nat) /\ Len(floodConn) = Len(lie)
    /\ recvLoops \in Seq(RecvLoop)
    /\ adjEventCh \in Seq(AdjEvent) /\ Len(adjEventCh) <= AdjEventCap
    /\ adjChangeCh \in Seq(AdjChange) /\ Len(adjChangeCh) <= AdjChangeCap
    /\ adjacencies \subseteq Ifaces /\ floodSendCh \subseteq Ifaces
    /\ used \in Used
    /\ \/ loop = Select
       \/ loop \in [pc : {"start"}, todo : SUBSET Ifaces]
       \/ loop \in [pc : {"up", "down", "cancel", "close"}, iface : Ifaces]

\* A running interface has an instance of its own, the event loop handles events
\* of running interfaces only, and receive loops read for instances.
Instances ==
    /\ \A i \in Running : /\ interfaces[i].inst \in 1..Len(lie)
                          /\ lie[interfaces[i].inst].iface = i
    /\ Handling => loop.iface \in Running
    /\ \A k \in 1..Len(recvLoops) : recvLoops[k].inst \in 1..Len(lie)

\* floodCancel names the loop that reads for the instance, whose socket is open;
\* a loop that nobody has cancelled is so named.
Loops ==
    /\ \A i \in Running : LET k == interfaces[i].floodCancel IN
         k # None => /\ k \in 1..Len(recvLoops)
                     /\ recvLoops[k].inst = interfaces[i].inst
                     /\ ~recvLoops[k].cancelled
                     /\ floodConn[interfaces[i].inst] # None
    /\ \A k \in 1..Len(recvLoops) : ~recvLoops[k].cancelled =>
         /\ \E i \in Running : interfaces[i].floodCancel = k
         /\ recvLoops[k].pc # "exited"
    /\ loop.pc = "close" => interfaces[loop.iface].floodCancel = None

\* Sockets are numbered as they are opened, and none is lost.
Sockets ==
    /\ \A k \in 1..Len(floodConn) : floodConn[k] \in {None} \cup 1..used.sockets
    /\ closed \subseteq 1..used.sockets
    /\ NoSocketLeak

\* What the flood engine will hold of interface i when it has read adjChangeCh.
Told(i) ==
    \/ \E n \in 1..Len(adjChangeCh) :
         /\ adjChangeCh[n].iface = i /\ adjChangeCh[n].up
         /\ \A m \in n+1..Len(adjChangeCh) : adjChangeCh[m].iface # i
    \/ /\ i \in adjacencies
       /\ \A n \in 1..Len(adjChangeCh) : adjChangeCh[n].iface # i

\* An event of interface i is on its way to the event loop.
Coming(i) == \E n \in 1..Len(adjEventCh) : adjEventCh[n].iface = i

\* Instance k is the only one that interface i ever had.
Only(i, k) == \A j \in 1..Len(lie) : lie[j].iface = i => j = k

\* The event loop is at one of the places pcs in the handler of an event of i.
At(i, pcs) == loop.pc \in pcs /\ loop.iface = i

\* Nobody has heard of an interface that was never started.
Unheard ==
    \A i \in Ifaces : (\A j \in 1..Len(lie) : lie[j].iface # i) =>
        ~Coming(i) /\ ~Told(i)

\* The last event of interface i on its way has state s.
LastComing(i, s) ==
    \A n \in 1..Len(adjEventCh) :
        /\ adjEventCh[n].iface = i
        /\ \A m \in n+1..Len(adjEventCh) : adjEventCh[m].iface # i
        => adjEventCh[n].state = s

\* For interface i and its only instance, with the FSM in state s and the socket
\* open or not: the last event on its way has that state, and where none is
\* coming, an FSM outside ThreeWay has been, or is being, reported down.  What
\* the engine is told goes with the socket.
FollowsOne(i, s, open) ==
    /\ LastComing(i, s)
    /\ ~Coming(i) /\ s # "ThreeWay" =>
         \/ At(i, {"down", "cancel", "close"})
         \/ ~Told(i) /\ ~At(i, {"up"})
    /\ At(i, {"up"}) => open
    /\ At(i, {"cancel", "close"}) => ~Told(i)
    /\ ~At(i, {"up"}) /\ ~At(i, {"cancel", "close"}) => (Told(i) <=> open)

\* ... for every running interface that was never stopped before.
Follows ==
    \A i \in Running : LET k == interfaces[i].inst IN
        Only(i, k) => FollowsOne(i, lie[k].state, floodConn[k] # None)

\* The inductive invariant.
Inv == Typed /\ Instances /\ Loops /\ Sockets /\ Unheard /\ Follows

-----------------------------------------------------------------------------
(* What the invariant says *)

\* The event loop outside handleAdjacencyEvent.
LEMMA NotHandling ==
    ASSUME Typed, ~Handling
    PROVE  loop = Select \/ loop \in [pc : {"start"}, todo : SUBSET Ifaces]
BY DEF Typed, Handling

\* The invariant implies the properties of the runs.
LEMMA InvImplies ==
    Inv => TypeOK /\ ReceiveLoopServes /\ NoSocketLeak /\ FollowsLie
<1> SUFFICES ASSUME Inv PROVE TypeOK /\ ReceiveLoopServes /\ NoSocketLeak /\ FollowsLie
  OBVIOUS
<1> USE DEF Inv
<1>1. \A k \in 1..Len(lie) : lie[k].state \in LieState
  <2>1. lie \in Seq(LieGoroutine)
    BY DEF Typed
  <2>2. \A k \in 1..Len(lie) : lie[k] \in LieGoroutine
    BY <2>1
  <2> QED
    BY <2>2 DEF LieGoroutine
<1>2. \A i \in Running : interfaces[i].floodCancel \in {None} \cup 1..Len(recvLoops)
  BY DEF Loops
<1>3. TypeOK
  <2>1. \A i \in Running : interfaces[i].inst \in 1..Len(lie)
    BY DEF Instances
  <2>2. /\ \A k \in 1..Len(floodConn) : floodConn[k] \in {None} \cup 1..used.sockets
        /\ closed \subseteq 1..used.sockets
    BY DEF Sockets
  <2> QED
    BY <1>1, <1>2, <2>1, <2>2 DEF TypeOK, Typed
<1>4. ReceiveLoopServes
  <2>1. ASSUME NEW k \in 1..Len(recvLoops), NEW i \in Running,
               interfaces[i].floodCancel = k
        PROVE  ~recvLoops[k].cancelled /\ interfaces[i].inst = recvLoops[k].inst
    BY <2>1, AgentConstants DEF Loops
  <2> QED
    BY <2>1 DEF Loops, ReceiveLoopServes, OneReceiveLoop
<1>5. NoSocketLeak
  BY DEF Sockets
<1>6. FollowsLie
  <2> SUFFICES ASSUME Quiescent, NEW i \in Running, Only(i, interfaces[i].inst)
               PROVE  /\ i \in adjacencies => lie[interfaces[i].inst].state = "ThreeWay"
                      /\ i \in adjacencies <=> floodConn[interfaces[i].inst] # None
    BY DEF FollowsLie, Only
  <2>1. ~Coming(i) /\ (Told(i) <=> i \in adjacencies)
    BY DEF Quiescent, Coming, Told
  <2>2. \A pcs : At(i, pcs) <=> "select" \in pcs /\ loop.iface = i
    BY DEF Quiescent, Select, At
  <2>3. /\ ~At(i, {"up"}) /\ ~At(i, {"down", "cancel", "close"})
        /\ ~At(i, {"cancel", "close"})
    BY <2>2
  <2> QED
    BY <2>1, <2>3 DEF Follows, FollowsOne
<1> QED
  BY <1>3, <1>4, <1>5, <1>6

-----------------------------------------------------------------------------
(* Interfaces start and stop *)

\* A new instance: nobody has heard of it, and no other is touched.
LEMMA StartStep ==
    ASSUME Inv, NEW i \in Ifaces, startInterfaceLocked(i), ~Handling, ~Handling',
           UNCHANGED <<closed, recvLoops, adjEventCh, adjChangeCh, adjacencies, used>>
    PROVE  /\ interfaces' \in [Ifaces -> {None} \cup InterfaceState]
           /\ lie' \in Seq(LieGoroutine)
           /\ floodConn' \in Seq({None} \cup Nat) /\ Len(floodConn') = Len(lie')
           /\ Instances' /\ Loops' /\ Sockets' /\ Unheard' /\ Follows'
<1>0. /\ interfaces \in [Ifaces -> {None} \cup InterfaceState]
      /\ lie \in Seq(LieGoroutine)
      /\ floodConn \in Seq({None} \cup Nat) /\ Len(floodConn) = Len(lie)
      /\ loop.pc \notin {"up", "down", "cancel", "close"}
      /\ loop'.pc \notin {"up", "down", "cancel", "close"}
  BY DEF Inv, Typed, Handling
<1>a. /\ \A j, pcs : pcs \subseteq {"up", "down", "cancel", "close"} => ~At(j, pcs)
      /\ \A j, pcs : pcs \subseteq {"up", "down", "cancel", "close"} => ~At(j, pcs)'
  BY <1>0 DEF At
<1>1. CASE UNCHANGED <<interfaces, lie, floodConn>>
  <2>1. Instances' /\ Loops'
    BY <1>0, <1>1 DEF Inv, Instances, Loops, Running, Handling
  <2>2. Sockets' /\ Unheard'
    BY <1>1 DEF Inv, Sockets, NoSocketLeak, Running, Unheard, Coming, Told
  <2>3. Follows'
    BY <1>1, <1>a DEF Inv, Follows, FollowsOne, LastComing, Only, Running, Coming, Told
  <2> QED
    BY <1>0, <1>1, <2>1, <2>2, <2>3
<1> DEFINE new == Len(lie) + 1
           l == [iface |-> i, state |-> "OneWay", cancelled |-> FALSE, exited |-> FALSE]
           r == [inst |-> new, floodCancel |-> None]
<1>2. CASE /\ interfaces[i] = None /\ lie' = Append(lie, l)
           /\ floodConn' = Append(floodConn, None)
           /\ interfaces' = [interfaces EXCEPT ![i] = r]
  <2>1. l \in LieGoroutine /\ r \in InterfaceState /\ r # None
    BY <1>0, AgentConstants DEF LieGoroutine, LieState, InterfaceState
  <2>2. /\ interfaces' \in [Ifaces -> {None} \cup InterfaceState]
        /\ interfaces'[i] = r /\ \A j \in Ifaces : j # i => interfaces'[j] = interfaces[j]
    BY <1>0, <1>2, <2>1
  <2>3. /\ lie' \in Seq(LieGoroutine) /\ Len(lie') = new /\ lie'[new] = l
        /\ \A j \in 1..Len(lie) : lie'[j] = lie[j]
    BY <1>0, <1>2, <2>1
  <2>4. /\ floodConn' \in Seq({None} \cup Nat) /\ Len(floodConn') = new
        /\ floodConn'[new] = None /\ \A j \in 1..Len(lie) : floodConn'[j] = floodConn[j]
    BY <1>0, <1>2
  <2>5. /\ l.iface = i /\ l.state = "OneWay" /\ r.inst = new /\ r.floodCancel = None
        /\ Len(lie) \in Nat /\ new = Len(lie) + 1
    BY <1>0
  <2> HIDE DEF l, r, new
  <2>6. Running' = Running \cup {i} /\ i \notin Running
    BY <1>2, <2>1, <2>2 DEF Running
  <2>7. /\ \A j \in Running : /\ interfaces'[j] = interfaces[j]
                              /\ interfaces[j].inst \in 1..Len(lie)
                              /\ interfaces[j].inst \in 1..new
                              /\ lie[interfaces[j].inst].iface = j
                              /\ lie'[interfaces[j].inst] = lie[interfaces[j].inst]
                              /\ floodConn'[interfaces[j].inst]
                                   = floodConn[interfaces[j].inst]
        /\ \A j \in Running : j # i
    BY <2>2, <2>3, <2>4, <2>5, <2>6 DEF Inv, Instances, Running
  <2>8. Instances'
    <3>1. \A k \in 1..Len(recvLoops') : recvLoops'[k].inst \in 1..new
      BY <2>5 DEF Inv, Instances
    <3> QED
      BY <1>0, <2>2, <2>3, <2>5, <2>6, <2>7, <3>1 DEF Instances, Handling
  <2>9. Loops'
    <3>1. Loops
      BY DEF Inv
    <3>2. /\ interfaces'[i].floodCancel = None
          /\ UNCHANGED recvLoops
      BY <1>0, <2>2, <2>5
    <3>3. ASSUME NEW j \in Running', interfaces'[j].floodCancel # None
          PROVE  /\ interfaces'[j].floodCancel \in 1..Len(recvLoops)
                 /\ recvLoops[interfaces'[j].floodCancel].inst = interfaces'[j].inst
                 /\ ~recvLoops[interfaces'[j].floodCancel].cancelled
                 /\ floodConn'[interfaces'[j].inst] # None
      <4>1. j \in Running /\ interfaces'[j] = interfaces[j]
        BY <2>6, <2>7, <3>2, <3>3
      <4> QED
        BY <2>7, <3>1, <3>3, <4>1 DEF Loops
    <3>4. ASSUME NEW k \in 1..Len(recvLoops), ~recvLoops[k].cancelled
          PROVE  /\ \E j \in Running' : interfaces'[j].floodCancel = k
                 /\ recvLoops[k].pc # "exited"
      BY <2>6, <2>7, <3>1, <3>4 DEF Loops
    <3>5. \A j \in Running' : LET k == interfaces'[j].floodCancel IN
            k # None => /\ k \in 1..Len(recvLoops')
                        /\ recvLoops'[k].inst = interfaces'[j].inst
                        /\ ~recvLoops'[k].cancelled
                        /\ floodConn'[interfaces'[j].inst] # None
      BY <3>2, <3>3
    <3>6. \A k \in 1..Len(recvLoops') : ~recvLoops'[k].cancelled =>
            /\ \E j \in Running' : interfaces'[j].floodCancel = k
            /\ recvLoops'[k].pc # "exited"
      BY <3>2, <3>4
    <3> QED
      BY <1>0, <3>5, <3>6 DEF Loops
  <2>10. Sockets'
    <3>1. \A k \in 1..Len(floodConn') : floodConn'[k] \in {None} \cup 1..used'.sockets
      BY <1>0, <2>4, <2>5 DEF Inv, Sockets
    <3>2. NoSocketLeak'
      BY <2>6, <2>7 DEF Inv, Sockets, NoSocketLeak
    <3> QED
      BY <3>1, <3>2 DEF Inv, Sockets
  <2>b. \A j, s : /\ Coming(j)' = Coming(j) /\ Told(j)' = Told(j)
                  /\ LastComing(j, s)' = LastComing(j, s)
    BY DEF Coming, Told, LastComing
  <2>11. Unheard'
    <3> SUFFICES ASSUME NEW j \in Ifaces, \A k \in 1..Len(lie') : lie'[k].iface # j
                 PROVE  ~Coming(j) /\ ~Told(j)
      BY <2>b DEF Unheard
    <3>1. \A k \in 1..Len(lie) : lie[k].iface # j
      BY <2>3, <2>5
    <3> QED
      BY <3>1 DEF Inv, Unheard
  <2>12. Follows'
    <3> SUFFICES ASSUME NEW j \in Running', Only(j, interfaces[j].inst)'
                 PROVE  FollowsOne(j, lie[interfaces[j].inst].state,
                                   floodConn[interfaces[j].inst] # None)'
      BY DEF Follows
    <3>1. CASE j = i
      <4>1. \A k \in 1..Len(lie) : lie[k].iface # i
        BY <2>2, <2>3, <2>5, <3>1 DEF Only
      <4>2. ~Coming(i) /\ ~Told(i)
        BY <4>1 DEF Inv, Unheard
      <4>3. \A s : LastComing(i, s)
        BY <4>2 DEF Coming, LastComing
      <4> QED
        BY <1>a, <2>b, <2>2, <2>4, <2>5, <3>1, <4>2, <4>3 DEF FollowsOne
    <3>2. CASE j # i
      <4>1. j \in Running /\ Only(j, interfaces[j].inst)
        BY <2>3, <2>5, <2>6, <2>7, <3>2 DEF Only
      <4> QED
        BY <1>a, <2>b, <2>7, <4>1 DEF Inv, Follows, FollowsOne
    <3> QED
      BY <3>1, <3>2
  <2> QED
    BY <2>2, <2>3, <2>4, <2>8, <2>9, <2>10, <2>11, <2>12
<1> QED
  BY <1>1, <1>2 DEF startInterfaceLocked

\* Every instance keeps its interface, and the FSMs their states.
SameLies ==
    /\ Len(lie') = Len(lie)
    /\ \A k \in 1..Len(lie) : lie'[k].iface = lie[k].iface /\ lie'[k].state = lie[k].state

\* The event loop stays where it is, or is not in handleAdjacencyEvent.
SameLoop == UNCHANGED loop \/ (~Handling /\ ~Handling')

\* Such a step leaves the event loop at the same place of the handler, if any.
LEMMA AtKept ==
    ASSUME SameLoop
    PROVE  /\ Handling' = Handling
           /\ \A i, pcs : pcs \subseteq {"up", "down", "cancel", "close"} =>
                At(i, pcs)' = At(i, pcs)
BY DEF SameLoop, Handling, At

\* A step that stops no interface keeps the instances.
LEMMA KeepInstances ==
    ASSUME Inv, UNCHANGED <<interfaces, recvLoops>>, SameLies, SameLoop
    PROVE  Instances'
<1>1. Handling' = Handling /\ (Handling => UNCHANGED loop)
  BY AtKept DEF SameLoop
<1> QED
  BY <1>1 DEF Inv, Instances, Running, SameLies

\* Without a change of loops, sockets or interfaces, each loop keeps its place.
LEMMA KeepLoops ==
    ASSUME Inv, UNCHANGED <<interfaces, recvLoops, floodConn>>, SameLoop
    PROVE  Loops'
<1>1. loop'.pc = "close" => loop.pc = "close" /\ loop' = loop
  BY DEF SameLoop, Handling
<1> QED
  BY <1>1 DEF Inv, Loops, Running

\* ... and each socket its owner.
LEMMA KeepSockets ==
    ASSUME Inv, UNCHANGED <<interfaces, floodConn, closed>>, used'.sockets = used.sockets
    PROVE  Sockets'
BY DEF Inv, Sockets, NoSocketLeak, Running

\* A step that touches neither channel nor the engine.
LEMMA KeepChannels ==
    ASSUME UNCHANGED <<adjEventCh, adjChangeCh, adjacencies>>
    PROVE  \A i, s : /\ Coming(i)' = Coming(i) /\ Told(i)' = Told(i)
                     /\ LastComing(i, s)' = LastComing(i, s)
BY DEF Coming, Told, LastComing

\* ... says nothing of an interface that was never started,
LEMMA KeepUnheard ==
    ASSUME Inv, UNCHANGED <<adjEventCh, adjChangeCh, adjacencies>>, SameLies
    PROVE  Unheard'
<1>1. \A i : (\A j \in 1..Len(lie') : lie'[j].iface # i)
               => (\A j \in 1..Len(lie) : lie[j].iface # i)
  BY DEF SameLies
<1> QED
  BY <1>1, KeepChannels DEF Inv, Unheard

\* ... and keeps the engine following the interfaces that go on running.
LEMMA KeepFollows ==
    ASSUME Inv, UNCHANGED <<adjEventCh, adjChangeCh, adjacencies, floodConn>>, SameLies,
           SameLoop, Running' \subseteq Running,
           \A i \in Running' : interfaces'[i].inst = interfaces[i].inst
    PROVE  Follows'
<1> SUFFICES ASSUME NEW i \in Running', Only(i, interfaces[i].inst)'
             PROVE  FollowsOne(i, lie[interfaces[i].inst].state,
                               floodConn[interfaces[i].inst] # None)'
  BY DEF Follows
<1>1. /\ i \in Running /\ interfaces'[i].inst = interfaces[i].inst
      /\ interfaces[i].inst \in 1..Len(lie)
  BY DEF Inv, Instances
<1>2. Only(i, interfaces[i].inst)
  BY <1>1 DEF Only, SameLies
<1>3. lie'[interfaces[i].inst].state = lie[interfaces[i].inst].state
  BY <1>1 DEF SameLies
<1>4. FollowsOne(i, lie[interfaces[i].inst].state, floodConn[interfaces[i].inst] # None)
  BY <1>1, <1>2 DEF Inv, Follows
<1> QED
  BY <1>1, <1>3, <1>4, KeepChannels, AtKept DEF FollowsOne

\* Stopping interfaces cancels their loops and closes their sockets, and touches
\* no other interface's.
LEMMA StopStep ==
    ASSUME Inv, NEW S \in SUBSET Running, stopInterfaceLocked(S), ~Handling, ~Handling',
           UNCHANGED <<floodConn, adjEventCh, adjChangeCh, adjacencies, used>>
    PROVE  /\ interfaces' \in [Ifaces -> {None} \cup InterfaceState]
           /\ lie' \in Seq(LieGoroutine) /\ Len(lie') = Len(lie)
           /\ recvLoops' \in Seq(RecvLoop)
           /\ Instances' /\ Loops' /\ Sockets' /\ Unheard' /\ Follows'
<1> DEFINE stopped == {interfaces[i].inst : i \in S}
           cancels == {interfaces[i].floodCancel : i \in S}
<1>1. /\ interfaces \in [Ifaces -> {None} \cup InterfaceState]
      /\ lie \in Seq(LieGoroutine) /\ recvLoops \in Seq(RecvLoop)
      /\ Len(floodConn) = Len(lie) /\ SameLoop
  BY DEF Inv, Typed, SameLoop
<1>2. /\ recvLoops' = [k \in DOMAIN recvLoops |-> [recvLoops[k] EXCEPT
                         !.cancelled = @ \/ k \in cancels]]
      /\ lie' = [k \in DOMAIN lie |-> [lie[k] EXCEPT !.cancelled = @ \/ k \in stopped]]
      /\ closed' = closed \cup ({floodConn[k] : k \in stopped} \ {None})
      /\ interfaces' = [i \in Ifaces |-> IF i \in S THEN None ELSE interfaces[i]]
  BY DEF stopInterfaceLocked
<1>3. /\ interfaces' \in [Ifaces -> {None} \cup InterfaceState]
      /\ Running' = Running \ S
      /\ \A i \in Running' : interfaces'[i] = interfaces[i]
  BY <1>1, <1>2 DEF Running
<1>4. lie' \in Seq(LieGoroutine) /\ SameLies
  <2>1. /\ DOMAIN lie = 1..Len(lie) /\ Len(lie) \in Nat
        /\ \A k \in 1..Len(lie) : lie[k] \in LieGoroutine
    BY <1>1
  <2>2. \A k \in 1..Len(lie) :
          /\ lie'[k] \in LieGoroutine
          /\ lie'[k].iface = lie[k].iface /\ lie'[k].state = lie[k].state
    BY <1>2, <2>1 DEF LieGoroutine
  <2>3. lie' \in [1..Len(lie) -> LieGoroutine]
    BY <1>2, <2>1, <2>2
  <2> QED
    BY <2>1, <2>2, <2>3 DEF SameLies
<1>5. /\ recvLoops' \in Seq(RecvLoop) /\ Len(recvLoops') = Len(recvLoops)
      /\ \A k \in 1..Len(recvLoops) :
           /\ recvLoops'[k].inst = recvLoops[k].inst /\ recvLoops'[k].pc = recvLoops[k].pc
           /\ recvLoops'[k].cancelled <=> recvLoops[k].cancelled \/ k \in cancels
  <2>1. /\ DOMAIN recvLoops = 1..Len(recvLoops) /\ Len(recvLoops) \in Nat
        /\ \A k \in 1..Len(recvLoops) : recvLoops[k] \in RecvLoop
    BY <1>1
  <2>2. \A k \in 1..Len(recvLoops) :
          /\ recvLoops'[k] \in RecvLoop
          /\ recvLoops'[k].inst = recvLoops[k].inst /\ recvLoops'[k].pc = recvLoops[k].pc
          /\ recvLoops'[k].cancelled <=> recvLoops[k].cancelled \/ k \in cancels
    BY <1>2, <2>1 DEF RecvLoop
  <2>3. recvLoops' \in [1..Len(recvLoops) -> RecvLoop]
    BY <1>2, <2>1, <2>2
  <2> QED
    BY <2>1, <2>2, <2>3
<1>6. Instances'
  <2>1. Instances /\ (Handling' => loop.iface \in Running')
    BY <1>1, <1>3 DEF Inv, Instances, Handling, SameLoop
  <2>2. \A i \in Running' : /\ interfaces'[i].inst \in 1..Len(lie')
                            /\ lie'[interfaces'[i].inst].iface = i
    BY <1>3, <1>4, <2>1 DEF Instances, SameLies
  <2>3. \A k \in 1..Len(recvLoops') : recvLoops'[k].inst \in 1..Len(lie')
    BY <1>4, <1>5, <2>1 DEF Instances, SameLies
  <2> QED
    BY <2>1, <2>2, <2>3 DEF Instances
<1>7. Loops'
  <2>1. ASSUME NEW i \in Running', interfaces[i].floodCancel # None
        PROVE  interfaces[i].floodCancel \notin cancels
    <3> SUFFICES ASSUME NEW j \in S, interfaces[j].floodCancel = interfaces[i].floodCancel
                 PROVE  FALSE
      OBVIOUS
    <3>1. interfaces[i].inst = interfaces[j].inst
      BY <1>3, <2>1 DEF Inv, Loops
    <3>2. i = j
      BY <1>3, <3>1 DEF Inv, Instances
    <3> QED
      BY <1>3, <3>2
  <2>2. ASSUME NEW i \in Running', interfaces'[i].floodCancel # None
        PROVE  /\ interfaces'[i].floodCancel \in 1..Len(recvLoops')
               /\ recvLoops'[interfaces'[i].floodCancel].inst = interfaces'[i].inst
               /\ ~recvLoops'[interfaces'[i].floodCancel].cancelled
               /\ floodConn'[interfaces'[i].inst] # None
    BY <1>3, <1>5, <2>1, <2>2 DEF Inv, Loops
  <2>3. ASSUME NEW k \in 1..Len(recvLoops'), ~recvLoops'[k].cancelled
        PROVE  /\ \E i \in Running' : interfaces'[i].floodCancel = k
               /\ recvLoops'[k].pc # "exited"
    <3>1. k \in 1..Len(recvLoops) /\ ~recvLoops[k].cancelled /\ k \notin cancels
      BY <1>5, <2>3
    <3>2. PICK i \in Running : interfaces[i].floodCancel = k
      BY <3>1 DEF Inv, Loops
    <3>3. i \notin S
      BY <3>1, <3>2
    <3> QED
      BY <1>3, <1>5, <3>1, <3>2, <3>3 DEF Inv, Loops
  <2> QED
    BY <2>2, <2>3 DEF Loops, Handling
<1>8. Sockets'
  <2>1. \A k \in stopped : k \in 1..Len(floodConn)
    BY <1>1 DEF Inv, Instances
  <2>2. closed' \subseteq 1..used'.sockets
    BY <1>2, <2>1 DEF Inv, Sockets
  <2>3. ASSUME NEW c \in 1..used.sockets, c \notin closed'
        PROVE  \E i \in Running' : floodConn'[interfaces'[i].inst] = c
    <3>1. PICK i \in Running : floodConn[interfaces[i].inst] = c
      BY <1>2, <2>3 DEF Inv, Sockets, NoSocketLeak
    <3>2. i \notin S
      BY <1>2, <2>3, <3>1, AgentConstants
    <3> QED
      BY <1>3, <3>1, <3>2
  <2> QED
    BY <2>2, <2>3 DEF Inv, Sockets, NoSocketLeak
<1>9. Unheard' /\ Follows'
  BY <1>1, <1>3, <1>4, KeepUnheard, KeepFollows
<1> QED
  BY <1>3, <1>4, <1>5, <1>6, <1>7, <1>8, <1>9 DEF SameLies

-----------------------------------------------------------------------------
(* The channels *)

\* An event that is sent is the last one of its interface.
LEMMA EventSent ==
    ASSUME adjEventCh \in Seq(AdjEvent), NEW ev \in AdjEvent,
           adjEventCh' = Append(adjEventCh, ev)
    PROVE  /\ Coming(ev.iface)' /\ LastComing(ev.iface, ev.state)'
           /\ \A i : i # ev.iface =>
                /\ Coming(i)' <=> Coming(i)
                /\ \A s : LastComing(i, s) => LastComing(i, s)'
<1>1. /\ Len(adjEventCh) \in Nat /\ Len(adjEventCh') = Len(adjEventCh) + 1
      /\ adjEventCh'[Len(adjEventCh) + 1] = ev
      /\ \A n \in 1..Len(adjEventCh) : adjEventCh'[n] = adjEventCh[n]
  OBVIOUS
<1>2. Coming(ev.iface)' /\ \A i : i # ev.iface => (Coming(i)' <=> Coming(i))
  BY <1>1 DEF Coming
<1>3. LastComing(ev.iface, ev.state)'
  BY <1>1 DEF LastComing
<1>4. ASSUME NEW i, NEW s, i # ev.iface, LastComing(i, s)
      PROVE  LastComing(i, s)'
  <2> SUFFICES ASSUME NEW n \in 1..Len(adjEventCh'), adjEventCh'[n].iface = i,
                      \A m \in n+1..Len(adjEventCh') : adjEventCh'[m].iface # i
               PROVE  adjEventCh'[n].state = s
    BY DEF LastComing
  <2>1. n \in 1..Len(adjEventCh) /\ adjEventCh'[n] = adjEventCh[n]
    BY <1>1, <1>4
  <2>2. \A m \in n+1..Len(adjEventCh) : adjEventCh[m].iface # i
    BY <1>1, <2>1
  <2> QED
    BY <1>4, <2>1, <2>2 DEF LastComing
<1> QED
  BY <1>2, <1>3, <1>4

\* The event taken was the last of its interface, or others of it follow.
LEMMA EventTaken ==
    ASSUME adjEventCh \in Seq(AdjEvent), adjEventCh # <<>>,
           adjEventCh' = Tail(adjEventCh), NEW ev, ev = Head(adjEventCh)
    PROVE  /\ ev \in AdjEvent /\ Coming(ev.iface)
           /\ \A i : /\ Coming(i)' => Coming(i)
                     /\ i # ev.iface => (Coming(i) => Coming(i)')
                     /\ \A s : LastComing(i, s) => LastComing(i, s)'
           /\ \A s : ~Coming(ev.iface)' /\ LastComing(ev.iface, s) => ev.state = s
<1>1. /\ Len(adjEventCh) \in Nat \ {0} /\ Len(adjEventCh') = Len(adjEventCh) - 1
      /\ ev \in AdjEvent /\ ev = adjEventCh[1]
      /\ \A n \in 1..Len(adjEventCh) - 1 : adjEventCh'[n] = adjEventCh[n + 1]
  OBVIOUS
<1>2. Coming(ev.iface)
  BY <1>1 DEF Coming
<1>3. ASSUME NEW n \in 2..Len(adjEventCh)
      PROVE  n - 1 \in 1..Len(adjEventCh') /\ adjEventCh'[n - 1] = adjEventCh[n]
  BY <1>1
<1>4. ASSUME NEW i PROVE /\ Coming(i)' => Coming(i)
                         /\ i # ev.iface => (Coming(i) => Coming(i)')
  <2>1. Coming(i)' => Coming(i)
    BY <1>1 DEF Coming
  <2>2. ASSUME i # ev.iface, NEW n \in 1..Len(adjEventCh), adjEventCh[n].iface = i
        PROVE  Coming(i)'
    <3>1. n \in 2..Len(adjEventCh)
      BY <1>1, <2>2
    <3> QED
      BY <1>3, <2>2, <3>1 DEF Coming
  <2> QED
    BY <2>1, <2>2 DEF Coming
<1>5. ASSUME NEW i, NEW s, LastComing(i, s)
      PROVE  LastComing(i, s)'
  <2> SUFFICES ASSUME NEW n \in 1..Len(adjEventCh'), adjEventCh'[n].iface = i,
                      \A m \in n+1..Len(adjEventCh') : adjEventCh'[m].iface # i
               PROVE  adjEventCh'[n].state = s
    BY DEF LastComing
  <2>1. n + 1 \in 1..Len(adjEventCh) /\ adjEventCh'[n] = adjEventCh[n + 1]
    BY <1>1
  <2>2. ASSUME NEW m \in (n+1)+1..Len(adjEventCh) PROVE adjEventCh[m].iface # i
    <3>1. m \in 2..Len(adjEventCh) /\ m - 1 \in n+1..Len(adjEventCh')
      BY <1>1
    <3> QED
      BY <1>3, <3>1
  <2> QED
    BY <1>5, <2>1, <2>2 DEF LastComing
<1>6. ASSUME NEW s, ~Coming(ev.iface)', LastComing(ev.iface, s)
      PROVE  ev.state = s
  <2>0. \A m \in 1..Len(adjEventCh') : adjEventCh'[m].iface # ev.iface
    BY <1>6 DEF Coming
  <2>1. \A m \in 1+1..Len(adjEventCh) : adjEventCh[m].iface # ev.iface
    BY <1>3, <2>0
  <2>2. 1 \in 1..Len(adjEventCh) /\ adjEventCh[1] = ev
    BY <1>1
  <2> QED
    BY <1>6, <2>1, <2>2 DEF LastComing
<1> QED
  BY <1>1, <1>2, <1>4, <1>5, <1>6

\* The engine will go by the last change it is sent.
LEMMA ChangeSent ==
    ASSUME adjChangeCh \in Seq(AdjChange), NEW j \in Ifaces, NEW b \in BOOLEAN,
           adjChangeCh' = Append(adjChangeCh, [iface |-> j, up |-> b]),
           UNCHANGED adjacencies
    PROVE  /\ Told(j)' <=> b
           /\ \A i : i # j => (Told(i)' <=> Told(i))
<1>1. /\ Len(adjChangeCh) \in Nat /\ Len(adjChangeCh') = Len(adjChangeCh) + 1
      /\ adjChangeCh'[Len(adjChangeCh) + 1].iface = j
      /\ adjChangeCh'[Len(adjChangeCh) + 1].up = b
      /\ \A n \in 1..Len(adjChangeCh) : adjChangeCh'[n] = adjChangeCh[n]
  OBVIOUS
<1>2. b => Told(j)'
  BY <1>1 DEF Told
<1>3. Told(j)' => b
  BY <1>1 DEF Told
<1>4. ASSUME NEW i, i # j PROVE Told(i) => Told(i)'
  BY <1>1, <1>4 DEF Told
<1>5. ASSUME NEW i, i # j PROVE Told(i)' => Told(i)
  BY <1>1, <1>5 DEF Told
<1> QED
  BY <1>2, <1>3, <1>4, <1>5

\* That the engine takes a change does not alter what it will have been told.
LEMMA ChangeTaken ==
    ASSUME adjChangeCh \in Seq(AdjChange), adjChangeCh # <<>>,
           adjChangeCh' = Tail(adjChangeCh),
           adjacencies' = IF Head(adjChangeCh).up
                          THEN adjacencies \cup {Head(adjChangeCh).iface}
                          ELSE adjacencies \ {Head(adjChangeCh).iface}
    PROVE  \A i : Told(i)' <=> Told(i)
<1> DEFINE h == Head(adjChangeCh)
<1>1. /\ Len(adjChangeCh) \in Nat \ {0} /\ Len(adjChangeCh') = Len(adjChangeCh) - 1
      /\ h = adjChangeCh[1] /\ h \in AdjChange
      /\ \A n \in 1..Len(adjChangeCh) - 1 : adjChangeCh'[n] = adjChangeCh[n + 1]
  OBVIOUS
<1>2. \A i : i \in adjacencies' <=> IF i = h.iface THEN h.up ELSE i \in adjacencies
  BY <1>1 DEF AdjChange
<1> HIDE DEF h
<1>3. ASSUME NEW n \in 2..Len(adjChangeCh)
      PROVE  n - 1 \in 1..Len(adjChangeCh') /\ adjChangeCh'[n - 1] = adjChangeCh[n]
  BY <1>1
<1>4. ASSUME NEW i, Told(i) PROVE Told(i)'
  <2>1. CASE /\ i \in adjacencies
             /\ \A n \in 1..Len(adjChangeCh) : adjChangeCh[n].iface # i
    <3>1. i # h.iface /\ \A n \in 1..Len(adjChangeCh') : adjChangeCh'[n].iface # i
      BY <1>1, <2>1
    <3> QED
      BY <1>2, <2>1, <3>1 DEF Told
  <2>2. ASSUME NEW n \in 1..Len(adjChangeCh), adjChangeCh[n].iface = i, adjChangeCh[n].up,
               \A m \in n+1..Len(adjChangeCh) : adjChangeCh[m].iface # i
        PROVE  Told(i)'
    <3>1. \A m \in 1..Len(adjChangeCh') : m + 1 \in 1..Len(adjChangeCh)
                                          /\ adjChangeCh'[m] = adjChangeCh[m + 1]
      BY <1>1
    <3>2. CASE n = 1
      <4>1. \A m \in 1..Len(adjChangeCh') : adjChangeCh'[m].iface # i
        BY <2>2, <3>1, <3>2
      <4> QED
        BY <1>1, <1>2, <2>2, <3>2, <4>1 DEF Told
    <3>3. CASE n # 1
      <4>1. n - 1 \in 1..Len(adjChangeCh') /\ adjChangeCh'[n - 1] = adjChangeCh[n]
        BY <1>3, <3>3
      <4>2. \A m \in (n-1)+1..Len(adjChangeCh') : adjChangeCh'[m].iface # i
        BY <1>1, <2>2, <3>1
      <4> QED
        BY <2>2, <4>1, <4>2 DEF Told
    <3> QED
      BY <3>2, <3>3
  <2> QED
    BY <1>4, <2>1, <2>2 DEF Told
<1>5. ASSUME NEW i, Told(i)' PROVE Told(i)
  <2>1. CASE /\ i \in adjacencies'
             /\ \A n \in 1..Len(adjChangeCh') : adjChangeCh'[n].iface # i
    <3>1. \A m \in 2..Len(adjChangeCh) : adjChangeCh[m].iface # i
      BY <1>3, <2>1
    <3>2. CASE i = h.iface
      <4>1. adjChangeCh[1].iface = i /\ adjChangeCh[1].up /\ 1 \in 1..Len(adjChangeCh)
        BY <1>1, <1>2, <2>1, <3>2
      <4>2. \A m \in 1+1..Len(adjChangeCh) : adjChangeCh[m].iface # i
        BY <3>1
      <4> QED
        BY <4>1, <4>2 DEF Told
    <3>3. CASE i # h.iface
      <4>1. \A m \in 1..Len(adjChangeCh) : adjChangeCh[m].iface # i
        BY <1>1, <3>1, <3>3
      <4> QED
        BY <1>2, <2>1, <3>3, <4>1 DEF Told
    <3> QED
      BY <3>2, <3>3
  <2>2. ASSUME NEW n \in 1..Len(adjChangeCh'), adjChangeCh'[n].iface = i, adjChangeCh'[n].up,
               \A m \in n+1..Len(adjChangeCh') : adjChangeCh'[m].iface # i
        PROVE  Told(i)
    <3>1. n + 1 \in 1..Len(adjChangeCh) /\ adjChangeCh[n + 1] = adjChangeCh'[n]
      BY <1>1
    <3>2. ASSUME NEW m \in (n+1)+1..Len(adjChangeCh) PROVE adjChangeCh[m].iface # i
      <4>1. m \in 2..Len(adjChangeCh) /\ m - 1 \in n+1..Len(adjChangeCh')
        BY <1>1
      <4> QED
        BY <1>3, <2>2, <4>1
    <3> QED
      BY <2>2, <3>1, <3>2 DEF Told
  <2> QED
    BY <1>5, <2>1, <2>2 DEF Told
<1> QED
  BY <1>4, <1>5

-----------------------------------------------------------------------------
(* The actions *)

\* A step that leaves interfaces, instances, loops, sockets, channels and the
\* place of the event loop alone.
LEMMA QuietStep ==
    ASSUME Inv, Typed', SameLies, SameLoop, used'.sockets = used.sockets,
           UNCHANGED <<interfaces, floodConn, closed, recvLoops, adjEventCh, adjChangeCh,
                       adjacencies>>
    PROVE  Inv'
<1>1. Running' = Running
  BY DEF Running
<1>2. Instances' /\ Loops' /\ Sockets' /\ Unheard' /\ Follows'
  BY <1>1, KeepInstances, KeepLoops, KeepSockets, KeepUnheard, KeepFollows
<1> QED
  BY <1>2 DEF Inv

\* The event loop starts the next interface, or is done with it.
LEMMA StartNextStep ==
    ASSUME Inv, StartNext
    PROVE  Inv'
<1>1. Typed /\ ~Handling /\ loop.pc = "start"
  BY DEF Inv, StartNext, Handling
<1>2. loop \in [pc : {"start"}, todo : SUBSET Ifaces]
  BY <1>1, NotHandling DEF Select
<1>3. CASE loop.todo = {}
  <2>1. loop' = Select /\ UNCHANGED <<interfaces, lie, floodConn>>
    BY <1>3 DEF StartNext
  <2>2. ~Handling'
    BY <2>1 DEF Handling, Select
  <2>3. Typed'
    BY <1>1, <2>1 DEF Typed, StartNext, config, network, Select
  <2> QED
    BY <1>1, <2>1, <2>2, <2>3, QuietStep
    DEF SameLies, SameLoop, StartNext, config, network
<1>4. ASSUME NEW i \in loop.todo, startInterfaceLocked(i),
             loop' = [loop EXCEPT !.todo = @ \ {i}]
      PROVE  Inv'
  <2>1. i \in Ifaces /\ loop' \in [pc : {"start"}, todo : SUBSET Ifaces]
    BY <1>2, <1>4
  <2>2. ~Handling'
    BY <2>1 DEF Handling
  <2>3. UNCHANGED <<closed, recvLoops, adjEventCh, adjChangeCh, adjacencies, used>>
    BY DEF StartNext, network
  <2>4. /\ interfaces' \in [Ifaces -> {None} \cup InterfaceState]
        /\ lie' \in Seq(LieGoroutine)
        /\ floodConn' \in Seq({None} \cup Nat) /\ Len(floodConn') = Len(lie')
        /\ Instances' /\ Loops' /\ Sockets' /\ Unheard' /\ Follows'
    BY <1>1, <1>4, <2>1, <2>2, <2>3, StartStep
  <2>5. Typed'
    BY <1>1, <2>1, <2>3, <2>4 DEF Typed, StartNext, config, network
  <2> QED
    BY <2>4, <2>5 DEF Inv
<1> QED
  BY <1>3, <1>4 DEF StartNext

\* An interface goes up or down.
LEMMA InterfaceEventStep ==
    ASSUME Inv, NEW i \in Ifaces, NEW up \in BOOLEAN, handleInterfaceEvent(i, up)
    PROVE  Inv'
<1>1. /\ Typed /\ ~Handling /\ ~Handling' /\ UNCHANGED <<cfg, pendingCfg, loop, used>>
      /\ UNCHANGED <<adjEventCh, adjChangeCh, adjacencies, floodSendCh>>
  BY DEF Inv, handleInterfaceEvent, InSelect, Select, Handling, config, network
<1>2. CASE startInterfaceLocked(i) /\ UNCHANGED <<closed, recvLoops>>
  <2>1. /\ interfaces' \in [Ifaces -> {None} \cup InterfaceState]
        /\ lie' \in Seq(LieGoroutine)
        /\ floodConn' \in Seq({None} \cup Nat) /\ Len(floodConn') = Len(lie')
        /\ Instances' /\ Loops' /\ Sockets' /\ Unheard' /\ Follows'
    BY <1>1, <1>2, StartStep
  <2>2. Typed'
    BY <1>1, <1>2, <2>1 DEF Typed
  <2> QED
    BY <2>1, <2>2 DEF Inv
<1>3. CASE i \in Running /\ stopInterfaceLocked({i}) /\ UNCHANGED floodConn
  <2>1. /\ interfaces' \in [Ifaces -> {None} \cup InterfaceState]
        /\ lie' \in Seq(LieGoroutine) /\ Len(lie') = Len(lie)
        /\ recvLoops' \in Seq(RecvLoop)
        /\ Instances' /\ Loops' /\ Sockets' /\ Unheard' /\ Follows'
    BY <1>1, <1>3, StopStep
  <2>2. Typed'
    BY <1>1, <1>3, <2>1 DEF Typed
  <2> QED
    BY <2>1, <2>2 DEF Inv
<1> QED
  BY <1>2, <1>3 DEF handleInterfaceEvent

\* Configuration events only collect.
LEMMA ConfigStep ==
    ASSUME Inv, ConfigRift \/ \E i \in Ifaces : ConfigInterface(i)
    PROVE  Inv'
<1>1. /\ UNCHANGED <<interfaces, lie, floodConn, closed, recvLoops, adjEventCh,
                     adjChangeCh, adjacencies, floodSendCh, loop>>
      /\ used' = [used EXCEPT !.configs = @ + 1]
      /\ cfg' = cfg \/ \E i \in Ifaces : cfg' = cfg \cup {i}
      /\ \/ pendingCfg' = {} \/ pendingCfg' = pendingCfg
         \/ pendingCfg # None /\ \E i \in Ifaces : pendingCfg' = pendingCfg \cup {i}
  BY DEF ConfigRift, ConfigInterface, network
<1>2. used \in Used /\ Typed
  BY DEF Inv, Typed
<1>3. used' \in Used /\ used'.sockets = used.sockets
  BY <1>1, <1>2 DEF Used
<1>4. cfg' \subseteq Ifaces /\ (pendingCfg' = None \/ pendingCfg' \subseteq Ifaces)
  BY <1>1, <1>2 DEF Typed
<1>5. Typed'
  BY <1>1, <1>2, <1>3, <1>4 DEF Typed
<1> QED
  BY <1>1, <1>3, <1>5, QuietStep DEF SameLies, SameLoop

\* The end of a commit stops the interfaces that are configured no longer.
LEMMA CommitEndStep ==
    ASSUME Inv, CommitEnd
    PROVE  Inv'
<1>1. /\ Typed /\ ~Handling /\ cfg' \subseteq Ifaces /\ pendingCfg' = None
      /\ UNCHANGED <<floodConn, adjEventCh, adjChangeCh, adjacencies, floodSendCh, used>>
  BY DEF Inv, CommitEnd, InSelect, Select, Handling, network, Typed
<1>2. CASE UNCHANGED <<interfaces, lie, closed, recvLoops, loop>>
  <2>1. Typed'
    BY <1>1, <1>2 DEF Typed
  <2> QED
    BY <1>1, <1>2, <2>1, QuietStep DEF SameLies, SameLoop
<1>3. CASE /\ stopInterfaceLocked(Running \ cfg')
           /\ loop' = [pc |-> "start", todo |-> cfg' \ Running]
  <2>1. ~Handling' /\ loop' \in [pc : {"start"}, todo : SUBSET Ifaces]
    BY <1>1, <1>3 DEF Handling
  <2>2. /\ interfaces' \in [Ifaces -> {None} \cup InterfaceState]
        /\ lie' \in Seq(LieGoroutine) /\ Len(lie') = Len(lie)
        /\ recvLoops' \in Seq(RecvLoop)
        /\ Instances' /\ Loops' /\ Sockets' /\ Unheard' /\ Follows'
    BY <1>1, <1>3, <2>1, StopStep
  <2>3. Typed'
    BY <1>1, <1>3, <2>1, <2>2 DEF Typed
  <2> QED
    BY <2>2, <2>3 DEF Inv
<1> QED
  BY <1>2, <1>3 DEF CommitEnd

\* An FSM changes its state, and its event is the last that is on its way.
LEMMA LieChangesStep ==
    ASSUME Inv, NEW k \in 1..Len(lie), NEW s \in LieState, LieChanges(k, s)
    PROVE  Inv'
<1> DEFINE ev == [iface |-> lie[k].iface, state |-> s, inst |-> k]
<1>1. /\ Typed /\ lie \in Seq(LieGoroutine) /\ adjEventCh \in Seq(AdjEvent)
      /\ used \in Used /\ AdjEventCap \in Nat /\ Len(adjEventCh) \in Nat
  BY AgentConstants DEF Inv, Typed
<1>2. /\ lie' = [lie EXCEPT ![k].state = s] /\ adjEventCh' = Append(adjEventCh, ev)
      /\ Len(adjEventCh) < AdjEventCap /\ used' = [used EXCEPT !.changes = @ + 1]
      /\ UNCHANGED <<cfg, pendingCfg, interfaces, floodConn, closed, recvLoops,
                     adjChangeCh, adjacencies, floodSendCh, loop>>
  BY DEF LieChanges, config, network
<1>a. lie[k] \in LieGoroutine
  BY <1>1
<1>3. /\ lie[k].iface \in Ifaces
      /\ [lie[k] EXCEPT !.state = s] \in LieGoroutine
      /\ [lie[k] EXCEPT !.state = s].iface = lie[k].iface
      /\ [lie[k] EXCEPT !.state = s].state = s
  BY <1>a DEF LieGoroutine
<1>4. lie' = [lie EXCEPT ![k] = [lie[k] EXCEPT !.state = s]]
  BY <1>1, <1>2
<1>5. /\ lie' \in Seq(LieGoroutine) /\ Len(lie') = Len(lie) /\ lie'[k].state = s
      /\ \A j \in 1..Len(lie) : lie'[j].iface = lie[j].iface
      /\ \A j \in 1..Len(lie) : j # k => lie'[j] = lie[j]
  BY <1>1, <1>3, <1>4
<1>6. /\ ev \in AdjEvent /\ ev.iface = lie[k].iface /\ ev.state = s
      /\ adjEventCh' \in Seq(AdjEvent) /\ Len(adjEventCh') = Len(adjEventCh) + 1
  BY <1>1, <1>2, <1>3 DEF AdjEvent
<1>7. used' \in Used /\ used'.sockets = used.sockets
  <2>1. used \in Used /\ used' = [used EXCEPT !.changes = @ + 1]
    BY <1>1, <1>2
  <2> QED
    BY <2>1 DEF Used
<1> HIDE DEF ev
<1>8. Typed'
  BY <1>1, <1>2, <1>5, <1>6, <1>7 DEF Typed
<1>9. Instances'
  BY <1>2, <1>5 DEF Inv, Instances, Running, Handling
<1>10. Loops' /\ Sockets'
  BY <1>2, <1>7, KeepLoops, KeepSockets DEF SameLoop
<1>11. PICK i \in Ifaces : i = lie[k].iface
  BY <1>3
<1>12. /\ Coming(i)' /\ LastComing(i, s)'
       /\ \A j : j # i => /\ Coming(j)' <=> Coming(j)
                          /\ \A t : LastComing(j, t) => LastComing(j, t)'
  <2>1. PICK e \in AdjEvent : e = ev
    BY <1>6
  <2>2. /\ Coming(e.iface)' /\ LastComing(e.iface, e.state)'
        /\ \A j : j # e.iface => /\ Coming(j)' <=> Coming(j)
                                 /\ \A t : LastComing(j, t) => LastComing(j, t)'
    BY <1>1, <1>2, <2>1, EventSent
  <2> QED
    BY <1>6, <1>11, <2>1, <2>2
<1>13. \A j : Told(j)' = Told(j) /\ \A pcs : At(j, pcs)' = At(j, pcs)
  BY <1>2 DEF Told, At
<1>14. Unheard'
  <2> SUFFICES ASSUME NEW j \in Ifaces, \A n \in 1..Len(lie') : lie'[n].iface # j
               PROVE  ~Coming(j)' /\ ~Told(j)'
    BY DEF Unheard
  <2>1. j # i /\ \A n \in 1..Len(lie) : lie[n].iface # j
    BY <1>5, <1>11
  <2> QED
    BY <1>12, <1>13, <2>1 DEF Inv, Unheard
<1>15. Follows'
  <2> SUFFICES ASSUME NEW j \in Running', Only(j, interfaces[j].inst)'
               PROVE  FollowsOne(j, lie[interfaces[j].inst].state,
                                 floodConn[interfaces[j].inst] # None)'
    BY DEF Follows
  <2>1. /\ j \in Running /\ interfaces' = interfaces /\ floodConn' = floodConn
        /\ interfaces[j].inst \in 1..Len(lie) /\ lie[interfaces[j].inst].iface = j
    BY <1>2 DEF Running, Inv, Instances
  <2>2. Only(j, interfaces[j].inst)
    BY <1>5, <2>1 DEF Only
  <2>3. FollowsOne(j, lie[interfaces[j].inst].state, floodConn[interfaces[j].inst] # None)
    BY <2>1, <2>2 DEF Inv, Follows
  <2>4. CASE j = i
    <3>1. interfaces[j].inst = k
      BY <1>11, <2>2, <2>4 DEF Only
    <3> QED
      BY <1>5, <1>12, <1>13, <2>1, <2>3, <2>4, <3>1 DEF FollowsOne
  <2>5. CASE j # i
    <3>1. lie'[interfaces[j].inst] = lie[interfaces[j].inst]
      BY <1>5, <1>11, <2>1, <2>5
    <3> QED
      BY <1>12, <1>13, <2>1, <2>3, <2>5, <3>1 DEF FollowsOne
  <2> QED
    BY <2>4, <2>5
<1> QED
  BY <1>8, <1>9, <1>10, <1>14, <1>15 DEF Inv

\* A cancelled goroutine exits.
LEMMA LieExitsStep ==
    ASSUME Inv, NEW k \in 1..Len(lie), LieExits(k)
    PROVE  Inv'
<1>1. /\ Typed /\ lie \in Seq(LieGoroutine) /\ lie' = [lie EXCEPT ![k].exited = TRUE]
      /\ UNCHANGED <<cfg, pendingCfg, interfaces, floodConn, closed, recvLoops, adjEventCh,
                     adjChangeCh, adjacencies, floodSendCh, loop, used>>
  BY DEF Inv, Typed, LieExits, config, network
<1>a. lie[k] \in LieGoroutine
  BY <1>1
<1>2. /\ [lie[k] EXCEPT !.exited = TRUE] \in LieGoroutine
      /\ [lie[k] EXCEPT !.exited = TRUE].iface = lie[k].iface
      /\ [lie[k] EXCEPT !.exited = TRUE].state = lie[k].state
  BY <1>a DEF LieGoroutine
<1>3. lie' = [lie EXCEPT ![k] = [lie[k] EXCEPT !.exited = TRUE]]
  BY <1>1
<1>4. lie' \in Seq(LieGoroutine) /\ SameLies
  BY <1>1, <1>2, <1>3 DEF SameLies
<1>5. Typed'
  BY <1>1, <1>4 DEF Typed, SameLies
<1> QED
  BY <1>1, <1>4, <1>5, QuietStep DEF SameLoop

\* The engine takes a change.
LEMMA EngineAdjChangeStep ==
    ASSUME Inv, EngineAdjChange
    PROVE  Inv'
<1>1. /\ Typed /\ adjChangeCh \in Seq(AdjChange) /\ adjacencies \subseteq Ifaces
      /\ AdjChangeCap \in Nat /\ Len(adjChangeCh) <= AdjChangeCap
  BY AgentConstants DEF Inv, Typed
<1>2. /\ adjChangeCh # <<>> /\ adjChangeCh' = Tail(adjChangeCh)
      /\ adjacencies' = IF Head(adjChangeCh).up
                        THEN adjacencies \cup {Head(adjChangeCh).iface}
                        ELSE adjacencies \ {Head(adjChangeCh).iface}
      /\ UNCHANGED <<cfg, pendingCfg, interfaces, lie, floodConn, closed, recvLoops,
                     adjEventCh, floodSendCh, loop, used>>
  BY DEF EngineAdjChange, config
<1>3. \A i : Told(i)' <=> Told(i)
  BY <1>1, <1>2, ChangeTaken
<1>a. Head(adjChangeCh) \in AdjChange
  BY <1>1, <1>2
<1>4. Head(adjChangeCh).iface \in Ifaces
  BY <1>a DEF AdjChange
<1>5. /\ adjChangeCh' \in Seq(AdjChange) /\ Len(adjChangeCh') <= AdjChangeCap
      /\ adjacencies' \subseteq Ifaces
  BY <1>1, <1>2, <1>4
<1>6. Typed'
  BY <1>1, <1>2, <1>5 DEF Typed
<1>7. Instances' /\ Loops' /\ Sockets'
  BY <1>2, KeepInstances, KeepLoops, KeepSockets DEF SameLies, SameLoop
<1>8. \A i, s, pcs : /\ Coming(i)' = Coming(i) /\ LastComing(i, s)' = LastComing(i, s)
                     /\ At(i, pcs)' = At(i, pcs)
  BY <1>2 DEF Coming, LastComing, At
<1>9. Unheard'
  BY <1>2, <1>3, <1>8 DEF Inv, Unheard
<1>10. Follows'
  BY <1>2, <1>3, <1>8 DEF Inv, Follows, FollowsOne, Running, Only
<1> QED
  BY <1>6, <1>7, <1>9, <1>10 DEF Inv

\* Sending packets touches neither interfaces nor sockets.
LEMMA SenderStep ==
    ASSUME Inv, \/ SenderWrites \/ \E i \in Ifaces : EngineSends(i) \/ SenderChecks(i)
    PROVE  Inv'
<1>1. /\ UNCHANGED <<cfg, pendingCfg, interfaces, lie, floodConn, closed, recvLoops,
                     adjEventCh, adjChangeCh, adjacencies, loop, used>>
      /\ \/ floodSendCh' = floodSendCh
         \/ \E i \in Ifaces : \/ floodSendCh' = floodSendCh \cup {i}
                              \/ floodSendCh' = floodSendCh \ {i}
  BY DEF SenderWrites, EngineSends, SenderChecks, config
<1>2. Typed'
  BY <1>1 DEF Inv, Typed
<1> QED
  BY <1>1, <1>2, QuietStep DEF SameLies, SameLoop

\* A receive loop gives up only once it is cancelled: as long as it is not, the
\* socket of its instance is open.
LEMMA RecvStep ==
    ASSUME Inv, NEW k \in 1..Len(recvLoops), RecvLoopStep(k) \/ RecvPacket(k)
    PROVE  Inv'
<1> DEFINE r == recvLoops[k]
<1>1. /\ Typed /\ recvLoops \in Seq(RecvLoop) /\ floodConn \in Seq({None} \cup Nat)
      /\ Len(floodConn) = Len(lie)
  BY DEF Inv, Typed
<1>2. UNCHANGED <<cfg, pendingCfg, interfaces, lie, floodConn, closed, adjEventCh,
                  adjChangeCh, adjacencies, floodSendCh, loop, used>>
  BY DEF RecvLoopStep, RecvPacket, config, network
<1>3. r \in RecvLoop /\ r.inst \in 1..Len(lie) /\ floodConn[r.inst] \in {None} \cup Nat
  BY <1>1 DEF Inv, Instances
<1>4. ~r.cancelled => floodConn[r.inst] # None
  <2>1. Loops
    BY DEF Inv
  <2>2. SUFFICES ASSUME ~r.cancelled PROVE floodConn[r.inst] # None
    OBVIOUS
  <2>3. PICK i \in Running : interfaces[i].floodCancel = k
    BY <2>1, <2>2 DEF Loops
  <2>4. k \in Nat
    BY <1>1
  <2>5. None \notin Nat
    BY AgentConstants
  <2>6. recvLoops[k].inst = interfaces[i].inst /\ floodConn[interfaces[i].inst] # None
    BY <2>1, <2>3, <2>4, <2>5, Zenon DEF Loops
  <2> QED
    BY <2>6
<1>5. PICK pc \in {"start", "check", "call", "read", "exited"},
           conn \in {None} \cup Nat :
        /\ recvLoops' = [recvLoops EXCEPT ![k] = [r EXCEPT !.pc = pc, !.conn = conn]]
        /\ ~r.cancelled => pc # "exited"
  <2>1. r.conn \in {None} \cup Nat /\ r = [r EXCEPT !.conn = r.conn]
    BY <1>3 DEF RecvLoop
  <2>2. CASE RecvPacket(k)
    <3>1. PICK pc \in {"check"} \cup (IF r.cancelled THEN {"exited"} ELSE {}) :
            recvLoops' = [recvLoops EXCEPT ![k].pc = pc]
      BY <2>2 DEF RecvPacket
    <3>2. recvLoops' = [recvLoops EXCEPT ![k] = [r EXCEPT !.pc = pc, !.conn = r.conn]]
      BY <1>1, <1>3, <3>1 DEF RecvLoop
    <3> QED
      BY <2>1, <3>1, <3>2
  <2>3. CASE RecvLoopStep(k)
    <3>1. ASSUME NEW pc, recvLoops' = [recvLoops EXCEPT ![k].pc = pc]
          PROVE  recvLoops' = [recvLoops EXCEPT ![k] = [r EXCEPT !.pc = pc, !.conn = r.conn]]
      BY <1>1, <1>3, <3>1 DEF RecvLoop
    <3>2. \/ \E pc \in {"check", "call", "exited"} :
               /\ recvLoops' = [recvLoops EXCEPT ![k].pc = pc]
               /\ ~r.cancelled => pc # "exited"
          \/ recvLoops' = [recvLoops EXCEPT ![k].pc = "read", ![k].conn = floodConn[r.inst]]
      BY <1>4, <2>3 DEF RecvLoopStep
    <3>3. CASE recvLoops' = [recvLoops EXCEPT ![k].pc = "read", ![k].conn = floodConn[r.inst]]
      <4>1. recvLoops' = [recvLoops EXCEPT ![k] =
                            [r EXCEPT !.pc = "read", !.conn = floodConn[r.inst]]]
        BY <1>1, <1>3, <3>3
      <4> QED
        BY <1>3, <4>1
    <3>4. ASSUME NEW pc \in {"check", "call", "exited"}, ~r.cancelled => pc # "exited",
                 recvLoops' = [recvLoops EXCEPT ![k].pc = pc]
          PROVE  recvLoops' = [recvLoops EXCEPT ![k] = [r EXCEPT !.pc = pc, !.conn = r.conn]]
      BY <3>1, <3>4
    <3> HIDE DEF r
    <3> QED
      BY <2>1, <3>2, <3>3, <3>4
  <2> QED
    BY <2>2, <2>3
<1> DEFINE new == [r EXCEPT !.pc = pc, !.conn = conn]
<1>6. /\ new \in RecvLoop /\ new.inst = r.inst /\ new.cancelled = r.cancelled
      /\ new.pc = pc
  BY <1>3 DEF RecvLoop
<1> HIDE DEF new, r
<1>7. /\ recvLoops' \in Seq(RecvLoop) /\ Len(recvLoops') = Len(recvLoops)
      /\ recvLoops'[k] = new
      /\ \A m \in 1..Len(recvLoops) : m # k => recvLoops'[m] = recvLoops[m]
  BY <1>1, <1>5, <1>6 DEF new
<1>8. \A m \in 1..Len(recvLoops) :
        /\ recvLoops'[m].inst = recvLoops[m].inst
        /\ recvLoops'[m].cancelled = recvLoops[m].cancelled
        /\ ~recvLoops[m].cancelled => recvLoops'[m].pc # "exited"
  BY <1>5, <1>6, <1>7 DEF r, Inv, Loops
<1>9. Typed'
  BY <1>1, <1>2, <1>7 DEF Typed
<1>10. Instances'
  BY <1>2, <1>7, <1>8 DEF Inv, Instances, Running, Handling
<1>11. Loops'
  BY <1>2, <1>7, <1>8 DEF Inv, Loops, Running
<1>12. Sockets' /\ Unheard' /\ Follows'
  BY <1>2, KeepSockets, KeepUnheard, KeepFollows DEF SameLies, SameLoop, Running
<1> QED
  BY <1>9, <1>10, <1>11, <1>12 DEF Inv

\* What the invariant says of the handler's interface, which runs throughout.
LEMMA HandlerFacts ==
    ASSUME Inv, Handling
    PROVE  /\ loop \in [pc : {"up", "down", "cancel", "close"}, iface : Ifaces]
           /\ loop.iface \in Running /\ interfaces[loop.iface] \in InterfaceState
           /\ interfaces[loop.iface].inst \in 1..Len(lie)
           /\ \A j \in Running : interfaces[j].inst = interfaces[loop.iface].inst
                                   => j = loop.iface
<1>1. loop \in [pc : {"up", "down", "cancel", "close"}, iface : Ifaces]
  BY DEF Inv, Typed, Handling, Select
<1>2. /\ loop.iface \in Running /\ interfaces[loop.iface].inst \in 1..Len(lie)
      /\ \A j \in Running : lie[interfaces[j].inst].iface = j
  BY DEF Inv, Instances
<1>3. interfaces[loop.iface] \in InterfaceState
  BY <1>2 DEF Inv, Typed, Running
<1> QED
  BY <1>1, <1>2, <1>3

\* The engine is told, and the handler goes on.
LEMMA SendAdjChangeStep ==
    ASSUME Inv, SendAdjChange
    PROVE  Inv'
<1>1. Typed /\ Handling /\ loop.pc \in {"up", "down"}
  BY DEF Inv, SendAdjChange, Handling
<1>2. /\ adjChangeCh' = Append(adjChangeCh, [iface |-> loop.iface, up |-> loop.pc = "up"])
      /\ Len(adjChangeCh) < AdjChangeCap
      /\ loop' = IF loop.pc = "up" THEN Select ELSE [loop EXCEPT !.pc = "cancel"]
      /\ UNCHANGED <<cfg, pendingCfg, interfaces, lie, floodConn, closed, recvLoops,
                     adjEventCh, adjacencies, floodSendCh, used>>
  BY DEF SendAdjChange, config, network
<1>3. PICK i \in Ifaces, up \in BOOLEAN : i = loop.iface /\ up = (loop.pc = "up")
  BY <1>1, HandlerFacts
<1>4. /\ i \in Running /\ adjChangeCh \in Seq(AdjChange)
      /\ AdjChangeCap \in Nat /\ Len(adjChangeCh) \in Nat
  BY <1>1, <1>3, HandlerFacts, AgentConstants DEF Typed
<1>5. (Told(i)' <=> up) /\ \A j : j # i => (Told(j)' <=> Told(j))
  BY <1>2, <1>3, <1>4, ChangeSent
<1>6. /\ adjChangeCh' \in Seq(AdjChange) /\ Len(adjChangeCh') <= AdjChangeCap
  <2>1. [iface |-> i, up |-> up] \in AdjChange
    BY DEF AdjChange
  <2> QED
    BY <1>2, <1>3, <1>4, <2>1
<1>7. /\ up => loop' = Select
      /\ ~up => /\ loop' \in [pc : {"up", "down", "cancel", "close"}, iface : Ifaces]
                /\ loop'.pc = "cancel" /\ loop'.iface = i
  BY <1>1, <1>2, <1>3, HandlerFacts
<1>8. Typed'
  BY <1>1, <1>2, <1>6, <1>7 DEF Typed
<1>9. Instances'
  BY <1>2, <1>4, <1>7 DEF Inv, Instances, Running, Handling, Select
<1>10. Loops'
  <2>1. loop'.pc # "close"
    BY <1>7 DEF Select
  <2> QED
    BY <1>2, <2>1 DEF Inv, Loops, Running
<1>11. Sockets'
  BY <1>2, KeepSockets
<1>12. /\ \A j, s : Coming(j)' = Coming(j) /\ LastComing(j, s)' = LastComing(j, s)
  BY <1>2 DEF Coming, LastComing
<1>13. Unheard'
  <2> SUFFICES ASSUME NEW j \in Ifaces, \A n \in 1..Len(lie) : lie[n].iface # j
               PROVE  ~Coming(j)' /\ ~Told(j)'
    BY <1>2 DEF Unheard
  <2>1. j # i
    BY <1>4 DEF Inv, Instances
  <2> QED
    BY <1>5, <1>12, <2>1 DEF Inv, Unheard
<1>14. Follows'
  <2> SUFFICES ASSUME NEW j \in Running', Only(j, interfaces[j].inst)'
               PROVE  FollowsOne(j, lie[interfaces[j].inst].state,
                                 floodConn[interfaces[j].inst] # None)'
    BY DEF Follows
  <2>1. j \in Running /\ Only(j, interfaces[j].inst)
    BY <1>2 DEF Running, Only
  <2>2. FollowsOne(j, lie[interfaces[j].inst].state, floodConn[interfaces[j].inst] # None)
    BY <2>1 DEF Inv, Follows
  <2>3. CASE j # i
    <3>1. \A pcs \in SUBSET {"up", "down", "cancel", "close"} : ~At(j, pcs) /\ ~At(j, pcs)'
      BY <1>3, <1>7, <2>3 DEF At, Select
    <3>2. \A pcs \in {{"up"}, {"cancel", "close"}, {"down", "cancel", "close"}} :
            ~At(j, pcs) /\ ~At(j, pcs)'
      BY <3>1
    <3> QED
      BY <1>2, <1>5, <1>12, <2>2, <2>3, <3>2 DEF FollowsOne
  <2>4. CASE j = i /\ up
    <3>1. /\ At(i, {"up"}) /\ ~At(i, {"cancel", "close"})
          /\ ~At(i, {"down", "cancel", "close"})
      BY <1>3, <2>4 DEF At
    <3>2. /\ ~At(i, {"up"})' /\ ~At(i, {"cancel", "close"})'
      BY <1>7, <2>4 DEF At, Select
    <3> QED
      BY <1>2, <1>5, <1>12, <2>2, <2>4, <3>1, <3>2 DEF FollowsOne
  <2>5. CASE j = i /\ ~up
    <3>1. /\ ~At(i, {"up"})' /\ At(i, {"cancel", "close"})'
          /\ At(i, {"down", "cancel", "close"})'
      BY <1>7, <2>5 DEF At
    <3> QED
      BY <1>2, <1>5, <1>12, <2>2, <2>5, <3>1 DEF FollowsOne
  <2> QED
    BY <2>3, <2>4, <2>5
<1> QED
  BY <1>8, <1>9, <1>10, <1>11, <1>13, <1>14 DEF Inv

\* The receive loop of the handler's interface is cancelled, and no other.
LEMMA CancelRecvLoopStep ==
    ASSUME Inv, CancelRecvLoop
    PROVE  Inv'
<1>1. Typed /\ Handling /\ loop.pc = "cancel"
  BY DEF Inv, CancelRecvLoop, Handling
<1>2. PICK i \in Ifaces : i = loop.iface
  BY <1>1, HandlerFacts
<1>3. PICK k \in {None} \cup Nat : k = interfaces[i].floodCancel
  BY <1>1, <1>2, HandlerFacts DEF InterfaceState
<1>4. /\ recvLoops' = IF k = None THEN recvLoops
                      ELSE [recvLoops EXCEPT ![k].cancelled = TRUE]
      /\ interfaces' = [interfaces EXCEPT ![i].floodCancel = None]
      /\ loop' = [loop EXCEPT !.pc = "close"]
      /\ UNCHANGED <<cfg, pendingCfg, lie, floodConn, closed, adjEventCh, adjChangeCh,
                     adjacencies, floodSendCh, used>>
  BY <1>2, <1>3 DEF CancelRecvLoop, config, network
<1>5. /\ interfaces \in [Ifaces -> {None} \cup InterfaceState]
      /\ recvLoops \in Seq(RecvLoop) /\ i \in Running
      /\ interfaces[i] \in InterfaceState
  BY <1>1, <1>2, HandlerFacts DEF Typed
<1>6. /\ loop' \in [pc : {"up", "down", "cancel", "close"}, iface : Ifaces]
      /\ loop'.pc = "close" /\ loop'.iface = i
  BY <1>1, <1>2, <1>4, HandlerFacts
<1> DEFINE f == [interfaces[i] EXCEPT !.floodCancel = None]
<1>7. f \in InterfaceState /\ f # None /\ f.inst = interfaces[i].inst /\ f.floodCancel = None
  BY <1>5, AgentConstants DEF InterfaceState
<1>8. /\ interfaces' \in [Ifaces -> {None} \cup InterfaceState]
      /\ interfaces'[i] = f /\ \A j \in Ifaces : j # i => interfaces'[j] = interfaces[j]
  BY <1>4, <1>5, <1>7
<1> HIDE DEF f
<1>9. Running' = Running /\ \A j \in Running : interfaces'[j].inst = interfaces[j].inst
  BY <1>5, <1>7, <1>8 DEF Running
<1>10. /\ recvLoops' \in Seq(RecvLoop) /\ Len(recvLoops') = Len(recvLoops)
       /\ \A m \in 1..Len(recvLoops) :
            /\ recvLoops'[m].inst = recvLoops[m].inst /\ recvLoops'[m].pc = recvLoops[m].pc
            /\ recvLoops'[m].cancelled <=> recvLoops[m].cancelled \/ m = k
  <2>1. CASE k = None
    BY <1>4, <1>5, <2>1, AgentConstants
  <2>2. CASE k # None
    <3>1. k \in 1..Len(recvLoops)
      BY <1>3, <1>5, <2>2 DEF Inv, Loops
    <3> DEFINE new == [recvLoops[k] EXCEPT !.cancelled = TRUE]
    <3>2. recvLoops[k] \in RecvLoop
      BY <1>5, <3>1
    <3>3. /\ new \in RecvLoop /\ new.cancelled = TRUE
          /\ new.inst = recvLoops[k].inst /\ new.pc = recvLoops[k].pc
      BY <3>2 DEF RecvLoop
    <3>4. recvLoops' = [recvLoops EXCEPT ![k] = new]
      BY <1>4, <1>5, <2>2
    <3> HIDE DEF new
    <3> QED
      BY <1>5, <3>1, <3>3, <3>4
  <2> QED
    BY <2>1, <2>2
<1>11. Typed'
  BY <1>1, <1>4, <1>6, <1>8, <1>10 DEF Typed
<1>12. Instances'
  BY <1>4, <1>5, <1>6, <1>9, <1>10 DEF Inv, Instances
<1>13. Loops'
  <2>1. ASSUME NEW j \in Running, j # i, interfaces[j].floodCancel # None
        PROVE  interfaces[j].floodCancel # k
    <3> SUFFICES ASSUME interfaces[j].floodCancel = k PROVE FALSE
      OBVIOUS
    <3>1. interfaces[j].inst = interfaces[i].inst
      BY <1>3, <1>5, <2>1 DEF Inv, Loops
    <3> QED
      BY <1>1, <1>2, <2>1, <3>1, HandlerFacts
  <2>2. ASSUME NEW j \in Running', interfaces'[j].floodCancel # None
        PROVE  /\ interfaces'[j].floodCancel \in 1..Len(recvLoops')
               /\ recvLoops'[interfaces'[j].floodCancel].inst = interfaces'[j].inst
               /\ ~recvLoops'[interfaces'[j].floodCancel].cancelled
               /\ floodConn'[interfaces'[j].inst] # None
    <3>1. j \in Running /\ j # i /\ interfaces'[j] = interfaces[j]
      BY <1>7, <1>8, <1>9, <2>2 DEF Running
    <3> QED
      BY <1>4, <1>10, <2>1, <2>2, <3>1 DEF Inv, Loops
  <2>3. ASSUME NEW m \in 1..Len(recvLoops'), ~recvLoops'[m].cancelled
        PROVE  /\ \E j \in Running' : interfaces'[j].floodCancel = m
               /\ recvLoops'[m].pc # "exited"
    <3>1. m \in 1..Len(recvLoops) /\ ~recvLoops[m].cancelled /\ m # k
      BY <1>10, <2>3
    <3>2. PICK j \in Running : interfaces[j].floodCancel = m
      BY <3>1 DEF Inv, Loops
    <3>3. j # i
      BY <1>3, <3>1, <3>2
    <3> QED
      BY <1>8, <1>9, <1>10, <3>1, <3>2, <3>3 DEF Inv, Loops, Running
  <2> QED
    BY <1>6, <1>7, <1>8, <2>2, <2>3 DEF Loops
<1>14. Sockets'
  BY <1>4, <1>9 DEF Inv, Sockets, NoSocketLeak
<1>15. SameLies
  BY <1>4 DEF SameLies
<1>16. Unheard'
  BY <1>4, <1>15, KeepUnheard
<1>17. Follows'
  <2> SUFFICES ASSUME NEW j \in Running', Only(j, interfaces[j].inst)'
               PROVE  FollowsOne(j, lie[interfaces[j].inst].state,
                                 floodConn[interfaces[j].inst] # None)'
    BY DEF Follows
  <2>1. j \in Running /\ Only(j, interfaces[j].inst)
    BY <1>4, <1>9 DEF Only
  <2>2. FollowsOne(j, lie[interfaces[j].inst].state, floodConn[interfaces[j].inst] # None)
    BY <2>1 DEF Inv, Follows
  <2>3. \A pcs \in {{"up"}, {"cancel", "close"}, {"down", "cancel", "close"}} :
          At(j, pcs)' <=> At(j, pcs)
    BY <1>1, <1>2, <1>6 DEF At
  <2>4. \A s : /\ Coming(j)' = Coming(j) /\ Told(j)' = Told(j)
               /\ LastComing(j, s)' = LastComing(j, s)
    BY <1>4, KeepChannels
  <2> QED
    BY <1>4, <1>9, <2>1, <2>2, <2>3, <2>4 DEF FollowsOne
<1> QED
  BY <1>11, <1>12, <1>13, <1>14, <1>16, <1>17 DEF Inv

\* The socket of the handler's interface is closed and forgotten.
LEMMA CloseFloodSocketStep ==
    ASSUME Inv, CloseFloodSocket
    PROVE  Inv'
<1>1. Typed /\ Handling /\ loop.pc = "close"
  BY DEF Inv, CloseFloodSocket, Handling
<1>2. PICK i \in Ifaces : i = loop.iface
  BY <1>1, HandlerFacts
<1>3. PICK k \in 1..Len(lie) : k = interfaces[i].inst
  BY <1>1, <1>2, HandlerFacts
<1>4. /\ closed' = closed \cup ({floodConn[k]} \ {None})
      /\ floodConn' = [floodConn EXCEPT ![k] = None] /\ loop' = Select
      /\ UNCHANGED <<cfg, pendingCfg, interfaces, lie, recvLoops, adjEventCh, adjChangeCh,
                     adjacencies, floodSendCh, used>>
  BY <1>2, <1>3 DEF CloseFloodSocket, config, network
<1>5. /\ floodConn \in Seq({None} \cup Nat) /\ Len(floodConn) = Len(lie)
      /\ i \in Running /\ interfaces[i].floodCancel = None
      /\ \A j \in Running : j # i => interfaces[j].inst # k
      /\ \A j \in Running : interfaces[j].inst \in 1..Len(lie)
  BY <1>1, <1>2, <1>3, HandlerFacts DEF Inv, Typed, Loops, Instances
<1>6. /\ floodConn' \in Seq({None} \cup Nat) /\ Len(floodConn') = Len(lie)
      /\ floodConn'[k] = None
      /\ \A m \in 1..Len(lie) : m # k => floodConn'[m] = floodConn[m]
  BY <1>4, <1>5
<1>7. ~Handling' /\ loop'.pc = "select"
  BY <1>4 DEF Handling, Select
<1>8. Typed'
  BY <1>1, <1>4, <1>6 DEF Typed
<1>9. Instances'
  BY <1>4, <1>7 DEF Inv, Instances, Running
<1>10. Running' = Running
  BY <1>4 DEF Running
<1>11. Loops'
  BY <1>4, <1>5, <1>6, <1>7, <1>10 DEF Inv, Loops
<1>12. Sockets'
  <2>1. floodConn[k] \in {None} \cup 1..used.sockets
    BY <1>5 DEF Inv, Sockets
  <2>2. closed' \subseteq 1..used'.sockets
    BY <1>4, <2>1 DEF Inv, Sockets
  <2>3. \A m \in 1..Len(floodConn') : floodConn'[m] \in {None} \cup 1..used'.sockets
    BY <1>4, <1>5, <1>6 DEF Inv, Sockets
  <2>4. ASSUME NEW c \in 1..used.sockets, c \notin closed'
        PROVE  \E j \in Running' : floodConn'[interfaces'[j].inst] = c
    <3>1. PICK j \in Running : floodConn[interfaces[j].inst] = c
      BY <1>4, <2>4 DEF Inv, Sockets, NoSocketLeak
    <3>2. j # i
      BY <1>3, <1>4, <2>4, <3>1, AgentConstants
    <3> QED
      BY <1>4, <1>5, <1>6, <1>10, <3>1, <3>2
  <2> QED
    BY <1>4, <2>2, <2>3, <2>4 DEF Sockets, NoSocketLeak
<1>13. Unheard'
  BY <1>4, KeepUnheard DEF SameLies
<1>14. Follows'
  <2> SUFFICES ASSUME NEW j \in Running', Only(j, interfaces[j].inst)'
               PROVE  FollowsOne(j, lie[interfaces[j].inst].state,
                                 floodConn[interfaces[j].inst] # None)'
    BY DEF Follows
  <2>1. j \in Running /\ Only(j, interfaces[j].inst)
    BY <1>4, <1>10 DEF Only
  <2>2. FollowsOne(j, lie[interfaces[j].inst].state, floodConn[interfaces[j].inst] # None)
    BY <2>1 DEF Inv, Follows
  <2>3. \A pcs \in {{"up"}, {"cancel", "close"}, {"down", "cancel", "close"}} : ~At(j, pcs)'
    BY <1>7 DEF At
  <2>4. \A s : /\ Coming(j)' = Coming(j) /\ Told(j)' = Told(j)
               /\ LastComing(j, s)' = LastComing(j, s)
    BY <1>4, KeepChannels
  <2>5. CASE j = i
    <3>1. At(i, {"cancel", "close"})
      BY <1>1, <1>2 DEF At
    <3> QED
      BY <1>3, <1>4, <1>6, <2>2, <2>3, <2>4, <2>5, <3>1 DEF FollowsOne
  <2>6. CASE j # i
    <3>1. \A pcs \in {{"up"}, {"cancel", "close"}, {"down", "cancel", "close"}} : ~At(j, pcs)
      BY <1>2, <2>6 DEF At
    <3>2. floodConn'[interfaces[j].inst] = floodConn[interfaces[j].inst]
      BY <1>5, <1>6, <2>1, <2>6
    <3> QED
      BY <1>4, <2>2, <2>3, <2>4, <3>1, <3>2 DEF FollowsOne
  <2> QED
    BY <2>5, <2>6
<1> QED
  BY <1>8, <1>9, <1>11, <1>12, <1>13, <1>14 DEF Inv

\* The part of Follows that taking event ev leaves to its handler: the last event
\* on its way still has the FSM's state, and was ev if no other is coming.
LEMMA TakenFollows ==
    ASSUME Inv, InSelect, adjEventCh # <<>>, adjEventCh' = Tail(adjEventCh),
           UNCHANGED <<adjChangeCh, adjacencies>>, NEW ev, ev = Head(adjEventCh),
           NEW j \in Running, Only(j, interfaces[j].inst),
           NEW s, s = lie[interfaces[j].inst].state
    PROVE  /\ LastComing(j, s)' /\ Told(j)' = Told(j)
           /\ Told(j) <=> floodConn[interfaces[j].inst] # None
           /\ j = ev.iface /\ ~Coming(j)' => ev.state = s
           /\ j # ev.iface /\ ~Coming(j)' /\ s # "ThreeWay" => ~Told(j)
<1>1. /\ \A i : /\ i # ev.iface => (Coming(i) => Coming(i)')
                /\ \A t : LastComing(i, t) => LastComing(i, t)'
      /\ \A t : ~Coming(ev.iface)' /\ LastComing(ev.iface, t) => ev.state = t
  BY EventTaken DEF Inv, Typed
<1>2. FollowsOne(j, lie[interfaces[j].inst].state, floodConn[interfaces[j].inst] # None)
  BY DEF Inv, Follows
<1>3. \A pcs \in {{"up"}, {"cancel", "close"}, {"down", "cancel", "close"}} : ~At(j, pcs)
  BY DEF InSelect, Select, At
<1>4. Told(j)' = Told(j)
  BY DEF Told
<1>5. /\ LastComing(j, s) /\ (Told(j) <=> floodConn[interfaces[j].inst] # None)
      /\ ~Coming(j) /\ s # "ThreeWay" => ~Told(j)
  BY <1>2, <1>3 DEF FollowsOne
<1> QED
  BY <1>1, <1>4, <1>5

\* OpenFloodSocket: afterwards the instance has a socket, and the others what
\* they had.
LEMMA OpenStep ==
    ASSUME Inv, NEW i \in Running, OpenFloodSocket(interfaces[i].inst),
           UNCHANGED <<lie, closed>>
    PROVE  /\ floodConn' \in Seq({None} \cup Nat) /\ Len(floodConn') = Len(lie)
           /\ used' \in Used /\ floodConn'[interfaces[i].inst] # None
           /\ \A m \in 1..Len(floodConn') : floodConn'[m] \in {None} \cup 1..used'.sockets
           /\ closed' \subseteq 1..used'.sockets
           /\ \A c \in 1..used'.sockets : c \notin closed' =>
                \E j \in Running : floodConn'[interfaces[j].inst] = c
           /\ \A m \in 1..Len(lie) :
                /\ m # interfaces[i].inst => floodConn'[m] = floodConn[m]
                /\ floodConn[m] # None => floodConn'[m] = floodConn[m]
<1>1. /\ floodConn \in Seq({None} \cup Nat) /\ Len(floodConn) = Len(lie) /\ used \in Used
      /\ interfaces[i].inst \in 1..Len(lie)
      /\ \A j \in Running : interfaces[j].inst \in 1..Len(lie)
  BY DEF Inv, Typed, Instances
<1>2. CASE floodConn[interfaces[i].inst] # None
  <2>1. UNCHANGED <<floodConn, used>>
    BY <1>2 DEF OpenFloodSocket
  <2>2. /\ \A m \in 1..Len(floodConn) : floodConn[m] \in {None} \cup 1..used.sockets
        /\ closed \subseteq 1..used.sockets
        /\ \A c \in 1..used.sockets : c \notin closed =>
             \E j \in Running : floodConn[interfaces[j].inst] = c
    BY DEF Inv, Sockets, NoSocketLeak
  <2> QED
    BY <1>1, <1>2, <2>1, <2>2
<1>3. CASE floodConn[interfaces[i].inst] = None
  <2>1. /\ floodConn' = [floodConn EXCEPT ![interfaces[i].inst] = used.sockets + 1]
        /\ used' = [used EXCEPT !.sockets = @ + 1]
    BY <1>3 DEF OpenFloodSocket
  <2>2. /\ used' \in Used /\ used.sockets \in Nat /\ used'.sockets = used.sockets + 1
        /\ used.sockets + 1 # None
    <3>1. used \in Used /\ used' = [used EXCEPT !.sockets = @ + 1]
      BY <1>1, <2>1
    <3>2. /\ used' \in Used /\ used.sockets \in Nat /\ used'.sockets = used.sockets + 1
      BY <3>1 DEF Used
    <3> QED
      BY <3>2, AgentConstants
  <2>3. /\ floodConn' \in Seq({None} \cup Nat) /\ Len(floodConn') = Len(lie)
        /\ floodConn'[interfaces[i].inst] = used'.sockets
        /\ \A m \in 1..Len(lie) : m # interfaces[i].inst => floodConn'[m] = floodConn[m]
    BY <1>1, <2>1, <2>2
  <2>4. \A m \in 1..Len(lie) : floodConn[m] # None => floodConn'[m] = floodConn[m]
    BY <1>3, <2>3
  <2>5. /\ \A m \in 1..Len(floodConn') : floodConn'[m] \in {None} \cup 1..used'.sockets
        /\ closed' \subseteq 1..used'.sockets
    BY <1>1, <2>2, <2>3 DEF Inv, Sockets
  <2>6. ASSUME NEW c \in 1..used'.sockets, c \notin closed'
        PROVE  \E j \in Running : floodConn'[interfaces[j].inst] = c
    <3>1. CASE c = used'.sockets
      BY <2>3, <3>1
    <3>2. CASE c # used'.sockets
      <4>1. c \in 1..used.sockets /\ c # None
        BY <2>2, <3>2, AgentConstants
      <4>2. PICK j \in Running : floodConn[interfaces[j].inst] = c
        BY <2>6, <4>1 DEF Inv, Sockets, NoSocketLeak
      <4> QED
        BY <1>1, <2>4, <4>1, <4>2
    <3> QED
      BY <3>1, <3>2
  <2> QED
    BY <2>2, <2>3, <2>4, <2>5, <2>6
<1> QED
  BY <1>2, <1>3

\* StartRecvLoop: afterwards floodCancel names a loop of the instance.
LEMMA LoopStep ==
    ASSUME Inv, NEW i \in Running, StartRecvLoop(i), UNCHANGED lie, loop'.pc # "close",
           floodConn'[interfaces[i].inst] # None,
           \A m \in 1..Len(lie) : floodConn[m] # None => floodConn'[m] = floodConn[m]
    PROVE  /\ interfaces' \in [Ifaces -> {None} \cup InterfaceState]
           /\ recvLoops' \in Seq(RecvLoop)
           /\ Running' = Running /\ \A j \in Running : interfaces'[j].inst = interfaces[j].inst
           /\ \A k \in 1..Len(recvLoops') : recvLoops'[k].inst \in 1..Len(lie)
           /\ Loops'
<1>1. /\ interfaces \in [Ifaces -> {None} \cup InterfaceState]
      /\ recvLoops \in Seq(RecvLoop) /\ i \in Ifaces
      /\ interfaces[i] \in InterfaceState /\ interfaces[i].inst \in 1..Len(lie)
      /\ \A j \in Running : interfaces[j].inst \in 1..Len(lie)
      /\ \A k \in 1..Len(recvLoops) : recvLoops[k].inst \in 1..Len(lie)
  BY DEF Inv, Typed, Instances, Running
<1>2. CASE interfaces[i].floodCancel # None
  <2>1. UNCHANGED <<interfaces, recvLoops>>
    BY <1>2 DEF StartRecvLoop
  <2>2. Loops'
    BY <1>1, <2>1 DEF Inv, Loops, Running
  <2> QED
    BY <1>1, <2>1, <2>2 DEF Running
<1>3. CASE interfaces[i].floodCancel = None
  <2> DEFINE new == [inst |-> interfaces[i].inst, pc |-> "start", conn |-> None,
                     cancelled |-> FALSE]
             f == [interfaces[i] EXCEPT !.floodCancel = Len(recvLoops) + 1]
             n == Len(recvLoops) + 1
  <2>1. /\ recvLoops' = Append(recvLoops, new)
        /\ interfaces' = [interfaces EXCEPT ![i] = f]
    BY <1>1, <1>3 DEF StartRecvLoop
  <2>2. /\ new \in RecvLoop /\ new.inst = interfaces[i].inst /\ new.pc = "start"
        /\ new.cancelled = FALSE
    BY <1>1 DEF RecvLoop
  <2>3. Len(recvLoops) \in Nat /\ n = Len(recvLoops) + 1 /\ n # None
    BY <1>1, AgentConstants
  <2>4. f \in InterfaceState /\ f # None /\ f.inst = interfaces[i].inst /\ f.floodCancel = n
    BY <1>1, <2>3, AgentConstants DEF InterfaceState
  <2> HIDE DEF new, f, n
  <2>5. /\ recvLoops' \in Seq(RecvLoop) /\ Len(recvLoops') = n /\ recvLoops'[n] = new
        /\ \A k \in 1..Len(recvLoops) : recvLoops'[k] = recvLoops[k]
    BY <1>1, <2>1, <2>2, <2>3
  <2>6. /\ interfaces' \in [Ifaces -> {None} \cup InterfaceState]
        /\ interfaces'[i] = f /\ \A j \in Ifaces : j # i => interfaces'[j] = interfaces[j]
    BY <1>1, <2>1, <2>4
  <2>7. Running' = Running /\ \A j \in Running : interfaces'[j].inst = interfaces[j].inst
    BY <1>1, <2>4, <2>6 DEF Running
  <2>8. \A k \in 1..Len(recvLoops') : recvLoops'[k].inst \in 1..Len(lie)
    BY <1>1, <2>2, <2>3, <2>5
  <2>9. ASSUME NEW j \in Running, interfaces'[j].floodCancel # None
        PROVE  /\ interfaces'[j].floodCancel \in 1..Len(recvLoops')
               /\ recvLoops'[interfaces'[j].floodCancel].inst = interfaces'[j].inst
               /\ ~recvLoops'[interfaces'[j].floodCancel].cancelled
               /\ floodConn'[interfaces'[j].inst] # None
    <3>1. CASE j = i
      BY <2>2, <2>3, <2>4, <2>5, <2>6, <3>1
    <3>2. CASE j # i
      <4>1. interfaces'[j] = interfaces[j]
        BY <2>6, <3>2 DEF Running
      <4> QED
        BY <1>1, <2>3, <2>5, <2>9, <4>1 DEF Inv, Loops
    <3> QED
      BY <3>1, <3>2
  <2>10. ASSUME NEW k \in 1..Len(recvLoops'), ~recvLoops'[k].cancelled
         PROVE  /\ \E j \in Running : interfaces'[j].floodCancel = k
                /\ recvLoops'[k].pc # "exited"
    <3>1. CASE k = n
      BY <2>2, <2>4, <2>5, <2>6, <3>1
    <3>2. CASE k # n
      <4>1. k \in 1..Len(recvLoops) /\ recvLoops'[k] = recvLoops[k] /\ k # None
        BY <2>3, <2>5, <3>2, AgentConstants
      <4>2. PICK j \in Running : interfaces[j].floodCancel = k
        BY <2>10, <4>1 DEF Inv, Loops
      <4>3. j # i /\ interfaces'[j] = interfaces[j]
        BY <1>3, <2>6, <4>1, <4>2 DEF Running
      <4> QED
        BY <2>10, <4>1, <4>2, <4>3 DEF Inv, Loops
    <3> QED
      BY <3>1, <3>2
  <2>11. Loops'
    BY <2>7, <2>9, <2>10 DEF Loops
  <2> QED
    BY <2>5, <2>6, <2>7, <2>8, <2>11
<1> QED
  BY <1>2, <1>3

\* The event loop takes an adjacency event.
LEMMA TakeAdjEventStep ==
    ASSUME Inv, TakeAdjEvent
    PROVE  Inv'
<1>1. /\ Typed /\ InSelect /\ adjEventCh # <<>> /\ adjEventCh' = Tail(adjEventCh)
      /\ adjEventCh \in Seq(AdjEvent) /\ loop = Select /\ ~Handling
      /\ UNCHANGED <<cfg, pendingCfg, lie, closed, adjChangeCh, adjacencies, floodSendCh>>
  BY DEF Inv, Typed, TakeAdjEvent, InSelect, Select, Handling, config, network
<1>2. PICK ev : ev = Head(adjEventCh)
  OBVIOUS
<1>3. PICK i \in Ifaces : i = ev.iface
  <2>1. ev \in AdjEvent
    BY <1>1, <1>2
  <2> QED
    BY <2>1 DEF AdjEvent
<1>4. adjEventCh' \in Seq(AdjEvent) /\ Len(adjEventCh') <= AdjEventCap
  BY <1>1, AgentConstants DEF Typed
<1>5. \A j : (Coming(j)' => Coming(j)) /\ Told(j)' = Told(j)
  <2>1. \A j : Coming(j)' => Coming(j)
    BY <1>1, <1>2, EventTaken
  <2> QED
    BY <1>1, <2>1 DEF Told
<1>6. Unheard'
  BY <1>1, <1>5 DEF Inv, Unheard
<1>7. ASSUME Typed', Instances', Loops', Sockets',
             Running' = Running, \A j \in Running : interfaces'[j].inst = interfaces[j].inst,
             \A m \in 1..Len(lie) : i \in Running /\ m # interfaces[i].inst =>
                                       floodConn'[m] = floodConn[m],
             \/ /\ loop'.pc = "select" /\ UNCHANGED floodConn
                /\ i \in Running => ev.state = "ThreeWay"
             \/ /\ loop'.pc = "up" /\ loop'.iface = i /\ i \in Running
                /\ ev.state = "ThreeWay" /\ floodConn'[interfaces[i].inst] # None
             \/ /\ loop'.pc = "down" /\ loop'.iface = i /\ UNCHANGED floodConn
      PROVE  Inv'
  <2>1. Follows'
    <3> SUFFICES ASSUME NEW j \in Running', Only(j, interfaces[j].inst)'
                 PROVE  FollowsOne(j, lie[interfaces[j].inst].state,
                                   floodConn[interfaces[j].inst] # None)'
      BY DEF Follows
    <3>1. /\ j \in Running /\ Only(j, interfaces[j].inst)
          /\ interfaces[j].inst \in 1..Len(lie) /\ lie[interfaces[j].inst].iface = j
      BY <1>1, <1>7 DEF Only, Inv, Instances
    <3>2. PICK s : s = lie[interfaces[j].inst].state
      OBVIOUS
    <3>3. /\ LastComing(j, s)' /\ Told(j)' = Told(j)
          /\ Told(j) <=> floodConn[interfaces[j].inst] # None
          /\ j = i /\ ~Coming(j)' => ev.state = s
          /\ j # i /\ ~Coming(j)' /\ s # "ThreeWay" => ~Told(j)
      BY <1>1, <1>2, <1>3, <3>1, <3>2, TakenFollows
    <3>4. lie'[interfaces'[j].inst].state = s /\ interfaces'[j].inst = interfaces[j].inst
      BY <1>1, <1>7, <3>1, <3>2
    <3>5. PICK open \in BOOLEAN : open = (floodConn[interfaces[j].inst] # None)'
      OBVIOUS
    <3> SUFFICES FollowsOne(j, s, open)'
      BY <3>4, <3>5
    <3>6. CASE j # i
      <4>1. open <=> Told(j)
        <5>1. i \in Running => interfaces[j].inst # interfaces[i].inst
          BY <3>1, <3>6 DEF Inv, Instances
        <5> QED
          BY <1>7, <3>1, <3>3, <3>5, <5>1
      <4>2. \A pcs \in {{"up"}, {"cancel", "close"}, {"down", "cancel", "close"}} : ~At(j, pcs)'
        BY <1>7, <3>6 DEF At
      <4> QED
        BY <3>3, <3>6, <4>1, <4>2 DEF FollowsOne
    <3>7. CASE j = i /\ loop'.pc = "select"
      <4>1. \A pcs \in {{"up"}, {"cancel", "close"}, {"down", "cancel", "close"}} : ~At(j, pcs)'
        BY <3>7 DEF At
      <4>2. (open <=> Told(j)) /\ ev.state = "ThreeWay"
        BY <1>7, <3>1, <3>3, <3>5, <3>7
      <4> QED
        BY <3>3, <3>7, <4>1, <4>2 DEF FollowsOne
    <3>8. CASE j = i /\ loop'.pc = "up"
      <4>1. At(j, {"up"})' /\ ~At(j, {"cancel", "close"})'
        BY <1>7, <3>8 DEF At
      <4>2. open /\ ev.state = "ThreeWay"
        BY <1>7, <3>5, <3>8
      <4> QED
        BY <3>3, <3>8, <4>1, <4>2 DEF FollowsOne
    <3>9. CASE j = i /\ loop'.pc = "down"
      <4>1. /\ ~At(j, {"up"})' /\ ~At(j, {"cancel", "close"})'
            /\ At(j, {"down", "cancel", "close"})'
        BY <1>7, <3>9 DEF At
      <4>2. open <=> Told(j)
        BY <1>7, <3>3, <3>5, <3>9
      <4> QED
        BY <3>3, <3>9, <4>1, <4>2 DEF FollowsOne
    <3> QED
      BY <1>7, <3>6, <3>7, <3>8, <3>9
  <2> QED
    BY <1>6, <1>7, <2>1 DEF Inv
<1>8. CASE /\ i \in Running => ev.state = "ThreeWay"
           /\ UNCHANGED <<interfaces, floodConn, recvLoops, loop, used>>
  <2>1. Typed'
    BY <1>1, <1>4, <1>8 DEF Typed
  <2>2. Instances' /\ Loops' /\ Sockets'
    BY <1>1, <1>8, KeepInstances, KeepLoops, KeepSockets DEF SameLies, SameLoop
  <2>3. /\ Running' = Running /\ UNCHANGED floodConn /\ loop'.pc = "select"
        /\ \A j \in Running : interfaces'[j].inst = interfaces[j].inst
    BY <1>1, <1>8 DEF Running, Select
  <2> QED
    BY <1>7, <1>8, <2>1, <2>2, <2>3
<1>9. CASE /\ i \in Running /\ ev.state = "ThreeWay"
           /\ OpenFloodSocket(interfaces[i].inst) /\ StartRecvLoop(i)
           /\ loop' = [pc |-> "up", iface |-> i]
  <2>1. /\ floodConn' \in Seq({None} \cup Nat) /\ Len(floodConn') = Len(lie)
        /\ used' \in Used /\ floodConn'[interfaces[i].inst] # None
        /\ \A m \in 1..Len(floodConn') : floodConn'[m] \in {None} \cup 1..used'.sockets
        /\ closed' \subseteq 1..used'.sockets
        /\ \A c \in 1..used'.sockets : c \notin closed' =>
             \E j \in Running : floodConn'[interfaces[j].inst] = c
        /\ \A m \in 1..Len(lie) :
             /\ m # interfaces[i].inst => floodConn'[m] = floodConn[m]
             /\ floodConn[m] # None => floodConn'[m] = floodConn[m]
    BY <1>1, <1>9, OpenStep
  <2>2. /\ loop'.pc = "up" /\ loop'.iface = i
        /\ loop' \in [pc : {"up", "down", "cancel", "close"}, iface : Ifaces]
    BY <1>9
  <2>3. /\ interfaces' \in [Ifaces -> {None} \cup InterfaceState]
        /\ recvLoops' \in Seq(RecvLoop)
        /\ Running' = Running /\ \A j \in Running : interfaces'[j].inst = interfaces[j].inst
        /\ \A k \in 1..Len(recvLoops') : recvLoops'[k].inst \in 1..Len(lie)
        /\ Loops'
    BY <1>1, <1>9, <2>1, <2>2, LoopStep
  <2>4. Typed'
    BY <1>1, <1>4, <2>1, <2>2, <2>3 DEF Typed
  <2>5. Instances'
    BY <1>1, <1>9, <2>2, <2>3 DEF Inv, Instances
  <2>6. Sockets'
    BY <2>1, <2>3 DEF Sockets, NoSocketLeak
  <2> QED
    BY <1>7, <1>9, <2>1, <2>2, <2>3, <2>4, <2>5, <2>6
<1>10. CASE /\ i \in Running /\ loop' = [pc |-> "down", iface |-> i]
            /\ UNCHANGED <<interfaces, floodConn, recvLoops, used>>
  <2>1. /\ loop'.pc = "down" /\ loop'.iface = i
        /\ loop' \in [pc : {"up", "down", "cancel", "close"}, iface : Ifaces]
    BY <1>10
  <2>2. Running' = Running
    BY <1>10 DEF Running
  <2>3. Typed'
    BY <1>1, <1>4, <1>10, <2>1 DEF Typed
  <2>4. Instances' /\ Loops'
    BY <1>1, <1>10, <2>1, <2>2 DEF Inv, Instances, Loops
  <2>5. Sockets'
    BY <1>1, <1>10, KeepSockets
  <2> QED
    BY <1>7, <1>10, <2>1, <2>2, <2>3, <2>4, <2>5
<1> QED
  BY <1>2, <1>3, <1>8, <1>9, <1>10 DEF TakeAdjEvent

-----------------------------------------------------------------------------
(* Results *)

\* The invariant holds initially.
LEMMA InitInv == Init => Inv
<1> SUFFICES ASSUME Init PROVE Inv
  OBVIOUS
<1>1. /\ Running = {} /\ Len(lie) = 0 /\ Len(recvLoops) = 0 /\ Len(floodConn) = 0
      /\ Len(adjEventCh) = 0 /\ Len(adjChangeCh) = 0 /\ loop.pc = "start"
      /\ used.sockets = 0
  BY DEF Init, Running
<1>2. used \in Used /\ AdjEventCap \in Nat /\ AdjChangeCap \in Nat
  BY AgentConstants DEF Init, Used
<1>3. Typed
  BY <1>1, <1>2 DEF Init, Typed
<1>4. Instances /\ Loops /\ Sockets
  BY <1>1 DEF Init, Instances, Loops, Sockets, NoSocketLeak, Handling
<1>5. Unheard /\ Follows
  BY <1>1 DEF Init, Unheard, Follows, Coming, Told
<1> QED
  BY <1>3, <1>4, <1>5 DEF Inv

\* Every step keeps the invariant.
LEMMA StepInv == Inv /\ [Next]_vars => Inv'
<1> SUFFICES ASSUME Inv, [Next]_vars PROVE Inv'
  OBVIOUS
<1>1. CASE UNCHANGED vars
  <2>1. Typed'
    BY <1>1 DEF Inv, Typed, vars
  <2> QED
    BY <1>1, <2>1, QuietStep DEF vars, SameLies, SameLoop
<1>2. CASE Next
  BY <1>2, StartNextStep, InterfaceEventStep, ConfigStep, CommitEndStep, LieChangesStep,
     LieExitsStep, TakeAdjEventStep, SendAdjChangeStep, CancelRecvLoopStep,
     CloseFloodSocketStep, EngineAdjChangeStep, SenderStep, RecvStep
  DEF Next
<1> QED
  BY <1>1, <1>2

\* The invariant holds in every state of every behaviour.
LEMMA Invariance == Spec => []Inv
BY InitInv, StepInv, PTL DEF Spec

\* Instances, loops, sockets and both channels keep their types and capacities.
THEOREM TypeCorrect == Spec => []TypeOK
BY Invariance, InvImplies, PTL

\* For every running interface floodCancel tells exactly whether a receive loop
\* serves its instance, and no loop gives up that the agent relies on.
THEOREM LoopsServe == Spec => []ReceiveLoopServes
BY Invariance, InvImplies, PTL

\* Every flood socket that is not closed is that of a running interface, however
\* interfaces start, stop and lose their adjacencies.
THEOREM SocketsAreOwned == Spec => []NoSocketLeak
BY Invariance, InvImplies, PTL

\* With both channels empty the flood engine's adjacencies are those of the LIE
\* FSMs, for interfaces that were never stopped, whatever the channels' capacities.
THEOREM AdjacenciesFollow == Spec => []FollowsLie
BY Invariance, InvImplies, PTL
=============================================================================
