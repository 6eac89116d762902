------------------------------ MODULE LieView -------------------------------
(***************************************************************************)
(* What one LIE FSM promises the agent, without packets, timers or the     *)
(* event queue: it moves along LieStep, and every move is an event in a    *)
(* channel of bounded capacity that the agent reads in order.              *)
(* LieInterface implements it; AgentInterfaces puts several of them behind *)
(* one channel.                                                            *)
(***************************************************************************)
EXTENDS LieSteps, Naturals, Sequences

CONSTANT Capacity

VARIABLES
    state,     \* the FSM's state, as the agent sees it
    events,    \* states announced and not yet read
    view       \* the state the agent has handled last

Init == state = "OneWay" /\ events = <<>> /\ view = "OneWay"

\* A change of state is announced; it waits for room in the channel.
Change(s) ==
    /\ <<state, s>> \in LieStep
    /\ Len(events) < Capacity
    /\ state' = s
    /\ events' = Append(events, s)
    /\ UNCHANGED view

Deliver ==
    /\ events # <<>>
    /\ view' = Head(events)
    /\ events' = Tail(events)
    /\ UNCHANGED state

Next == Deliver \/ \E s \in LieState : Change(s)

Spec == Init /\ [][Next]_<<state, events, view>>
=============================================================================
