------------------------------ MODULE AgentSpf ------------------------------
(***************************************************************************)
(* From a change of the LSDB to routes and disaggregation, on one node: the *)
(* agent's event loop (eventLoop of internal/agent/agent.go and            *)
(* runDisaggregation of disagg.go) and the flood engine, which share the   *)
(* LSDB, the adjacency map, LSDBChangeCh and DisaggUpdateCh.               *)
(*                                                                         *)
(* The state of the fabric is a topology.  What SPF and disaggregation     *)
(* compute is left open but for this: it is a function of the topology     *)
(* when everything they read is of that topology.  The node's own          *)
(* disaggregation TIE is kept apart from the rest of the LSDB; SPF of this *)
(* node does not use it.                                                   *)
(***************************************************************************)
EXTENDS Integers, FiniteSets

CONSTANTS
    None,
    Topologies,
    ToDisaggregate,     \* topology -> prefixes ComputeDisaggregation returns
    Leaf,               \* BOOLEAN: the node's level is LeafLevel
    MaxChanges          \* bound on the changes of topology

ASSUME SpfConstants ==
    /\ None \notin Topologies /\ Leaf \in BOOLEAN /\ MaxChanges \in Nat
    /\ DOMAIN ToDisaggregate = Topologies
    /\ \A t \in Topologies : IsFiniteSet(ToDisaggregate[t])

VARIABLES
    adjacencies,     \* the engine's adjacency map, by the topology it is of
    lsdb,            \* the LSDB, likewise
    disaggTIE,       \* content of the own disaggregation TIE, or None
    lsdbChangeCh,    \* LSDBChangeCh holds its one token
    disaggUpdateCh,  \* the content of DisaggUpdateCh, or None
    timer,           \* spfTimer: "nil", "armed" or "fired"
    timerC,          \* spfTimer.C holds a tick
    pc,              \* where the event loop is
    read,            \* the LSDB snapshot of the step under way, or None
    prefixEntries,   \* what ComputeDisaggregation returned, or None
    rib,             \* what the RIBs of the SPF engine are of
    fib,             \* what syncRoutes programmed last
    changes          \* changes of topology so far

vars == <<adjacencies, lsdb, disaggTIE, lsdbChangeCh, disaggUpdateCh, timer,
          timerC, pc, read, prefixEntries, rib, fib, changes>>
timers == <<timer, timerC>>
results == <<rib, fib>>
locals == <<read, prefixEntries>>

\* Before anything has been computed.
Nothing == [lsdb |-> None, adj |-> None]

Init ==
    /\ adjacencies \in Topologies /\ lsdb = adjacencies
    /\ disaggTIE = None /\ lsdbChangeCh = TRUE /\ disaggUpdateCh = None
    /\ timer = "nil" /\ timerC = FALSE
    /\ pc = "select" /\ read = None /\ prefixEntries = None
    /\ rib = Nothing /\ fib = Nothing
    /\ changes = 0

-----------------------------------------------------------------------------
(* The flood engine *)

\* handleAdjChange: first the adjacency map ...
AdjChange(t) ==
    /\ adjacencies = lsdb /\ t # adjacencies /\ changes < MaxChanges
    /\ adjacencies' = t /\ changes' = changes + 1
    /\ UNCHANGED <<lsdb, disaggTIE, lsdbChangeCh, disaggUpdateCh, timers, pc,
                   locals, results>>

\* Mutant: the change is not notified.
Originate_Silent ==
    /\ adjacencies # lsdb /\ lsdb' = adjacencies
    /\ UNCHANGED <<adjacencies, disaggTIE, lsdbChangeCh, disaggUpdateCh, timers,
                   pc, locals, results, changes>>

\* ... then the LSDB, then notifyLSDBChange (which does not block).
Originate ==
    /\ adjacencies # lsdb
    /\ lsdb' = adjacencies /\ lsdbChangeCh' = TRUE
    /\ UNCHANGED <<adjacencies, disaggTIE, disaggUpdateCh, timers, pc, locals,
                   results, changes>>

\* Mutant: an empty update always withdraws.
Disaggregated_AlwaysWithdraws(prefixes) == [tie |-> prefixes, changed |-> TRUE]

\* OriginatePositiveDisaggTIE: what the TIE becomes, and whether it "changed":
\* insertSelfOriginated always says so.
Disaggregated(prefixes) ==
    IF prefixes = {} /\ (disaggTIE = None \/ disaggTIE = {})
    THEN [tie |-> disaggTIE, changed |-> FALSE]
    ELSE [tie |-> prefixes, changed |-> TRUE]

handleDisaggUpdate ==
    /\ disaggUpdateCh # None /\ adjacencies = lsdb
    /\ LET d == Disaggregated(disaggUpdateCh) IN
         /\ disaggTIE' = d.tie
         /\ lsdbChangeCh' = (lsdbChangeCh \/ d.changed)
    /\ disaggUpdateCh' = None
    /\ UNCHANGED <<adjacencies, lsdb, timers, pc, locals, results, changes>>

-----------------------------------------------------------------------------
(* The agent's event loop *)

\* Mutant: the timer is created but never reset.
LSDBChanged_NoReset ==
    /\ pc = "select" /\ lsdbChangeCh
    /\ lsdbChangeCh' = FALSE /\ timer' = (IF timer = "nil" THEN "armed" ELSE timer)
    /\ UNCHANGED <<adjacencies, lsdb, disaggTIE, disaggUpdateCh, timerC, pc,
                   locals, results, changes>>

\* case <-LSDBChangeCh: the timer is created or Reset.  Reset leaves a tick that
\* is already in C (Go before 1.23; go.mod says 1.22).
LSDBChanged ==
    /\ pc = "select" /\ lsdbChangeCh
    /\ lsdbChangeCh' = FALSE /\ timer' = "armed"
    /\ UNCHANGED <<adjacencies, lsdb, disaggTIE, disaggUpdateCh, timerC, pc,
                   locals, results, changes>>

TimerFires ==
    /\ timer = "armed" /\ timer' = "fired" /\ timerC' = TRUE
    /\ UNCHANGED <<adjacencies, lsdb, disaggTIE, lsdbChangeCh, disaggUpdateCh,
                   pc, locals, results, changes>>

\* case <-spfTimerC: spf.Engine.Run takes a snapshot of the LSDB ...
SpfSnapshot ==
    /\ pc = "select" /\ timerC
    /\ timerC' = FALSE /\ read' = lsdb /\ pc' = "spf"
    /\ UNCHANGED <<adjacencies, lsdb, disaggTIE, lsdbChangeCh, disaggUpdateCh,
                   prefixEntries, timer, results, changes>>

\* ... then one of the adjacencies, and computes.
SpfRun ==
    /\ pc = "spf"
    /\ rib' = [lsdb |-> read, adj |-> adjacencies]
    /\ pc' = (IF Leaf THEN "sync" ELSE "disagg") /\ read' = None
    /\ UNCHANGED <<adjacencies, lsdb, disaggTIE, lsdbChangeCh, disaggUpdateCh,
                   prefixEntries, timers, fib, changes>>

\* runDisaggregation: two more snapshots, and the southbound RIB of SpfRun.
DisaggSnapshot ==
    /\ pc = "disagg" /\ read' = lsdb /\ pc' = "compute"
    /\ UNCHANGED <<adjacencies, lsdb, disaggTIE, lsdbChangeCh, disaggUpdateCh,
                   prefixEntries, timers, results, changes>>

\* Mutant: what was disaggregated before is not dropped.
ComputeDisaggregation_Accumulates ==
    /\ pc = "compute"
    /\ prefixEntries' = ToDisaggregate[read]
                        \cup (IF disaggTIE = None THEN {} ELSE disaggTIE)
    /\ read' = None /\ pc' = "drain"
    /\ UNCHANGED <<adjacencies, lsdb, disaggTIE, lsdbChangeCh, disaggUpdateCh,
                   timers, results, changes>>

ComputeDisaggregation ==
    /\ pc = "compute"
    /\ prefixEntries' \in
          IF {read, adjacencies, rib.lsdb, rib.adj} = {read}
          THEN {ToDisaggregate[read]}
          ELSE {ToDisaggregate[t] : t \in Topologies}
    /\ read' = None /\ pc' = "drain"
    /\ UNCHANGED <<adjacencies, lsdb, disaggTIE, lsdbChangeCh, disaggUpdateCh,
                   timers, results, changes>>

\* Mutant: the new update is given up if the engine has not taken the last one.
DrainDisagg_GivesUp ==
    /\ pc = "drain"
    /\ pc' = (IF disaggUpdateCh = None THEN "send" ELSE "sync")
    /\ UNCHANGED <<adjacencies, lsdb, disaggTIE, lsdbChangeCh, disaggUpdateCh,
                   timers, locals, results, changes>>

\* The update that the engine has not taken is discarded ...
DrainDisagg ==
    /\ pc = "drain" /\ disaggUpdateCh' = None /\ pc' = "send"
    /\ UNCHANGED <<adjacencies, lsdb, disaggTIE, lsdbChangeCh, timers, locals,
                   results, changes>>

\* ... and the new one is sent; the send blocks if the channel is full.
SendDisagg ==
    /\ pc = "send" /\ disaggUpdateCh = None
    /\ disaggUpdateCh' = prefixEntries /\ pc' = "sync"
    /\ prefixEntries' = None
    /\ UNCHANGED <<adjacencies, lsdb, disaggTIE, lsdbChangeCh, timers, read,
                   results, changes>>

\* A sync in which no NDK call fails (RouteSync has its calls).
syncRoutes ==
    /\ pc = "sync" /\ fib' = rib /\ pc' = "select"
    /\ UNCHANGED <<adjacencies, lsdb, disaggTIE, lsdbChangeCh, disaggUpdateCh,
                   timers, locals, rib, changes>>

Engine == Originate \/ handleDisaggUpdate
Agent == \/ LSDBChanged
         \/ SpfSnapshot
         \/ SpfRun
         \/ DisaggSnapshot
         \/ ComputeDisaggregation
         \/ DrainDisagg
         \/ SendDisagg
         \/ syncRoutes

Next == Engine \/ Agent \/ TimerFires \/ \E t \in Topologies : AdjChange(t)

\* Both goroutines run, the timer fires, and select is fair to a tick.
Spec ==
    /\ Init /\ [][Next]_vars
    /\ WF_vars(Originate) /\ WF_vars(handleDisaggUpdate) /\ WF_vars(Agent)
    /\ WF_vars(TimerFires) /\ SF_vars(SpfSnapshot)

-----------------------------------------------------------------------------
(* Properties *)

Disaggregations == {ToDisaggregate[t] : t \in Topologies} \cup {{}}
Result == [lsdb : Topologies \cup {None}, adj : Topologies \cup {None}]

\* The variables keep their types, and the locals have their values where the
\* event loop uses them.
TypeOK ==
    /\ adjacencies \in Topologies /\ lsdb \in Topologies
    /\ disaggTIE \in Disaggregations \cup {None}
    /\ disaggUpdateCh \in Disaggregations \cup {None}
    /\ timer \in {"nil", "armed", "fired"}
    /\ lsdbChangeCh \in BOOLEAN /\ timerC \in BOOLEAN
    /\ pc \in {"select", "spf", "disagg", "compute", "drain", "send", "sync"}
    /\ pc \in {"spf", "compute"} => read \in Topologies
    /\ pc \in {"drain", "send"} => prefixEntries \in Disaggregations
    /\ rib \in Result /\ fib \in Result
    /\ changes \in 0..MaxChanges

\* What is of the present state of the engine.
UpToDate(r) == r = [lsdb |-> lsdb, adj |-> adjacencies]
\* SPF will run again: a token, a timer or a tick is pending, or the engine
\* has yet to notify.
Pending == lsdbChangeCh \/ timer = "armed" \/ timerC \/ adjacencies # lsdb
\* No wake-up is lost in LSDBChangeCh, the debounce timer and its channel:
\* unless SPF will run again, the run under way reads the LSDB as it is; after
\* it the RIBs, and back in select the routes, are of the present state.
NoLostWakeup ==
    \/ Pending
    \/ pc = "spf" /\ read = lsdb
    \/ pc # "spf" /\ UpToDate(rib) /\ (pc = "select" => UpToDate(fib))

\* The send on DisaggUpdateCh never blocks the event loop: after the drain only
\* the event loop itself could fill the channel.
DisaggSendIsFree == pc = "send" => disaggUpdateCh = None

\* When the fabric stops changing, the routes are those of its last state,
RoutesCatchUp == <>[]UpToDate(fib)
\* and the disaggregation TIE says what that state calls for.
Advertised == IF disaggTIE = None THEN {} ELSE disaggTIE
DisaggCatchesUp == <>[](Leaf \/ Advertised = ToDisaggregate[lsdb])

\* docs/ARCHITECTURE.md:436 "so SPF runs once after the burst settles": the
\* event loop comes to rest.
AtRest == pc = "select" /\ ~Pending /\ disaggUpdateCh = None
SpfSettles == <>[]AtRest

\* It does where nothing is to be disaggregated in the end.
SpfSettlesWithoutDisagg == <>[](ToDisaggregate[lsdb] = {}) => SpfSettles
=============================================================================
