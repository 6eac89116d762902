--------------------------- MODULE AgentSpfProofs ---------------------------
(***************************************************************************)
(* For every set of topologies, every disaggregation function and every    *)
(* bound: the event loop's variables keep their types, no change of the    *)
(* LSDB goes unnoticed by SPF, and the send of a disaggregation update     *)
(* never blocks.  Each of the three is preserved by every step, the second *)
(* and the third with the help of the types only.                          *)
(***************************************************************************)
EXTENDS AgentSpf, TLAPS

\* The initial values have their types.
LEMMA InitType == Init => TypeOK
<1> SUFFICES ASSUME Init PROVE TypeOK
  OBVIOUS
<1>1. Nothing \in Result
  BY DEF Nothing, Result
<1>2. 0 \in 0..MaxChanges
  BY SpfConstants
<1> QED
  BY <1>1, <1>2 DEF Init, TypeOK

\* Every step keeps the types: what travels from ComputeDisaggregation through
\* DisaggUpdateCh into the TIE is always some topology's disaggregation.
LEMMA StepType == TypeOK /\ [Next]_vars => TypeOK'
<1> SUFFICES ASSUME TypeOK, [Next]_vars PROVE TypeOK'
  OBVIOUS
<1> USE SpfConstants DEF TypeOK, timers, results, locals
<1>1. CASE Originate
  BY <1>1 DEF Originate
<1>2. CASE handleDisaggUpdate
  BY <1>2 DEF handleDisaggUpdate, Disaggregated, Disaggregations
<1>3. CASE LSDBChanged
  BY <1>3 DEF LSDBChanged
<1>4. CASE SpfSnapshot
  BY <1>4 DEF SpfSnapshot
<1>5. CASE SpfRun
  BY <1>5 DEF SpfRun, Result
<1>6. CASE DisaggSnapshot
  BY <1>6 DEF DisaggSnapshot
<1>7. CASE ComputeDisaggregation
  BY <1>7 DEF ComputeDisaggregation, Disaggregations
<1>8. CASE DrainDisagg
  BY <1>8 DEF DrainDisagg
<1>9. CASE SendDisagg
  BY <1>9 DEF SendDisagg
<1>10. CASE syncRoutes
  BY <1>10 DEF syncRoutes
<1>11. CASE TimerFires
  BY <1>11 DEF TimerFires
<1>12. ASSUME NEW t \in Topologies, AdjChange(t) PROVE TypeOK'
  BY <1>12 DEF AdjChange
<1>13. CASE UNCHANGED vars
  BY <1>13 DEF vars
<1> QED
  BY <1>1, <1>2, <1>3, <1>4, <1>5, <1>6, <1>7, <1>8, <1>9, <1>10, <1>11,
     <1>12, <1>13 DEF Next, Engine, Agent

\* Every step keeps NoLostWakeup.  The engine's steps leave a pending wake-up
\* behind; the loop's steps use one up only by taking a newer snapshot.
LEMMA StepWakeup == TypeOK /\ NoLostWakeup /\ [Next]_vars => NoLostWakeup'
<1> SUFFICES ASSUME TypeOK, NoLostWakeup, [Next]_vars PROVE NoLostWakeup'
  OBVIOUS
<1> USE DEF NoLostWakeup, Pending, UpToDate, timers, results, locals
<1>1. CASE Originate
  BY <1>1 DEF Originate
<1>2. CASE handleDisaggUpdate
  BY <1>2 DEF handleDisaggUpdate
<1>3. CASE LSDBChanged
  BY <1>3 DEF LSDBChanged
<1>4. CASE SpfSnapshot
  BY <1>4 DEF SpfSnapshot
<1>5. CASE SpfRun
  BY <1>5 DEF SpfRun
<1>6. CASE DisaggSnapshot
  BY <1>6 DEF DisaggSnapshot
<1>7. CASE ComputeDisaggregation
  BY <1>7 DEF ComputeDisaggregation
<1>8. CASE DrainDisagg
  BY <1>8 DEF DrainDisagg
<1>9. CASE SendDisagg
  BY <1>9 DEF SendDisagg
<1>10. CASE syncRoutes
  BY <1>10 DEF syncRoutes
<1>11. CASE TimerFires
  BY <1>11 DEF TimerFires
<1>12. ASSUME NEW t \in Topologies, AdjChange(t) PROVE NoLostWakeup'
  BY <1>12 DEF AdjChange
<1>13. CASE UNCHANGED vars
  BY <1>13 DEF vars
<1> QED
  BY <1>1, <1>2, <1>3, <1>4, <1>5, <1>6, <1>7, <1>8, <1>9, <1>10, <1>11,
     <1>12, <1>13 DEF Next, Engine, Agent

\* Every step keeps DisaggSendIsFree: only SendDisagg fills the channel.
LEMMA StepSend == DisaggSendIsFree /\ [Next]_vars => DisaggSendIsFree'
BY DEF DisaggSendIsFree, Next, Engine, Agent, Originate, handleDisaggUpdate,
       LSDBChanged, SpfSnapshot, SpfRun, DisaggSnapshot, ComputeDisaggregation,
       DrainDisagg, SendDisagg, syncRoutes, TimerFires, AdjChange, vars

\* The event loop's variables keep their types for every value of the constants.
THEOREM SpfTypeCorrect == Spec => []TypeOK
BY InitType, StepType, PTL DEF Spec

\* No change that the flood engine notifies is lost between LSDBChangeCh, the
\* debounce timer and the SPF run: unless one is pending, the routes the agent
\* has programmed are of the present LSDB and adjacencies.
THEOREM WakeupsAreNotLost == Spec => []NoLostWakeup
<1>1. Init => NoLostWakeup
  BY DEF Init, NoLostWakeup, Pending
<1> QED
  BY <1>1, InitType, StepType, StepWakeup, PTL DEF Spec

\* The event loop is never blocked by its send on DisaggUpdateCh, although the
\* flood engine may read the channel at any moment between drain and send.
THEOREM DisaggSendNeverBlocks == Spec => []DisaggSendIsFree
<1>1. Init => DisaggSendIsFree
  BY DEF Init, DisaggSendIsFree
<1> QED
  BY <1>1, StepSend, PTL DEF Spec
=============================================================================
