-------------------------- MODULE RouteSyncProofs ---------------------------
(***************************************************************************)
(* For every set of prefixes, every sequence of RIBs and any number of     *)
(* failed calls: what syncRoutes guarantees of the routes and of their     *)
(* next-hop groups.                                                        *)
(***************************************************************************)
EXTENDS RouteSync, TLAPS

\* Every entry of a map that syncRoutes builds is one SPF may compute.
LEMMA ToProgramType ==
    ASSUME NEW rib \in RIBs
    PROVE  ToProgram(rib) \in [Prefixes -> NextHops]
BY DEF ToProgram, NextHops

\* A list of next hops makes a group, which is not None.
LEMMA GroupOf ==
    ASSUME NEW h \in NextHops, h # None
    PROVE  Range(h) \in Groups /\ Range(h) # None
BY RouteConstants DEF NextHops, Groups

\* The types, and with them the bounds, are preserved.
LEMMA InitType == Init => TypeOK
<1> SUFFICES ASSUME Init PROVE TypeOK
  OBVIOUS
<1>1. Empty \in [Prefixes -> NextHops] /\ Empty \in [Prefixes -> Groups]
  BY DEF Empty, NextHops, Groups
<1>2. 0 \in 0..MaxFailures
  BY RouteConstants
<1> QED
  BY <1>1, <1>2 DEF Init, TypeOK

\* Each action keeps the types.
LEMMA StepType == TypeOK /\ [Next]_vars => TypeOK'
<1> SUFFICES ASSUME TypeOK, [Next]_vars PROVE TypeOK'
  OBVIOUS
<1>0. failures' \in 0..MaxFailures /\ clean' \in BOOLEAN
  <2>1. MaxFailures \in Nat /\ failures \in 0..MaxFailures /\ clean \in BOOLEAN
    BY RouteConstants DEF TypeOK
  <2>2. \/ Fails
        \/ failures' = failures /\ (clean' = clean \/ clean' = TRUE)
    BY DEF Next, syncRoutes, AddOrUpdateNextHopGroup, RouteSyncStart,
           AddOrUpdateRoutes, RouteSyncEnd, DeleteNextHopGroups, Succeeds, vars
  <2>3. ASSUME Fails
        PROVE  failures' \in 0..MaxFailures /\ clean' \in BOOLEAN
    <3>1. failures' \in 0..MaxFailures
      BY <2>1, <2>3 DEF Fails
    <3>2. clean' = FALSE
      BY <2>3 DEF Fails
    <3> QED
      BY <3>1, <3>2
  <2>4. ASSUME failures' = failures, clean' = clean \/ clean' = TRUE
        PROVE  failures' \in 0..MaxFailures /\ clean' \in BOOLEAN
    BY <2>1, <2>4
  <2> QED
    BY <2>2, <2>3, <2>4
<1> USE <1>0 DEF TypeOK
<1>1. ASSUME NEW rib \in RIBs, syncRoutes(rib) PROVE TypeOK'
  BY <1>1, ToProgramType DEF syncRoutes, Keys, Changed
<1>2. ASSUME NEW p \in Prefixes, AddOrUpdateNextHopGroup(p) PROVE TypeOK'
  <2>1. Range(newProgrammed[p]) \in Groups
    BY <1>2, GroupOf DEF AddOrUpdateNextHopGroup, Keys
  <2> QED
    BY <1>2, <2>1 DEF AddOrUpdateNextHopGroup, Keys
<1>3. CASE RouteSyncStart
  BY <1>3 DEF RouteSyncStart, Keys, Changed
<1>4. CASE AddOrUpdateRoutes
  BY <1>4 DEF AddOrUpdateRoutes, Keys
<1>5. CASE RouteSyncEnd
  BY <1>5 DEF RouteSyncEnd, Keys
<1>6. CASE DeleteNextHopGroups
  BY <1>6 DEF DeleteNextHopGroups, Keys, Groups
<1>7. CASE UNCHANGED vars
  BY <1>7 DEF vars, Keys
<1> QED
  BY <1>1, <1>2, <1>3, <1>4, <1>5, <1>6, <1>7 DEF Next

\* RouteInv is preserved whichever calls fail: a failed call makes the sync
\* unclean, and an unclean sync claims nothing.
LEMMA StepRoute == TypeOK /\ RouteInv /\ [Next]_vars => RouteInv'
<1> SUFFICES ASSUME TypeOK, RouteInv, [Next]_vars PROVE RouteInv'
  OBVIOUS
<1> USE DEF RouteInv, Fails, Succeeds, Keys
<1>1. ASSUME NEW rib \in RIBs, syncRoutes(rib) PROVE RouteInv'
  BY <1>1 DEF syncRoutes
<1>2. ASSUME NEW p \in Prefixes, AddOrUpdateNextHopGroup(p) PROVE RouteInv'
  BY <1>2 DEF AddOrUpdateNextHopGroup
<1>3. CASE RouteSyncStart
  BY <1>3 DEF RouteSyncStart
<1>4. CASE AddOrUpdateRoutes
  <2>1. clean' => window' = window \cup Keys(newProgrammed)
    BY <1>4 DEF AddOrUpdateRoutes
  <2> QED
    BY <1>4, <2>1 DEF AddOrUpdateRoutes
<1>5. CASE RouteSyncEnd
  BY <1>5 DEF RouteSyncEnd
<1>6. CASE DeleteNextHopGroups
  BY <1>6 DEF DeleteNextHopGroups
<1>7. CASE UNCHANGED vars
  BY <1>7 DEF vars
<1> QED
  BY <1>1, <1>2, <1>3, <1>4, <1>5, <1>6, <1>7 DEF Next

\* GroupInv is preserved: programmedRIB takes over what the groups have been
\* brought to, but for those whose update failed; where SyncStart fails, all
\* that the sync has touched becomes suspect.
LEMMA StepGroup == TypeOK /\ GroupInv /\ [Next]_vars => GroupInv'
<1> SUFFICES ASSUME TypeOK, GroupInv, [Next]_vars PROVE GroupInv'
  OBVIOUS
<1> USE DEF TypeOK, GroupInv, WrongOnlyIfSuspect, Installed, Keys
<1>1. ASSUME NEW rib \in RIBs, syncRoutes(rib) PROVE GroupInv'
  BY <1>1 DEF syncRoutes, nhAddrsEqual, ToProgram, Changed
<1>2. ASSUME NEW p \in Prefixes, AddOrUpdateNextHopGroup(p) PROVE GroupInv'
  <2>1. /\ pc = "nhg" /\ pc' = "nhg" /\ p \in nhgsToUpdate
        /\ nhgsToUpdate' = nhgsToUpdate \ {p}
        /\ UNCHANGED <<programmedRIB, newProgrammed>>
        /\ \A q \in Prefixes \ {p} : nhgs'[q] = nhgs[q]
        /\ \/ suspect' = suspect \cup {p}
           \/ suspect' = suspect \ {p} /\ nhgs'[p] = Range(newProgrammed[p])
    BY <1>2 DEF AddOrUpdateNextHopGroup
  <2>2. Range(newProgrammed[p]) # None
    BY <2>1, GroupOf
  <2>3. p \in Keys(newProgrammed)
    BY <2>1
  <2> QED
    BY <2>1, <2>2, <2>3 DEF Changed
<1>3. CASE RouteSyncStart
  <2>1. CASE pc' = "add"
    BY <1>3, <2>1 DEF RouteSyncStart
  <2>2. CASE pc' = "idle"
    BY <1>3, <2>2 DEF RouteSyncStart, Changed, nhAddrsEqual
  <2> QED
    BY <1>3, <2>1, <2>2 DEF RouteSyncStart
<1>4. CASE AddOrUpdateRoutes
  BY <1>4 DEF AddOrUpdateRoutes
<1>5. CASE RouteSyncEnd
  BY <1>5 DEF RouteSyncEnd
<1>6. CASE DeleteNextHopGroups
  <2>1. \A p \in Keys(newProgrammed) \ suspect : nhgs'[p] = Range(newProgrammed[p])
    BY <1>6 DEF DeleteNextHopGroups, staleNHGs
  <2>2. \A p \in Keys(newProgrammed) : Range(newProgrammed[p]) # None
    BY GroupOf
  <2> QED
    BY <1>6, <2>1, <2>2 DEF DeleteNextHopGroups
<1>7. CASE UNCHANGED vars
  BY <1>7 DEF vars, Changed
<1> QED
  BY <1>1, <1>2, <1>3, <1>4, <1>5, <1>6, <1>7 DEF Next

\* OriginInv is preserved whichever calls fail.
LEMMA StepOrigin == TypeOK /\ RouteInv /\ OriginInv /\ [Next]_vars => OriginInv'
<1> SUFFICES ASSUME TypeOK, RouteInv, OriginInv, [Next]_vars PROVE OriginInv'
  OBVIOUS
<1> USE DEF OriginInv, Keys
<1>1. ASSUME NEW rib \in RIBs, syncRoutes(rib) PROVE OriginInv'
  BY <1>1 DEF syncRoutes
<1>2. ASSUME NEW p \in Prefixes, AddOrUpdateNextHopGroup(p) PROVE OriginInv'
  BY <1>2 DEF AddOrUpdateNextHopGroup
<1>3. CASE RouteSyncStart
  BY <1>3 DEF RouteSyncStart, Fails
<1>4. CASE AddOrUpdateRoutes
  BY <1>4 DEF AddOrUpdateRoutes, RouteInv
<1>5. CASE RouteSyncEnd
  BY <1>5 DEF RouteSyncEnd
<1>6. CASE DeleteNextHopGroups
  BY <1>6 DEF DeleteNextHopGroups
<1>7. CASE UNCHANGED vars
  BY <1>7 DEF vars
<1> QED
  BY <1>1, <1>2, <1>3, <1>4, <1>5, <1>6, <1>7 DEF Next

\* Nothing is programmed and nothing installed at the start.
LEMMA InitInv == Init => SyncInv
BY DEF Init, SyncInv, RouteInv, GroupInv, WrongOnlyIfSuspect, OriginInv,
       Installed, Keys, Empty

\* The types and, whichever calls fail, RouteInv are invariants.
LEMMA RouteInvariance == Spec => [](TypeOK /\ RouteInv)
<1>1. Init => TypeOK /\ RouteInv
  BY InitType, InitInv DEF SyncInv
<1>2. TypeOK /\ RouteInv /\ [Next]_vars => (TypeOK /\ RouteInv)'
  BY StepType, StepRoute
<1> QED
  BY <1>1, <1>2, PTL DEF Spec

\* The variables of a sync keep their types for every value of the constants.
THEOREM RouteTypeCorrect == Spec => []TypeOK
BY RouteInvariance, PTL

\* A sync in which no call fails leaves exactly the routes of the RIB in the
\* FIB, whatever has failed before: the full push between SyncStart and SyncEnd
\* makes up for it.
THEOREM RoutesAreReplaced == Spec => []CleanSyncReplacesRoutes
<1>1. RouteInv => CleanSyncReplacesRoutes
  BY DEF RouteInv, CleanSyncReplacesRoutes
<1> QED
  BY <1>1, RouteInvariance, PTL

\* No step of a sync, as long as no call fails, withdraws a route that is
\* still in the RIB.
THEOREM RoutesNeverBlink == Spec => NoBlink
<1>1. TypeOK /\ RouteInv /\ [Next]_vars =>
        [clean' => \A p \in routes \ routes' : newProgrammed[p] = None]_vars
  <2> SUFFICES ASSUME TypeOK, RouteInv, [Next]_vars, clean',
                      NEW p \in routes \ routes'
               PROVE  newProgrammed[p] = None
    OBVIOUS
  <2>1. RouteSyncEnd
    BY DEF Next, syncRoutes, AddOrUpdateNextHopGroup, RouteSyncStart,
           AddOrUpdateRoutes, DeleteNextHopGroups, vars
  <2>2. pc = "end" /\ clean /\ routes' = window
    BY <2>1 DEF RouteSyncEnd, Fails, Succeeds
  <2> QED
    BY <2>2 DEF RouteInv, Keys, TypeOK
<1> QED
  BY <1>1, RouteInvariance, PTL DEF Spec, NoBlink

\* SyncInv is an invariant, whichever calls fail.
THEOREM SyncInvariance == Spec => [](TypeOK /\ SyncInv)
<1>1. Init => TypeOK /\ SyncInv
  BY InitType, InitInv
<1>2. TypeOK /\ SyncInv /\ [Next]_vars => (TypeOK /\ SyncInv)'
  BY StepType, StepRoute, StepGroup, StepOrigin DEF SyncInv
<1> QED
  BY <1>1, <1>2, PTL DEF Spec

\* No route ever lacks its next-hop group while SyncEnd works, unless an update
\* of that very group has failed or gone unrecorded.
THEOREM RoutesNeverDangle == Spec => []NoDanglingRoute
<1>1. TypeOK /\ SyncInv => NoDanglingRoute
  BY GroupOf DEF TypeOK, SyncInv, GroupInv, WrongOnlyIfSuspect, OriginInv,
                 NoDanglingRoute, Installed, Keys
<1> QED
  BY <1>1, SyncInvariance, PTL

\* Between syncs programmedRIB is right about every group that is not suspect:
\* updating only the groups that differ from it loses nothing else.
THEOREM ProgrammedIsTrusted == Spec => []WrongOnlyIfSuspect
<1>1. SyncInv => WrongOnlyIfSuspect
  BY DEF SyncInv, GroupInv
<1> QED
  BY <1>1, SyncInvariance, PTL
=============================================================================
