----------------------------- MODULE RouteSync ------------------------------
(***************************************************************************)
(* How the agent programs its RIB: syncRoutes of internal/agent/agent.go   *)
(* and the calls of internal/ndk/routes.go, each of which may fail.        *)
(*                                                                         *)
(* The NDK is external: it keeps next-hop groups and the routes that refer *)
(* to them, by name; a group's name is its prefix (nhgName).  A call that  *)
(* returns an error may have had its effect or not, and for a batch of     *)
(* routes on a part of them.  SyncEnd removes the routes that were not     *)
(* added since SyncStart.  The metric goes with the route and is left out. *)
(***************************************************************************)
EXTENDS Integers, Sequences, FiniteSets, Functions

CONSTANTS
    None,             \* no map entry
    Prefixes,
    RIBs,             \* what SPF may compute: prefix -> next hops, or None
    MaxFailures       \* bound on failures

ASSUME RouteConstants ==
    /\ MaxFailures \in Nat
    /\ \A r \in RIBs : DOMAIN r = Prefixes
    /\ \A r \in RIBs : \A p \in Prefixes : r[p] # None => Range(r[p]) # None

VARIABLES
    programmedRIB,    \* prefix -> next-hop addresses, or None
    newProgrammed,    \* the local of the sync under way
    nhgsToUpdate,     \* prefixes whose group is yet to be added or updated
    pc,               \* "idle", or the next NDK call
    nhgs,             \* NDK: prefix -> next hops of its group, or None
    routes,           \* NDK: prefixes that have a route
    window,           \* NDK: prefixes added since SyncStart
    failures,         \* failed calls so far
    clean,            \* history: no call of this sync has failed
    endFailed,        \* history: the last SyncEnd failed
    suspect           \* history: prefixes whose group's last update failed, or
                      \* was not recorded because SyncStart failed after it

vars == <<programmedRIB, newProgrammed, nhgsToUpdate, pc, nhgs, routes, window,
          failures, clean, endFailed, suspect>>

Empty == [p \in Prefixes |-> None]

Init ==
    /\ programmedRIB = Empty /\ newProgrammed = Empty /\ nhgsToUpdate = {}
    /\ pc = "idle" /\ nhgs = Empty /\ routes = {} /\ window = {}
    /\ failures = 0 /\ clean = TRUE /\ endFailed = FALSE /\ suspect = {}

\* The prefixes a map has an entry for.
Keys(m) == {p \in Prefixes : m[p] # None}

\* The call returns an error.
Fails ==
    /\ failures < MaxFailures
    /\ failures' = failures + 1 /\ clean' = FALSE
Succeeds == UNCHANGED <<failures, clean>>

\* Mutant: only the number of next hops is compared.
nhAddrsEqual_Length(a, b) == Len(a) = Len(b)

nhAddrsEqual(a, b) == a = b

\* Routes without next hops are skipped.
ToProgram(rib) ==
    [p \in Prefixes |-> IF rib[p] = <<>> THEN None ELSE rib[p]]

\* The prefixes whose next hops are not those of programmedRIB.
Changed(m) ==
    {p \in Keys(m) : \/ programmedRIB[p] = None
                     \/ ~nhAddrsEqual(programmedRIB[p], m[p])}

\* Mutant: the groups of removed routes are taken for changed ones.
syncRoutes_AlsoRemoved(rib) ==
    /\ pc = "idle"
    /\ Keys(ToProgram(rib)) # {} \/ Keys(programmedRIB) # {}
    /\ newProgrammed' = ToProgram(rib)
    /\ nhgsToUpdate' = {p \in Prefixes : programmedRIB[p] # ToProgram(rib)[p]}
    /\ pc' = "nhg" /\ clean' = TRUE
    /\ UNCHANGED <<programmedRIB, nhgs, routes, window, failures, endFailed,
                   suspect>>

\* syncRoutes up to its first call; it has nothing to do if both are empty.
syncRoutes(rib) ==
    /\ pc = "idle"
    /\ Keys(ToProgram(rib)) # {} \/ Keys(programmedRIB) # {}
    /\ newProgrammed' = ToProgram(rib)
    /\ nhgsToUpdate' = Changed(ToProgram(rib))
    /\ pc' = "nhg" /\ clean' = TRUE
    /\ UNCHANGED <<programmedRIB, nhgs, routes, window, failures, endFailed,
                   suspect>>

\* Groups are updated before routes refer to them, in the order of a map.
AddOrUpdateNextHopGroup(p) ==
    /\ pc = "nhg" /\ p \in nhgsToUpdate
    /\ nhgsToUpdate' = nhgsToUpdate \ {p}
    /\ \/ /\ Succeeds /\ suspect' = suspect \ {p}
          /\ nhgs' = [nhgs EXCEPT ![p] = Range(newProgrammed[p])]
       \/ /\ Fails /\ suspect' = suspect \cup {p}
          /\ nhgs' \in {nhgs, [nhgs EXCEPT ![p] = Range(newProgrammed[p])]}
    /\ UNCHANGED <<programmedRIB, newProgrammed, pc, routes, window, endFailed>>

\* An error here ends syncRoutes: programmedRIB stays as it was.
RouteSyncStart ==
    /\ pc = "nhg" /\ nhgsToUpdate = {}
    /\ \/ Succeeds /\ window' = {} /\ pc' = "add" /\ UNCHANGED suspect
       \/ /\ Fails /\ window' \in {window, {}} /\ pc' = "idle"
          /\ suspect' = suspect \cup Changed(newProgrammed)
    /\ UNCHANGED <<programmedRIB, newProgrammed, nhgsToUpdate, nhgs, routes,
                   endFailed>>

\* Mutant: only routes that are new are pushed.
AddOrUpdateRoutes_Delta ==
    /\ pc = "add" /\ pc' = "end"
    /\ \E S \in SUBSET (Keys(newProgrammed) \ Keys(programmedRIB)) :
         /\ \/ Succeeds /\ S = Keys(newProgrammed) \ Keys(programmedRIB)
            \/ Fails
         /\ routes' = routes \cup S /\ window' = window \cup S
    /\ UNCHANGED <<programmedRIB, newProgrammed, nhgsToUpdate, nhgs, endFailed,
                   suspect>>

\* All routes, in one request; an error is only logged.
AddOrUpdateRoutes ==
    /\ pc = "add" /\ pc' = "end"
    /\ \E S \in SUBSET Keys(newProgrammed) :
         /\ \/ Succeeds /\ S = Keys(newProgrammed)
            \/ Fails /\ Keys(newProgrammed) # {}
         /\ routes' = routes \cup S /\ window' = window \cup S
    /\ UNCHANGED <<programmedRIB, newProgrammed, nhgsToUpdate, nhgs, endFailed,
                   suspect>>

\* Mutant: the groups are deleted first, SyncEnd comes last.
RouteSyncEnd_Late ==
    /\ pc = "end" /\ pc' = "delete"
    /\ \/ Succeeds /\ endFailed' = FALSE
       \/ Fails /\ endFailed' = TRUE
    /\ UNCHANGED <<programmedRIB, newProgrammed, nhgsToUpdate, nhgs, routes, window,
                   suspect>>

RouteSyncEnd ==
    /\ pc = "end" /\ pc' = "delete"
    /\ \/ Succeeds /\ routes' = window /\ endFailed' = FALSE
       \/ Fails /\ routes' \in {routes, window} /\ endFailed' = TRUE
    /\ UNCHANGED <<programmedRIB, newProgrammed, nhgsToUpdate, nhgs, window, suspect>>

staleNHGs == Keys(programmedRIB) \ Keys(newProgrammed)

\* The groups of removed routes, if any; then programmedRIB = newProgrammed,
\* whatever has failed.
DeleteNextHopGroups ==
    /\ pc = "delete" /\ pc' = "idle"
    /\ \E S \in SUBSET staleNHGs :
         /\ \/ Succeeds /\ S = staleNHGs
            \/ Fails /\ staleNHGs # {}
         /\ nhgs' = [p \in Prefixes |-> IF p \in S THEN None ELSE nhgs[p]]
    /\ programmedRIB' = newProgrammed
    /\ UNCHANGED <<newProgrammed, nhgsToUpdate, routes, window, endFailed, suspect>>

Next ==
    \/ \E rib \in RIBs : syncRoutes(rib)
    \/ \E p \in Prefixes : AddOrUpdateNextHopGroup(p)
    \/ RouteSyncStart
    \/ AddOrUpdateRoutes
    \/ RouteSyncEnd
    \/ DeleteNextHopGroups

Spec == Init /\ [][Next]_vars

-----------------------------------------------------------------------------
(* Properties *)

\* What a map of the agent may say of a prefix, and the NDK of a group.
NextHops == {None} \cup UNION {{r[p] : p \in Prefixes} : r \in RIBs}
Groups == {None} \cup {Range(h) : h \in NextHops \ {None}}

\* The variables keep their types.
TypeOK ==
    /\ programmedRIB \in [Prefixes -> NextHops]
    /\ newProgrammed \in [Prefixes -> NextHops]
    /\ nhgs \in [Prefixes -> Groups]
    /\ nhgsToUpdate \subseteq Keys(newProgrammed)
    /\ pc \in {"idle", "nhg", "add", "end", "delete"}
    /\ routes \subseteq Prefixes /\ window \subseteq Prefixes
    /\ failures \in 0..MaxFailures
    /\ clean \in BOOLEAN /\ endFailed \in BOOLEAN
    /\ suspect \subseteq Prefixes

\* A sync in which no call fails makes up for every failed call before it, as
\* far as routes go: those in the FIB are those of the RIB.
CleanSyncReplacesRoutes ==
    pc = "idle" /\ clean => routes = Keys(programmedRIB)

\* No traffic is cut by a sync: a route whose prefix is still in the RIB is
\* never withdrawn, not even between the calls, unless one of them fails.
NoBlink ==
    [][clean' => \A p \in routes \ routes' : newProgrammed[p] = None]_vars

\* The groups of S are as m says.
Installed(m, S) == \A p \in S : nhgs[p] = Range(m[p])

\* Make before break: at every moment of a sync each route in the FIB has its
\* next-hop group, unless the group is suspect, or a failed SyncEnd has left a
\* route behind whose group is deleted.
NoDanglingRoute == endFailed \/ \A p \in routes \ suspect : nhgs[p] # None

\* Although a sync updates only the groups whose next hops differ from
\* programmedRIB, programmedRIB can be trusted: between syncs a group has other
\* next hops only if its own last update failed or went unrecorded.
WrongOnlyIfSuspect ==
    pc = "idle" => Installed(programmedRIB, Keys(programmedRIB) \ suspect)

\* What a sync without failures has achieved after each of its calls.
RouteInv ==
    /\ pc = "add" => window = {}
    /\ pc = "end" /\ clean => window = Keys(newProgrammed)
    /\ pc = "delete" /\ clean => routes = Keys(newProgrammed)
    /\ pc = "idle" /\ clean => routes = Keys(programmedRIB)

\* What programmedRIB says of a group that is not suspect is true between
\* syncs.  During one, what is left to update accounts for every difference to
\* the new RIB, and no group of either RIB is missing.
GroupInv ==
    /\ WrongOnlyIfSuspect
    /\ pc = "nhg" =>
         /\ nhgsToUpdate \subseteq Changed(newProgrammed)
         /\ Installed(newProgrammed,
                      Keys(newProgrammed) \ (nhgsToUpdate \cup suspect))
         /\ Installed(programmedRIB,
                      Keys(programmedRIB) \ (Keys(newProgrammed) \cup suspect))
    /\ pc \in {"add", "end", "delete"} =>
         Installed(newProgrammed, Keys(newProgrammed) \ suspect)
    /\ \A p \in Keys(programmedRIB) \ suspect : nhgs[p] # None

\* Where the routes of the FIB come from, unless a SyncEnd has failed.
OriginInv ==
    /\ pc = "end" => window \subseteq Keys(newProgrammed)
    /\ pc \in {"idle", "nhg"} /\ ~endFailed => routes \subseteq Keys(programmedRIB)
    /\ pc \in {"add", "end"} /\ ~endFailed =>
         routes \subseteq Keys(programmedRIB) \cup Keys(newProgrammed)
    /\ pc = "delete" /\ ~endFailed => routes \subseteq Keys(newProgrammed)

\* The inductive invariant of a sync.
SyncInv == RouteInv /\ GroupInv /\ OriginInv
=============================================================================
