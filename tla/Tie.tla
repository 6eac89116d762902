-------------------------------- MODULE Tie ---------------------------------
(***************************************************************************)
(* TIEs as the flood engine and SPF share them: their IDs                  *)
(* (internal/encoding) and the scope in which they are flooded             *)
(* (internal/tie/scope.go and shouldAcceptTIE of flood.go).                *)
(***************************************************************************)
EXTENDS Integers

South == 1
North == 2
NodeTIE == 2
PrefixTIE == 3
PosDisaggTIE == 4
LeafLevel == 0
TopOfFabricLevel == 24
DefaultRoute == "0.0.0.0/0"

\* TIENr is always 1 in the code and is left out.
TIEID(nodes) == [dir : {South, North}, orig : nodes,
                 type : {NodeTIE, PrefixTIE, PosDisaggTIE}]

\* Mutant: South Node TIEs of others are not reflected.
ShouldFloodTIE_NoReflection(id, self, localLevel, neighborLevel) ==
    IF id.dir = North THEN neighborLevel > localLevel
    ELSE /\ neighborLevel = localLevel => localLevel < TopOfFabricLevel
         /\ id.orig = self

\* Node self, at localLevel, and its adjacency to a node at neighborLevel.
ShouldFloodTIE(id, self, localLevel, neighborLevel) ==
    IF id.dir = North THEN neighborLevel > localLevel
    ELSE /\ neighborLevel = localLevel => localLevel < TopOfFabricLevel
         /\ id.type = NodeTIE \/ id.orig = self

ShouldIncludeInTIDE(id, self, localLevel, neighborLevel) ==
    CASE neighborLevel < localLevel ->
           IF id.dir = North THEN id.orig # self
           ELSE id.orig = self \/ id.type = NodeTIE
      [] neighborLevel > localLevel ->
           id.dir = North \/ id.type = NodeTIE \/ id.orig = self
      [] neighborLevel = localLevel ->
           IF localLevel >= TopOfFabricLevel THEN id.dir = North
           ELSE id.orig = self

\* Mutant: whatever a neighbor has is accepted.
shouldAcceptTIE_All(id, self, level, neighborLevel) == TRUE

shouldAcceptTIE(id, self, level, neighborLevel) ==
    \/ id.orig = self
    \/ id.dir = North /\ neighborLevel < level
    \/ id.dir = South /\ (id.type = NodeTIE \/ neighborLevel > level)
=============================================================================
