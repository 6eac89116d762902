---------------------------- MODULE MCSouthbound ----------------------------
(***************************************************************************)
(* Node 1 computes; nodes 2, 3 and 4 are below it and below one another.   *)
(* Every set of links between the four with the cost not given or 3 (so    *)
(* that longer ways can be nearer, or equally near), every set of them     *)
(* with some not listed from below; a node that is overloaded, and an      *)
(* adjacency that node 1 has lost while its South Node TIE still lists it. *)
(***************************************************************************)
EXTENDS Southbound

Absent == [cost |-> 0, back |-> FALSE]
Plain == [cost |-> None, back |-> TRUE]
Long == [cost |-> 3, back |-> TRUE]
NotListed == [cost |-> None, back |-> FALSE]
Pairs == {p \in Nodes \X Nodes : p[1] < p[2]}
LevelOf(n) == 4 - n

\* The TIEs of four nodes with the given links.
Tie(links, overloaded, id) ==
    LET n == id.orig
        below == {m \in n + 1..4 : links[<<n, m>>] # Absent}
        above == {m \in 1..n - 1 : links[<<m, n>>].back}
    IN  CASE id.dir = South /\ id.type = NodeTIE /\ n < 4 ->
               [level |-> LevelOf(n), overload |-> n \in overloaded,
                neighbors |-> [m \in below |-> [level |-> LevelOf(m),
                                                cost |-> links[<<n, m>>].cost]]]
          [] id.dir = North /\ id.type = NodeTIE /\ above # {} ->
               [level |-> LevelOf(n), overload |-> FALSE,
                neighbors |-> [m \in above |-> [level |-> LevelOf(m),
                                                cost |-> None]]]
          [] id.dir = North /\ id.type = PrefixTIE /\ n > 2 ->
               IF n = 3 THEN [p \in {"p"} |-> 2] ELSE [p \in {"p", "q"} |-> 1]
          [] OTHER -> None

Snapshot(links, overloaded, adjacent) ==
    [systemID |-> 1, level |-> LevelOf(1),
     adjacencies |-> [m \in adjacent |-> LevelOf(m)],
     entries |-> [id \in TIEID(Nodes) |-> Tie(links, overloaded, id)]]

MCSnapshots ==
    {Snapshot(links, {}, {2, 3, 4}) :
        links \in [Pairs -> {Absent, Plain, Long}]
                 \cup [Pairs -> {Absent, Plain, NotListed}]}
    \cup {Snapshot(links, overloaded, adjacent) :
            links \in [Pairs -> {Absent, Plain}],
            overloaded \in {{}, {2}, {3}},
            adjacent \in {{2, 3, 4}, {2, 3}, {3, 4}}}
=============================================================================
