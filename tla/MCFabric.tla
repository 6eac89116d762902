------------------------------ MODULE MCFabric ------------------------------
(***************************************************************************)
(* Spines 1 and 2, leaves 3, 4 and 5; two leaves have prefix "p".  A whole *)
(* fabric in which one link fails; one in which the failed link recovers;  *)
(* one that has lost two links already and a third changes; and one        *)
(* without leaf 5 in which a link fails and recovers, two links of         *)
(* different nodes fail, or a spine loses both its links.                  *)
(***************************************************************************)
EXTENDS Fabric

MCLeafPrefixes == [l \in Leaves |-> CASE l = 3 -> {"p"} [] l = 4 -> {"q"}
                                      [] OTHER -> {"p", "r"}]

Start(L, changing, times) ==
    [links |-> L, faults |-> [l \in Link |-> IF l \in changing THEN times ELSE 0]]
Square == Spines \X {3, 4}

MCStarts ==
    {Start(Link, {<<1, l>>}, 1) : l \in Leaves}
    \cup {Start(Link \ {<<1, l>>}, {<<1, l>>}, 1) : l \in Leaves}
    \cup {Start(Link \ {<<1, 3>>, <<2, 4>>}, {<<1, 5>>}, 1),
          Start(Square, {<<1, 4>>}, 2),
          Start(Square, {<<1, 4>>, <<2, 3>>}, 1),
          Start(Square, {<<1, 3>>, <<1, 4>>}, 1)}
=============================================================================
