----------------------------- MODULE MCLieLink ------------------------------
(***************************************************************************)
(* A leaf and a spine on their link, and a spine to take the other's place.*)
(***************************************************************************)
EXTENDS LieLink

Station(i, lvl) == [systemID |-> i, level |-> lvl, localID |-> i,
                    address |-> i, floodPort |-> 1]
MCStations == {Station(1, 0), Station(2, 1), Station(3, 1)}
MCSpares == {Station(3, 1)}
=============================================================================
