--------------------------- MODULE MCLieInterface ---------------------------
(***************************************************************************)
(* A spine (system 1, level 1) whose link may deliver every kind of LIE    *)
(* processLIE tells apart.                                                 *)
(***************************************************************************)
EXTENDS LieInterface

MCSelf == [systemID |-> 1, level |-> 1, localID |-> 1, address |-> 1,
           floodPort |-> 1]

Good == [version |-> 8, sender |-> 2, level |-> 0, mtu |-> 1400, src |-> 2,
         localID |-> 2, floodPort |-> 1, holdtime |-> 1, neighbor |-> None]
Reflects == [originator |-> 1, remoteID |-> 1]

MCPackets ==
    { Good,
      [Good EXCEPT !.neighbor = Reflects],
      [Good EXCEPT !.neighbor = Reflects, !.floodPort = 2],
      [Good EXCEPT !.neighbor = [originator |-> 3, remoteID |-> 1]],
      [Good EXCEPT !.neighbor = Reflects, !.level = 2],
      [Good EXCEPT !.neighbor = Reflects, !.src = 3],
      [Good EXCEPT !.neighbor = Reflects, !.holdtime = 0],
      [Good EXCEPT !.sender = 3],
      [Good EXCEPT !.mtu = 1500],
      [Good EXCEPT !.level = NoLevel],
      [Good EXCEPT !.level = 3],
      [Good EXCEPT !.version = 7],
      [Good EXCEPT !.sender = 1],
      [Good EXCEPT !.sender = IllegalSystemID] }

\* The handshake of one neighbor, disturbed by a second station.
MCHandshakePackets ==
    { Good,
      [Good EXCEPT !.neighbor = Reflects],
      [Good EXCEPT !.neighbor = [originator |-> 3, remoteID |-> 1]],
      [Good EXCEPT !.sender = 3],
      [Good EXCEPT !.version = 7] }

\* A link with the neighbor's own LIEs and one of another protocol version.
MCTwoPackets ==
    { [Good EXCEPT !.neighbor = Reflects], [Good EXCEPT !.version = 7] }
=============================================================================
