------------------------------ MODULE LieSteps ------------------------------
(***************************************************************************)
(* The states of a LIE FSM as handleAdjacencyEvent of the agent tells them *)
(* apart, and the changes of state that reach it as an event.              *)
(***************************************************************************)
LieState == {"OneWay", "TwoWay", "ThreeWay"}

\* MultipleNeighborsWait is, for the agent, another OneWay.
AsSeen(s) == IF s = "MultipleNeighborsWait" THEN "OneWay" ELSE s

\* The end of MultipleNeighborsWait is a second OneWay event in a row.
LieStep == {<<"OneWay", "TwoWay">>, <<"OneWay", "OneWay">>,
            <<"TwoWay", "ThreeWay">>, <<"TwoWay", "OneWay">>,
            <<"ThreeWay", "TwoWay">>, <<"ThreeWay", "OneWay">>}
=============================================================================
