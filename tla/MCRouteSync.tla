---------------------------- MODULE MCRouteSync -----------------------------
(***************************************************************************)
(* Two prefixes over two next hops: none, one, the other, and both in      *)
(* either order.                                                           *)
(***************************************************************************)
EXTENDS RouteSync

MCPrefixes == {"p", "q"}
MCRIBs == [MCPrefixes -> {None, <<>>, <<"a">>, <<"b">>, <<"a", "b">>, <<"b", "a">>}]
=============================================================================
