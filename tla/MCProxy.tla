------------------------------ MODULE MCProxy ------------------------------
\* Bounded instances of Proxy.
EXTENDS Proxy

CONSTANT Settings    \* what the files say of an upstream's settings

Route(match, upstream) == [match |-> match, upstream |-> upstream, parses |-> TRUE]
File(names, routes, default) ==
    [parses |-> TRUE, upstreams |-> [u \in names |-> Settings], routes |-> routes,
     default |-> default]

ProxyDestinations == {"address", "host"}
First == File({"dev"}, <<Route({"host"}, "dev")>>, Blank)
Rerouted == File({"dev"}, <<Route({"host"}, DirectName), Route({"address"}, "dev"),
                             Route({"host"}, "dev")>>, Blank)
Renamed == File({"prod"}, <<Route({"host"}, "prod")>>, DirectName)
HalfWritten == [First EXCEPT !.parses = FALSE]
BadRoute == [Rerouted EXCEPT !.routes = <<[Route({"address"}, "dev") EXCEPT !.parses = FALSE]>>]
ReloadDestinations == {"host"}
ProxyFiles == {First, Rerouted, Renamed, HalfWritten, BadRoute}
=============================================================================
