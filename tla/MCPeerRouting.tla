--------------------------- MODULE MCPeerRouting ---------------------------
(* PeerRouting with two clients, one of them behind the peer's own IP, or
   both elsewhere.  Both ask for the peer; for the server's schedule one of
   them also for a second peer, the other for the relay IP. *)
EXTENDS PeerRouting

CONSTANTS a1, relay, x, y

MCClientIp == [i \in Allocs |-> IF i = a1 THEN y ELSE x]
MCClientIpApart == [i \in Allocs |-> y]
MCAddrIp == [a \in Addrs |-> x]
MCAsksFor == [i \in Allocs |-> IF i = a1 THEN {x, y} ELSE {x, relay}]
MCPinging == Allocs \ {a1}
MCAsksForAll == [i \in Allocs |-> IPs]
============================================================================
