-------------------------- MODULE MCMultiplexPeer --------------------------
(* Two sessions of a thread, one of them mobile, and three peers: two      *)
(* ports of one host and a host of the other address family.               *)
EXTENDS MultiplexPeer

CONSTANTS s1, s2, h4, h6, v4, v6

MCSess == {s1, s2}
MCMobile == {s2}
MCHost == {h4, h6}
MCPeer == {<<h4, 1>>, <<h4, 2>>, <<h6, 1>>}
MCFamily == {v4, v6}
MCFamilyOf == [h \in MCHost |-> IF h = h6 THEN v6 ELSE v4]

=============================================================================
