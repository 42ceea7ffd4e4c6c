--------------------------- MODULE MCTurnSession ---------------------------
(* Small instances of TurnSession for TLC. *)
EXTENDS TurnSession, TLC

CONSTANTS h1, h2, p1, q1, p2, c1, c2

MCHosts == {h1, h2}
MCPeers == {p1, p2}
MCHostOf == (p1 :> h1) @@ (p2 :> h2)
MCFamilyOf == (h1 :> "v4") @@ (h2 :> "v6")
MCLists == {{}, {h1}}

\* one host with two ports
MCHost1 == {h1}
MCPorts == {p1, q1}
MCPortsHostOf == (p1 :> h1) @@ (q1 :> h1)
MCFamilyOf1 == (h1 :> "v4")

\* channel numbers are only compared for equality
MCSymmetry == Permutations({c1, c2})

=============================================================================
