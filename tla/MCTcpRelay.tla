----------------------------- MODULE MCTcpRelay -----------------------------
(* Two sessions of different users, two peers, two connections and one id, *)
(* which is used again and again.                                          *)
EXTENDS TcpRelay, TLC

CONSTANTS s1, s2, alice, bob, p1, p2, v4, c1, c2, i1

MCSess == {s1, s2}
MCUser == {alice, bob}
MCUserOf == s1 :> alice @@ s2 :> bob
MCFamily == {v4}
MCPeer == {p1, p2}
MCFamilyOf == p1 :> v4 @@ p2 :> v4
MCConn == {c1, c2}
MCId == {i1}

=============================================================================
