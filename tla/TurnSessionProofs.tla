------------------------- MODULE TurnSessionProofs -------------------------
(***************************************************************************)
(* Proofs about a session and the listener that starts sessions: the       *)
(* safety properties of a session, for any peers, channel numbers and      *)
(* lifetimes, and the children of the UDP listener, for any clients and    *)
(* any number of sockets and sessions.                                     *)
(***************************************************************************)
EXTENDS TurnSession, UdpListener, TLAPS

(* A leaf that names no prover goes to the SMT solver, for up to 30 seconds. *)
USE SMTT(30)

-----------------------------------------------------------------------------
(* The children of the UDP listener: UdpListener *)

UlSockRecord ==
  [kind : {"free", "udp", "dtls"}, remote : UlClient \cup {0}, fd : {"none", "listener", "own"},
   parent : BOOLEAN, inmap : BOOLEAN, tbc : BOOLEAN, ses : UlSes \cup {0}]
UlSesRecord ==
  [open : BOOLEAN, sock : UlSock \cup {0}, alloc : {"none", "plain", "mobile"}, relay : BOOLEAN,
   closing : BOOLEAN]
UlState(l, M, K, E, f) == [lis |-> l, map |-> M, sock |-> K, ses |-> E, faults |-> f]

(* The child that the map has for an address has a session, and a socket   *)
(* with the listener's descriptor knows its parent.                        *)
Child(x, c) ==
  x.kind # "free" /\ x.remote = c /\ x.inmap /\ (x.fd = "listener" \/ x.tbc) /\ x.ses # 0
UlFacts(l, M, K, E) ==
  /\ l \in [fd : {"open", "failed"}, event : BOOLEAN]
  /\ M \in [UlClient -> UlSock \cup {0}]
  /\ K \in [UlSock -> UlSockRecord] /\ E \in [UlSes -> UlSesRecord]
  /\ \A c \in UlClient : M[c] # 0 => Child(K[M[c]], c)
  /\ \A s \in UlSock : K[s].fd = "listener" => K[s].parent
UlGood(u) ==
  /\ u = UlState(u.lis, u.map, u.sock, u.ses, u.faults)
  /\ UlFacts(u.lis, u.map, u.sock, u.ses)
NotMapped(M, s) == \A c \in UlClient : M[c] # s

LEMMA UlNoZero == 0 \notin UlSock /\ 0 \notin UlSes
  BY DEF UlSock, UlSes

LEMMA FreeTypes ==
  FreeSock \in UlSockRecord /\ FreeSock.fd # "listener" /\ FreeSes \in UlSesRecord
  BY DEF FreeSock, FreeSes, UlSockRecord, UlSesRecord

LEMMA UlGoodOf ==
  ASSUME NEW l, NEW M, NEW K, NEW E, NEW f, UlFacts(l, M, K, E),
         NEW u, u = UlState(l, M, K, E, f)
  PROVE  UlGood(u)
  <1>1. u.lis = l /\ u.map = M /\ u.sock = K /\ u.ses = E /\ u.faults = f
    BY DEF UlState
  <1> QED
    BY <1>1 DEF UlGood

LEMMA SockChanged ==
  ASSUME NEW l, NEW M, NEW K, NEW E, UlFacts(l, M, K, E), NEW s \in UlSock,
         NEW x \in UlSockRecord, x.fd = "listener" => x.parent,
         \A c \in UlClient : M[c] = s => Child(x, c)
  PROVE  UlFacts(l, M, [K EXCEPT ![s] = x], E)
  <1> DEFINE K2 == [K EXCEPT ![s] = x]
  <1>1. K2 \in [UlSock -> UlSockRecord] /\ K2[s] = x /\ \A t \in UlSock : t # s => K2[t] = K[t]
    BY DEF UlFacts
  <1> HIDE DEF K2
  <1>2. ASSUME NEW c \in UlClient, M[c] # 0 PROVE Child(K2[M[c]], c)
    <2>1. M[c] \in UlSock /\ Child(K[M[c]], c)
      BY <1>2 DEF UlFacts
    <2> QED
      BY <1>1, <2>1
  <1>3. \A t \in UlSock : K2[t].fd = "listener" => K2[t].parent
    BY <1>1 DEF UlFacts
  <1> QED
    BY <1>1, <1>2, <1>3 DEF UlFacts, K2

LEMMA SesChanged ==
  ASSUME NEW l, NEW M, NEW K, NEW E, UlFacts(l, M, K, E), NEW n \in UlSes,
         NEW y \in UlSesRecord
  PROVE  UlFacts(l, M, K, [E EXCEPT ![n] = y])
  BY DEF UlFacts

LEMMA EntryCleared ==
  ASSUME NEW l, NEW M, NEW K, NEW E, UlFacts(l, M, K, E), NEW c
  PROVE  UlFacts(l, [M EXCEPT ![c] = 0], K, E)
  <1>1. PICK M2 : M2 = [M EXCEPT ![c] = 0]
    BY ZenonT(30)
  <1>2. M2 \in [UlClient -> UlSock \cup {0}] /\ \A a \in UlClient : M2[a] = 0 \/ M2[a] = M[a]
    BY ZenonT(30), <1>1 DEF UlFacts
  <1>3. UlFacts(l, M2, K, E)
    BY <1>2 DEF UlFacts
  <1> QED
    BY <1>1, <1>3

LEMMA SockFields ==
  ASSUME NEW x \in UlSockRecord
  PROVE  /\ x.kind \in {"free", "udp", "dtls"} /\ x.remote \in UlClient \cup {0}
         /\ x.ses \in UlSes \cup {0} /\ x.inmap \in BOOLEAN /\ x.tbc \in BOOLEAN
         /\ x.parent \in BOOLEAN
  BY DEF UlSockRecord

(* A socket that the map does not have is changed as one likes.            *)

-----------------------------------------------------------------------------
(* Client sockets *)

LEMMA LeavesMap ==
  ASSUME NEW u, UlGood(u), NEW s \in UlSock, NEW v, v = delete_socket_from_map(u, s)
  PROVE  /\ UlGood(v) /\ NotMapped(v.map, s) /\ v.ses = u.ses
         /\ \A r \in UlSock : r # s => v.sock[r] = u.sock[r]
  <1>1. PICK l, M, K, E, f : u = UlState(l, M, K, E, f) /\ UlFacts(l, M, K, E)
    BY DEF UlGood
  <1>2. u.map = M /\ u.sock = K /\ u.ses = E
    BY <1>1 DEF UlState
  <1>3. PICK x : x = K[s]
    OBVIOUS
  <1>4. x \in UlSockRecord /\ (x.fd = "listener" => x.parent)
    BY <1>1, <1>3 DEF UlFacts
  <1>5. CASE ~x.inmap
    <2>1. v = u
      BY <1>2, <1>3, <1>5 DEF delete_socket_from_map
    <2>2. NotMapped(M, s)
      BY <1>1, <1>3, <1>5, UlNoZero DEF UlFacts, Child, NotMapped
    <2> QED
      BY <1>2, <2>1, <2>2
  <1>6. CASE x.inmap
    <2>1. PICK y : y = [x EXCEPT !.inmap = FALSE]
      BY ZenonT(30)
    <2>2. y \in UlSockRecord /\ (y.fd = "listener" => y.parent)
      BY ZenonT(30), <1>4, <2>1 DEF UlSockRecord
    <2>3. PICK M2, K2 : M2 = [M EXCEPT ![x.remote] = 0] /\ K2 = [K EXCEPT ![s] = y]
      BY ZenonT(30)
    <2>4. v = UlState(l, M2, K2, E, f)
      <3>1. v = [u EXCEPT !.map[x.remote] = 0, !.sock[s].inmap = FALSE]
        BY <1>2, <1>3, <1>6 DEF delete_socket_from_map
      <3> QED
        BY ZenonT(30), <1>1, <1>2, <1>3, <2>1, <2>3, <3>1 DEF UlState
    <2>5. NotMapped(M2, s)
      <3> SUFFICES ASSUME NEW c \in UlClient, M2[c] = s PROVE FALSE
        BY DEF NotMapped
      <3>1. M \in [UlClient -> UlSock \cup {0}]
        BY <1>1 DEF UlFacts
      <3>2. c # x.remote /\ M[c] = s
        BY <2>3, <3>1, UlNoZero
      <3> QED
        BY <1>1, <1>3, <3>2, UlNoZero DEF UlFacts, Child
    <2>6. UlFacts(l, M2, K, E)
      BY ZenonT(30), <1>1, <2>3, EntryCleared
    <2>7. UlFacts(l, M2, K2, E)
      BY ZenonT(30), <2>2, <2>3, <2>5, <2>6, SockChanged DEF NotMapped
    <2>8. UlGood(v) /\ v.map = M2 /\ v.sock = K2 /\ v.ses = E
      BY <2>4, <2>7, UlGoodOf DEF UlState
    <2>9. \A r \in UlSock : r # s => K2[r] = K[r]
      BY <1>1, <2>3 DEF UlFacts
    <2> QED
      BY <1>2, <2>5, <2>8, <2>9
  <1> QED
    BY <1>4, <1>5, <1>6

LEMMA LeavesParent ==
  ASSUME NEW u, UlGood(u), NEW s \in UlSock, NotMapped(u.map, s),
         NEW v, v = delete_socket_from_parent(u, s)
  PROVE  /\ UlGood(v) /\ v.map = u.map /\ v.ses = u.ses /\ v.sock[s].fd # "listener"
         /\ \A r \in UlSock : r # s => v.sock[r] = u.sock[r]
  <1>1. PICK l, M, K, E, f : u = UlState(l, M, K, E, f) /\ UlFacts(l, M, K, E)
    BY DEF UlGood
  <1>2. u.map = M /\ u.sock = K /\ u.ses = E
    BY <1>1 DEF UlState
  <1>3. PICK x : x = K[s]
    OBVIOUS
  <1>4. x \in UlSockRecord /\ (x.fd = "listener" => x.parent)
    BY <1>1, <1>3 DEF UlFacts
  <1>5. CASE ~x.parent
    <2>1. v = u
      BY <1>2, <1>3, <1>5 DEF delete_socket_from_parent
    <2> QED
      BY <1>2, <1>3, <1>4, <1>5, <2>1
  <1>6. CASE x.parent
    <2>1. PICK y : y = [x EXCEPT !.parent = FALSE, !.fd = "none"]
      OBVIOUS
    <2>2. y \in UlSockRecord /\ y.fd = "none"
      BY ZenonT(30), <1>4, <2>1 DEF UlSockRecord
    <2>3. PICK K2 : K2 = [K EXCEPT ![s] = y]
      BY ZenonT(30)
    <2>4. v = UlState(l, M, K2, E, f)
      <3>1. v = [u EXCEPT !.sock[s].parent = FALSE, !.sock[s].fd = "none"]
        BY <1>2, <1>3, <1>6 DEF delete_socket_from_parent
      <3>2. K \in [UlSock -> UlSockRecord]
        BY <1>1 DEF UlFacts
      <3>3. [K EXCEPT ![s].parent = FALSE, ![s].fd = "none"] = K2
        BY ZenonT(30), <1>3, <2>1, <2>3, <3>2
      <3> QED
        BY ZenonT(30), <1>1, <3>1, <3>3 DEF UlState
    <2>5. UlFacts(l, M, K2, E)
      BY ZenonT(30), <1>1, <1>2, <2>2, <2>3, SockChanged DEF NotMapped
    <2>6. UlGood(v) /\ v.map = M /\ v.sock = K2 /\ v.ses = E
      BY <2>4, <2>5, UlGoodOf DEF UlState
    <2>7. K2[s] = y /\ \A r \in UlSock : r # s => K2[r] = K[r]
      BY <1>1, <2>3 DEF UlFacts
    <2> QED
      BY <1>2, <2>2, <2>6, <2>7
  <1> QED
    BY <1>4, <1>5, <1>6

LEMMA Freed ==
  ASSUME NEW u, UlGood(u), NEW s \in UlSock, NotMapped(u.map, s), NEW v, v = SocketFreed(u, s)
  PROVE  UlGood(v) /\ v.map = u.map /\ \A r \in UlSock : r # s => v.sock[r] = u.sock[r]
  <1>1. PICK l, M, K, E, f : u = UlState(l, M, K, E, f) /\ UlFacts(l, M, K, E)
    BY DEF UlGood
  <1>2. u.map = M /\ u.sock = K /\ u.ses = E
    BY <1>1 DEF UlState
  <1>3. PICK E2 : E2 = [n \in UlSes |-> IF n = K[s].ses /\ E[n].sock = s
                                        THEN [E[n] EXCEPT !.sock = 0] ELSE E[n]]
    BY ZenonT(30)
  <1>4. PICK K2 : K2 = [K EXCEPT ![s] = FreeSock]
    BY ZenonT(30)
  <1>5. v = UlState(l, M, K2, E2, f)
    BY ZenonT(30), <1>1, <1>2, <1>3, <1>4 DEF UlState, SocketFreed
  <1>6. E2 \in [UlSes -> UlSesRecord]
    <2>1. \A n \in UlSes : E[n] \in UlSesRecord
      BY <1>1 DEF UlFacts
    <2>2. \A y \in UlSesRecord : [y EXCEPT !.sock = 0] \in UlSesRecord
      BY DEF UlSesRecord
    <2> QED
      BY <1>3, <2>1, <2>2
  <1>7. UlFacts(l, M, K2, E)
    BY ZenonT(30), <1>1, <1>2, <1>4, SockChanged DEF NotMapped, UlSockRecord, FreeSock
  <1>8. UlFacts(l, M, K2, E2)
    BY ZenonT(30), <1>6, <1>7 DEF UlFacts
  <1>9. UlGood(v) /\ v.map = M /\ v.sock = K2
    BY <1>5, <1>8, UlGoodOf DEF UlState
  <1>10. \A r \in UlSock : r # s => K2[r] = K[r]
    BY <1>1, <1>4 DEF UlFacts
  <1> QED
    BY <1>2, <1>9, <1>10

LEMMA MapShrinks ==
  ASSUME NEW u, UlGood(u), NEW s \in UlSock, NEW a, a = delete_socket_from_map(u, s),
         NEW r \in UlSock, NotMapped(u.map, r)
  PROVE  NotMapped(a.map, r)
  <1>1. u = UlState(u.lis, u.map, u.sock, u.ses, u.faults) /\ u.map \in [UlClient -> UlSock \cup {0}]
    BY DEF UlGood, UlFacts
  <1>2. a = u \/ a = [u EXCEPT !.map[u.sock[s].remote] = 0, !.sock[s].inmap = FALSE]
    BY DEF delete_socket_from_map
  <1>3. a.map = u.map \/ a.map = [u.map EXCEPT ![u.sock[s].remote] = 0]
    BY ZenonT(30), <1>1, <1>2 DEF UlState
  <1>4. \A c \in UlClient : a.map[c] = u.map[c] \/ a.map[c] = 0
    BY <1>1, <1>3
  <1> QED
    BY ZenonT(30), <1>4, UlNoZero DEF NotMapped

(* Closing a socket only takes entries out of the map and never touches    *)
(* the listener's descriptor: it has left its parent before.               *)
LEMMA Closed ==
  ASSUME NEW u, UlGood(u), NEW s \in UlSock \cup {0}, NEW v, v = close_ioa_socket(u, s)
  PROVE  /\ UlGood(v) /\ \A r \in UlSock : r # s => v.sock[r] = u.sock[r]
         /\ \A r \in UlSock : NotMapped(u.map, r) => NotMapped(v.map, r)
         /\ s # 0 => NotMapped(v.map, s)
  <1>1. CASE s = 0
    BY <1>1 DEF close_ioa_socket
  <1>2. CASE s # 0
    <2>1. PICK a : a = delete_socket_from_map(u, s)
      OBVIOUS
    <2>2. PICK b : b = delete_socket_from_parent(a, s)
      OBVIOUS
    <2>3. /\ UlGood(a) /\ NotMapped(a.map, s) /\ \A r \in UlSock : r # s => a.sock[r] = u.sock[r]
      BY <1>2, <2>1, LeavesMap
    <2>4. /\ UlGood(b) /\ b.map = a.map /\ b.sock[s].fd # "listener"
          /\ \A r \in UlSock : r # s => b.sock[r] = a.sock[r]
      BY <1>2, <2>2, <2>3, LeavesParent
    <2>5. v = SocketFreed(b, s)
      BY <1>2, <2>1, <2>2, <2>4 DEF close_ioa_socket, close_socket_net_data
    <2>6. UlGood(v) /\ v.map = b.map /\ \A r \in UlSock : r # s => v.sock[r] = b.sock[r]
      BY <1>2, <2>3, <2>4, <2>5, Freed
    <2>7. \A r \in UlSock : NotMapped(u.map, r) => NotMapped(a.map, r)
      BY <1>2, <2>1, MapShrinks
    <2> QED
      BY <1>2, <2>3, <2>4, <2>6, <2>7
  <1> QED
    BY ZenonT(30), <1>1, <1>2

LEMMA SockSet ==
  ASSUME NEW u, UlGood(u), NEW s \in UlSock, NEW x \in UlSockRecord,
         x.fd = "listener" => x.parent, \A c \in UlClient : u.map[c] = s => Child(x, c),
         NEW g, NEW v, v = UlState(u.lis, u.map, [u.sock EXCEPT ![s] = x], u.ses, g)
  PROVE  UlGood(v) /\ v.map = u.map /\ v.ses = u.ses /\ v.sock = [u.sock EXCEPT ![s] = x]
  <1>1. UlFacts(u.lis, u.map, [u.sock EXCEPT ![s] = x], u.ses)
    BY ZenonT(30), SockChanged DEF UlGood
  <1>2. UlGood(v)
    BY <1>1, UlGoodOf
  <1> QED
    BY ZenonT(30), <1>2 DEF UlState

LEMMA SesSet ==
  ASSUME NEW u, UlGood(u), NEW n \in UlSes, NEW y \in UlSesRecord,
         NEW v, v = UlState(u.lis, u.map, u.sock, [u.ses EXCEPT ![n] = y], u.faults)
  PROVE  UlGood(v) /\ v.map = u.map /\ v.sock = u.sock /\ v.ses = [u.ses EXCEPT ![n] = y]
  <1>1. UlFacts(u.lis, u.map, u.sock, [u.ses EXCEPT ![n] = y])
    BY SesChanged DEF UlGood
  <1>2. UlGood(v)
    BY <1>1, UlGoodOf
  <1> QED
    BY <1>2 DEF UlState

(* A socket that is marked to be closed stays the child it was.            *)
LEMMA Marked ==
  ASSUME NEW u, UlGood(u), NEW s \in UlSock, NEW g,
         NEW v, v = UlState(u.lis, u.map, [u.sock EXCEPT ![s].tbc = TRUE], u.ses, g)
  PROVE  UlGood(v) /\ v.map = u.map /\ v.ses = u.ses
  <1>1. PICK x : x = u.sock[s]
    OBVIOUS
  <1>2. x \in UlSockRecord /\ (x.fd = "listener" => x.parent)
    BY <1>1 DEF UlGood, UlFacts
  <1>3. PICK y : y = [x EXCEPT !.tbc = TRUE]
    BY ZenonT(30)
  <1>4. /\ y \in UlSockRecord /\ y.tbc /\ y.fd = x.fd /\ y.parent = x.parent /\ y.kind = x.kind
        /\ y.remote = x.remote /\ y.inmap = x.inmap /\ y.ses = x.ses
    BY ZenonT(30), <1>2, <1>3 DEF UlSockRecord
  <1>5. \A c \in UlClient : u.map[c] = s => Child(y, c)
    BY <1>1, <1>4, UlNoZero DEF UlGood, UlFacts, Child
  <1>6. v = UlState(u.lis, u.map, [u.sock EXCEPT ![s] = y], u.ses, g)
    BY <1>1, <1>3
  <1> QED
    BY <1>2, <1>4, <1>5, <1>6, SockSet

LEMMA FreeNotMapped ==
  ASSUME NEW u, UlGood(u), NEW r \in UlSock, u.sock[r].kind = "free"
  PROVE  NotMapped(u.map, r)
  BY ZenonT(30), UlNoZero DEF UlGood, UlFacts, Child, NotMapped

LEMMA Detached ==
  ASSUME NEW u, UlGood(u), NEW s \in UlSock, NEW r \in UlSock, NotMapped(u.map, r),
         NEW v, v = detach_ioa_socket(u, s, r)
  PROVE  UlGood(v) /\ NotMapped(v.map, s) /\ NotMapped(v.map, r)
  <1>1. PICK a : a = delete_socket_from_map(u, s)
    OBVIOUS
  <1>2. PICK b : b = delete_socket_from_parent(a, s)
    OBVIOUS
  <1>3. UlGood(a) /\ NotMapped(a.map, s)
    BY <1>1, LeavesMap
  <1>4. UlGood(b) /\ b.map = a.map
    BY <1>2, <1>3, LeavesParent
  <1>5. NotMapped(a.map, r)
    BY <1>1, MapShrinks
  <1>6. PICK x : x = b.sock[s]
    OBVIOUS
  <1>7. x \in UlSockRecord
    BY <1>4, <1>6 DEF UlGood, UlFacts
  <1>8. PICK y : y = [x EXCEPT !.tbc = TRUE, !.fd = "none"]
    OBVIOUS
  <1>9. y \in UlSockRecord /\ y.fd # "listener"
    BY ZenonT(30), <1>7, <1>8 DEF UlSockRecord
  <1>10. PICK z : z = [FreeSock EXCEPT !.kind = u.sock[s].kind, !.remote = u.sock[s].remote,
                                       !.fd = "own"]
    OBVIOUS
  <1>11. z \in UlSockRecord /\ z.fd # "listener"
    <2>1. u.sock[s] \in UlSockRecord
      BY DEF UlGood, UlFacts
    <2>2. u.sock[s].kind \in {"free", "udp", "dtls"} /\ u.sock[s].remote \in UlClient \cup {0}
      BY <2>1, SockFields
    <2> QED
      BY ZenonT(30), <1>10, <2>2 DEF FreeSock, UlSockRecord
  <1>12. PICK d : d = UlState(b.lis, b.map, [b.sock EXCEPT ![s] = y], b.ses, b.faults)
    OBVIOUS
  <1>13. UlGood(d) /\ d.map = b.map /\ d.ses = b.ses /\ d.sock = [b.sock EXCEPT ![s] = y]
    BY <1>3, <1>4, <1>9, <1>12, SockSet DEF NotMapped
  <1>14. PICK e : e = UlState(d.lis, d.map, [d.sock EXCEPT ![r] = z], d.ses, d.faults)
    OBVIOUS
  <1>15. UlGood(e) /\ e.map = d.map
    BY <1>4, <1>5, <1>11, <1>13, <1>14, SockSet DEF NotMapped
  <1>16. v = e
    <2>1. v = [b EXCEPT !.sock[s].tbc = TRUE, !.sock[s].fd = "none", !.sock[r] = z]
      BY <1>1, <1>2, <1>10 DEF detach_ioa_socket
    <2>2. PICK l, M, K, E, f : b = UlState(l, M, K, E, f) /\ K \in [UlSock -> UlSockRecord]
      BY <1>4 DEF UlGood, UlFacts
    <2>3. b.sock = K
      BY <2>2 DEF UlState
    <2>4. [K EXCEPT ![s].tbc = TRUE, ![s].fd = "none", ![r] = z] = [[K EXCEPT ![s] = y] EXCEPT ![r] = z]
      <3>1. [K EXCEPT ![s].tbc = TRUE, ![s].fd = "none"] = [K EXCEPT ![s] = y]
        BY ZenonT(30), <1>6, <1>8, <2>2, <2>3
      <3> QED
        BY ZenonT(30), <3>1
    <2>5. v = UlState(l, M, [[K EXCEPT ![s] = y] EXCEPT ![r] = z], E, f)
      BY ZenonT(30), <2>1, <2>2, <2>4 DEF UlState
    <2>6. d = UlState(l, M, [K EXCEPT ![s] = y], E, f)
      BY <1>12, <2>2 DEF UlState
    <2>7. e = UlState(l, M, [[K EXCEPT ![s] = y] EXCEPT ![r] = z], E, f)
      BY <1>14, <2>6 DEF UlState
    <2> QED
      BY <2>5, <2>7
  <1> QED
    BY <1>3, <1>4, <1>5, <1>13, <1>15, <1>16

-----------------------------------------------------------------------------
(* Sessions of the listener's clients *)

LEMMA Attached ==
  ASSUME NEW u, UlGood(u), NEW r \in UlSock, NotMapped(u.map, r), NEW m \in UlSes,
         NEW v, v = attach_socket_to_session(u, r, m)
  PROVE  UlGood(v)
  <1>1. PICK a : a = close_ioa_socket(u, u.ses[m].sock)
    OBVIOUS
  <1>2. u.ses[m].sock \in UlSock \cup {0}
    BY ZenonT(30) DEF UlGood, UlFacts, UlSesRecord
  <1>3. UlGood(a) /\ NotMapped(a.map, r)
    BY <1>1, <1>2, Closed
  <1>4. PICK x, y : x = [a.sock[r] EXCEPT !.ses = m] /\ y = [a.ses[m] EXCEPT !.sock = r]
    BY ZenonT(30)
  <1>5. x \in UlSockRecord /\ (x.fd = "listener" => x.parent) /\ y \in UlSesRecord
    <2>1. /\ a.sock[r] \in UlSockRecord /\ (a.sock[r].fd = "listener" => a.sock[r].parent)
          /\ a.ses[m] \in UlSesRecord
      BY <1>3 DEF UlGood, UlFacts
    <2> QED
      BY ZenonT(30), <1>4, <2>1 DEF UlSockRecord, UlSesRecord
  <1>6. PICK b : b = UlState(a.lis, a.map, [a.sock EXCEPT ![r] = x], a.ses, a.faults)
    OBVIOUS
  <1>7. UlGood(b) /\ b.map = a.map /\ b.ses = a.ses /\ b.sock = [a.sock EXCEPT ![r] = x]
    BY <1>3, <1>5, <1>6, SockSet DEF NotMapped
  <1>8. PICK d : d = UlState(b.lis, b.map, b.sock, [b.ses EXCEPT ![m] = y], b.faults)
    OBVIOUS
  <1>9. UlGood(d)
    BY <1>5, <1>7, <1>8, SesSet
  <1>10. v = d
    <2>1. v = [a EXCEPT !.ses[m].sock = r, !.sock[r].ses = m]
      BY <1>1 DEF attach_socket_to_session
    <2>2. a = UlState(a.lis, a.map, a.sock, a.ses, a.faults)
      BY <1>3 DEF UlGood
    <2>3. PICK l, M, K, E, f : l = a.lis /\ M = a.map /\ K = a.sock /\ E = a.ses /\ f = a.faults
      OBVIOUS
    <2>4. v = UlState(l, M, [K EXCEPT ![r] = x], [E EXCEPT ![m] = y], f)
      BY ZenonT(30), <1>4, <2>1, <2>2, <2>3 DEF UlState
    <2>5. d = UlState(l, M, [K EXCEPT ![r] = x], [E EXCEPT ![m] = y], f)
      BY <1>6, <1>8, <2>3 DEF UlState
    <2> QED
      BY <2>4, <2>5
  <1> QED
    BY <1>9, <1>10

LEMMA ClosingGood ==
  ASSUME NEW u, UlGood(u), NEW n \in UlSes, NEW s \in UlSock, NEW v, v = Closing(u, n, s)
  PROVE  UlGood(v)
  <1>1. PICK b : b = UlState(u.lis, u.map, [u.sock EXCEPT ![s].tbc = TRUE], u.ses, u.faults)
    OBVIOUS
  <1>2. UlGood(b) /\ b.ses = u.ses
    BY <1>1, Marked
  <1>3. PICK y : y = [u.ses[n] EXCEPT !.closing = TRUE]
    BY ZenonT(30)
  <1>4. y \in UlSesRecord
    BY ZenonT(30), <1>3 DEF UlGood, UlFacts, UlSesRecord
  <1>5. PICK d : d = UlState(b.lis, b.map, b.sock, [b.ses EXCEPT ![n] = y], b.faults)
    OBVIOUS
  <1>6. UlGood(d)
    BY <1>2, <1>4, <1>5, SesSet
  <1>7. v = d
    <2>1. v = [u EXCEPT !.ses[n].closing = TRUE, !.sock[s].tbc = TRUE]
      BY DEF Closing
    <2>2. u = UlState(u.lis, u.map, u.sock, u.ses, u.faults)
      BY DEF UlGood
    <2>3. PICK l, M, K, E, f : l = u.lis /\ M = u.map /\ K = u.sock /\ E = u.ses /\ f = u.faults
      OBVIOUS
    <2>4. v = UlState(l, M, [K EXCEPT ![s].tbc = TRUE], [E EXCEPT ![n] = y], f)
      BY ZenonT(30), <1>3, <2>1, <2>2, <2>3 DEF UlState
    <2>5. d = UlState(l, M, [K EXCEPT ![s].tbc = TRUE], [E EXCEPT ![n] = y], f)
      BY <1>1, <1>5, <2>3 DEF UlState
    <2> QED
      BY <2>4, <2>5
  <1> QED
    BY <1>6, <1>7

LEMMA MarkedInPlace ==
  ASSUME NEW u, UlGood(u), NEW s \in UlSock,
         NEW v, v = [u EXCEPT !.sock[s].tbc = TRUE, !.faults = @ - 1]
  PROVE  UlGood(v)
  <1>1. u = UlState(u.lis, u.map, u.sock, u.ses, u.faults)
    BY DEF UlGood
  <1>2. v = UlState(u.lis, u.map, [u.sock EXCEPT ![s].tbc = TRUE], u.ses, u.faults - 1)
    BY ZenonT(30), <1>1 DEF UlState
  <1> QED
    BY <1>2, Marked

UlRoom(u) == NewSock(u) \in UlSock /\ u.sock[NewSock(u)].kind = "free"

LEMMA MovedGood ==
  ASSUME NEW u, UlGood(u), UlRoom(u), NEW n \in UlSes, NEW s \in UlSock,
         NEW v \in Moved(u, n, s) \union MovedAway(u, n, s) \union MoveFails(u, n, s)
  PROVE  UlGood(v)
  <1>1. PICK r : r = NewSock(u)
    OBVIOUS
  <1>2. r \in UlSock /\ NotMapped(u.map, r)
    BY <1>1, FreeNotMapped DEF UlRoom
  <1>3. PICK a : a = detach_ioa_socket(u, s, r)
    OBVIOUS
  <1>4. UlGood(a) /\ NotMapped(a.map, r)
    BY <1>2, <1>3, Detached
  <1>5. ASSUME v \in Moved(u, n, s) PROVE UlGood(v)
    <2>1. PICK m \in UlMovable(u, n) : v = Closing(attach_socket_to_session(a, r, m), n, s)
      BY ZenonT(30), <1>1, <1>3, <1>5 DEF Moved
    <2>2. m \in UlSes
      BY <2>1 DEF UlMovable, OpenSes
    <2>3. UlGood(attach_socket_to_session(a, r, m))
      BY <1>2, <1>4, <2>2, Attached
    <2> QED
      BY <2>1, <2>3, ClosingGood
  <1>6. ASSUME v \in MovedAway(u, n, s) PROVE UlGood(v)
    <2>1. PICK b : b = [a EXCEPT !.sock[r] = FreeSock]
      BY ZenonT(30)
    <2>2. v = Closing(b, n, s)
      BY <1>1, <1>3, <1>6, <2>1 DEF MovedAway
    <2>3. b = UlState(a.lis, a.map, [a.sock EXCEPT ![r] = FreeSock], a.ses, a.faults)
      <3>1. a = UlState(a.lis, a.map, a.sock, a.ses, a.faults)
        BY <1>4 DEF UlGood
      <3> QED
        BY <2>1, <3>1 DEF UlState
    <2>5. UlGood(b)
      BY <1>2, <1>4, <2>3, FreeTypes, SockSet DEF NotMapped
    <2> QED
      BY <2>2, <2>5, ClosingGood
  <1>7. ASSUME v \in MoveFails(u, n, s) PROVE UlGood(v)
    <2>1. v = Closing(DetachFails(u, s), n, s)
      BY <1>7 DEF MoveFails
    <2>2. UlGood(DetachFails(u, s))
      BY ZenonT(30), MarkedInPlace DEF DetachFails
    <2> QED
      BY <2>1, <2>2, ClosingGood
  <1> QED
    BY <1>5, <1>6, <1>7

LEMMA HandledGood ==
  ASSUME NEW u, UlGood(u), UlRoom(u), NEW n \in UlSes, NEW s \in UlSock, NEW request,
         NEW v \in client_input_handler(u, n, s, request)
  PROVE  UlGood(v)
  <1>1. ASSUME NEW a \in {"plain", "mobile"}, v = [u EXCEPT !.ses[n].alloc = a, !.ses[n].relay = TRUE]
        PROVE  UlGood(v)
    <2>1. u = UlState(u.lis, u.map, u.sock, u.ses, u.faults) /\ u.ses \in [UlSes -> UlSesRecord]
      BY DEF UlGood, UlFacts
    <2>2. PICK x : x = u.ses[n]
      OBVIOUS
    <2>3. PICK y : y = [x EXCEPT !.alloc = a, !.relay = TRUE]
      OBVIOUS
    <2>4. x \in UlSesRecord
      BY <2>1, <2>2
    <2>5. y \in UlSesRecord
      BY ZenonT(30), <1>1, <2>3, <2>4 DEF UlSesRecord
    <2>6. [u.ses EXCEPT ![n].alloc = a, ![n].relay = TRUE] = [u.ses EXCEPT ![n] = y]
      BY ZenonT(30), <2>1, <2>2, <2>3
    <2>7. v = UlState(u.lis, u.map, u.sock, [u.ses EXCEPT ![n] = y], u.faults)
      BY ZenonT(30), <1>1, <2>1, <2>6 DEF UlState
    <2> QED
      BY ZenonT(30), <2>5, <2>7, SesSet
  <1>2. ASSUME v \in Answers(u, s) PROVE UlGood(v)
    BY ZenonT(30), <1>2, MarkedInPlace DEF Answers
  <1>3. \/ v = u
        \/ \E a \in {"plain", "mobile"} : v = [u EXCEPT !.ses[n].alloc = a, !.ses[n].relay = TRUE]
        \/ v \in Moved(u, n, s) \union MovedAway(u, n, s) \union MoveFails(u, n, s)
        \/ v \in Answers(u, s)
    BY DEF client_input_handler
  <1> QED
    BY ZenonT(30), <1>1, <1>2, <1>3, MovedGood

LEMMA ShutDown ==
  ASSUME NEW u, UlGood(u), NEW n \in UlSes, NEW force,
         NEW v, v = shutdown_client_connection(u, n, force)
  PROVE  UlGood(v)
  <1>1. PICK a : a = close_ioa_socket(u, u.ses[n].sock)
    OBVIOUS
  <1>2. u.ses[n].sock \in UlSock \cup {0}
    BY ZenonT(30) DEF UlGood, UlFacts, UlSesRecord
  <1>3. UlGood(a)
    BY <1>1, <1>2, Closed
  <1>4. v = a \/ v = [a EXCEPT !.ses[n] = FreeSes]
    BY <1>1 DEF shutdown_client_connection
  <1>5. FreeSes \in UlSesRecord
    BY DEF FreeSes, UlSesRecord
  <1>6. a = UlState(a.lis, a.map, a.sock, a.ses, a.faults)
    BY <1>3 DEF UlGood
  <1>7. [a EXCEPT !.ses[n] = FreeSes] = UlState(a.lis, a.map, a.sock, [a.ses EXCEPT ![n] = FreeSes], a.faults)
    BY <1>6 DEF UlState
  <1> QED
    BY <1>3, <1>4, <1>5, <1>7, SesSet

LEMMA ReadGood ==
  ASSUME NEW u, UlGood(u), UlRoom(u), NEW s \in UlSock, u.sock[s].ses # 0, NEW request,
         NEW v \in ReadByChild(u, s, request)
  PROVE  UlGood(v)
  <1>1. u.sock[s].ses \in UlSes
    BY DEF UlGood, UlFacts, UlSockRecord
  <1>2. PICK a \in client_input_handler(u, u.sock[s].ses, s, request) :
          v = IF a.sock[s].tbc THEN shutdown_client_connection(a, u.sock[s].ses, FALSE) ELSE a
    BY ZenonT(30) DEF ReadByChild
  <1>3. UlGood(a)
    BY ZenonT(30), <1>1, HandledGood
  <1> QED
    BY ZenonT(30), <1>1, <1>2, <1>3, ShutDown

LEMMA SslFailedGood ==
  ASSUME NEW u, UlGood(u), NEW s \in UlSock, NEW c, NEW v, v = SslFailed(u, s, c)
  PROVE  UlGood(v)
  <1>1. PICK a : a = IF u.sock[s].ses # 0 THEN shutdown_client_connection(u, u.sock[s].ses, FALSE)
                     ELSE close_ioa_socket(u, s)
    BY ZenonT(30)
  <1>2. v = [a EXCEPT !.map[c] = 0]
    BY <1>1 DEF SslFailed
  <1>3. u.sock[s].ses \in UlSes \cup {0}
    BY DEF UlGood, UlFacts, UlSockRecord
  <1>4. UlGood(a)
    <2>1. CASE u.sock[s].ses # 0
      BY ZenonT(30), <1>1, <1>3, <2>1, ShutDown
    <2>2. CASE u.sock[s].ses = 0
      BY ZenonT(30), <1>1, <2>2, Closed
    <2> QED
      BY <2>1, <2>2
  <1>5. /\ a = UlState(a.lis, a.map, a.sock, a.ses, a.faults)
        /\ UlFacts(a.lis, [a.map EXCEPT ![c] = 0], a.sock, a.ses)
    BY <1>4, EntryCleared DEF UlGood
  <1>6. v = UlState(a.lis, [a.map EXCEPT ![c] = 0], a.sock, a.ses, a.faults)
    BY <1>2, <1>5 DEF UlState
  <1> QED
    BY <1>5, <1>6, UlGoodOf

(* A new child replaces the entry of its address, and there is still a     *)
(* free socket for a request that moves it.                                *)
LEMMA NewChildGood ==
  ASSUME NEW u, UlGood(u), HasRoom(u), NEW kind \in {"udp", "dtls"}, NEW c \in UlClient, NEW request,
         NEW v \in NewChild(u, kind, c, request)
  PROVE  UlGood(v)
  <1>1. PICK l, M, K, E, f : u = UlState(l, M, K, E, f) /\ UlFacts(l, M, K, E)
    BY DEF UlGood
  <1>2. u.lis = l /\ u.map = M /\ u.sock = K /\ u.ses = E /\ u.faults = f
    BY <1>1 DEF UlState
  <1>3. PICK s : s = NewSock(u)
    OBVIOUS
  <1>4. s \in UlSock /\ NotMapped(M, s)
    BY ZenonT(30), <1>2, <1>3, FreeNotMapped DEF HasRoom, NewSock, LiveSock
  <1>5. PICK r \in UlSock : r # s /\ K[r].kind = "free"
    BY <1>2 DEF HasRoom, LiveSock
  <1>6. PICK x : x = [kind |-> kind, remote |-> c, fd |-> "listener", parent |-> TRUE,
                      inmap |-> FALSE, tbc |-> FALSE, ses |-> 0]
    BY ZenonT(30)
  <1>7. PICK a : a = create_ioa_socket_from_fd(u, s, kind, c)
    OBVIOUS
  <1>8. a = UlState(l, M, [K EXCEPT ![s] = x], E, f)
    BY ZenonT(30), <1>1, <1>6, <1>7 DEF UlState, create_ioa_socket_from_fd
  <1>9. K \in [UlSock -> UlSockRecord] /\ M \in [UlClient -> UlSock \cup {0}]
    BY <1>1 DEF UlFacts
  <1>10. PICK b : b = add_socket_to_map(a, s)
    OBVIOUS
  <1>11. PICK K1 : K1 = [K EXCEPT ![s] = x]
    BY ZenonT(30)
  <1>12. K1 \in [UlSock -> UlSockRecord] /\ K1[s] = x /\ \A t \in UlSock : t # s => K1[t] = K[t]
    <2>1. x \in UlSockRecord
      BY <1>6 DEF UlSockRecord
    <2> QED
      BY <1>4, <1>9, <1>11, <2>1
  <1>13. a.sock = K1 /\ x.remote = c
    BY <1>6, <1>8, <1>11 DEF UlState
  <1>14. PICK y : y = [x EXCEPT !.inmap = TRUE]
    BY ZenonT(30)
  <1>15. PICK M2, K2 : M2 = [M EXCEPT ![c] = s] /\ K2 = [K1 EXCEPT ![s] = y]
    BY ZenonT(30)
  <1>16. b = UlState(l, M2, K2, E, f)
    BY ZenonT(30), <1>8, <1>10, <1>11, <1>12, <1>13, <1>14, <1>15 DEF UlState, add_socket_to_map
  <1>17. PICK n : n = NewSes(b)
    OBVIOUS
  <1>18. n \in UlSes
    BY <1>2, <1>16, <1>17 DEF HasRoom, NewSes, OpenSes, UlState
  <1>19. PICK z, w : z = [y EXCEPT !.ses = n] /\ w = [FreeSes EXCEPT !.open = TRUE, !.sock = s]
    BY ZenonT(30)
  <1>20. z \in UlSockRecord /\ z.parent /\ Child(z, c) /\ z.ses = n /\ w \in UlSesRecord
    BY ZenonT(30), <1>4, <1>6, <1>14, <1>18, <1>19, UlNoZero DEF UlSockRecord, UlSesRecord, FreeSes, Child
  <1>21. PICK d : d = open_client_connection_session(b, s)
    OBVIOUS
  <1>22. PICK K3, E3 : K3 = [K2 EXCEPT ![s] = z] /\ E3 = [E EXCEPT ![n] = w]
    BY ZenonT(30)
  <1>23. d = UlState(l, M2, K3, E3, f)
    <2>1. K2[s] = y
      BY <1>4, <1>12, <1>15
    <2>2. d = [b EXCEPT !.ses[n] = w, !.sock[s].ses = n]
      BY ZenonT(30), <1>17, <1>19, <1>21 DEF open_client_connection_session
    <2> QED
      BY ZenonT(30), <1>16, <1>19, <1>22, <2>1, <2>2 DEF UlState
  <1>24. K3 \in [UlSock -> UlSockRecord] /\ K3[s] = z /\ \A t \in UlSock : t # s => K3[t] = K[t]
    <2>1. K2 \in [UlSock -> UlSockRecord] /\ \A t \in UlSock : t # s => K2[t] = K1[t]
      <3>1. y \in UlSockRecord
        BY ZenonT(30), <1>6, <1>14 DEF UlSockRecord
      <3> QED
        BY <1>4, <1>12, <1>15, <3>1
    <2> QED
      BY <1>4, <1>12, <1>20, <1>22, <2>1
  <1>25. UlFacts(l, M2, K3, E3)
    <2>1. M2 \in [UlClient -> UlSock \cup {0}] /\ M2[c] = s /\ \A e \in UlClient : e # c => M2[e] = M[e]
      BY ZenonT(30), <1>4, <1>9, <1>15
    <2>2. ASSUME NEW e \in UlClient, M2[e] # 0 PROVE Child(K3[M2[e]], e)
      <3>1. CASE e = c
        BY ZenonT(30), <1>20, <1>24, <2>1, <3>1
      <3>2. CASE e # c
        <4>1. M2[e] = M[e] /\ M[e] # s /\ M[e] \in UlSock
          BY <1>4, <1>9, <2>1, <2>2, <3>2 DEF NotMapped
        <4>2. Child(K[M[e]], e)
          BY <1>1, <2>2, <4>1 DEF UlFacts
        <4> QED
          BY <1>24, <4>1, <4>2
      <3> QED
        BY ZenonT(30), <3>1, <3>2
    <2>3. \A t \in UlSock : K3[t].fd = "listener" => K3[t].parent
      BY <1>1, <1>20, <1>24 DEF UlFacts
    <2>4. E3 \in [UlSes -> UlSesRecord] /\ l \in [fd : {"open", "failed"}, event : BOOLEAN]
      BY ZenonT(30), <1>1, <1>20, <1>22 DEF UlFacts
    <2> QED
      BY ZenonT(30), <1>24, <2>1, <2>2, <2>3, <2>4 DEF UlFacts
  <1>26. UlGood(d) /\ d.sock = K3
    BY ZenonT(30), <1>23, <1>25, UlGoodOf DEF UlState
  <1>27. UlRoom(d)
    <2>1. r \in UlSock \ LiveSock(d)
      BY <1>5, <1>24, <1>26 DEF LiveSock
    <2> QED
      BY ZenonT(30), <2>1 DEF UlRoom, NewSock, LiveSock
  <1>28. v \in client_input_handler(d, d.sock[s].ses, s, request)
    BY ZenonT(30), <1>3, <1>7, <1>10, <1>21 DEF NewChild
  <1> QED
    BY ZenonT(30), <1>4, <1>18, <1>20, <1>24, <1>26, <1>27, <1>28, HandledGood

-----------------------------------------------------------------------------
(* The listener's steps *)

LEMMA DatagramGood ==
  ASSUME NEW u, UlGood(u), HasRoom(u), NEW c \in UlClient, NEW d \in UlDatagram,
         NEW v \in process_udp_datagram(u, c, d)
  PROVE  UlGood(v)
  <1>1. UlRoom(u)
    BY DEF HasRoom, UlRoom, NewSock, LiveSock
  <1>2. PICK s : s = u.map[c]
    OBVIOUS
  <1>3. s \in UlSock \cup {0} /\ (s # 0 => u.sock[s].ses # 0)
    BY ZenonT(30), <1>2 DEF UlGood, UlFacts, Child
  <1>4. ASSUME s # 0, v \in ToChild(u, s, c, d) PROVE UlGood(v)
    <2>1. \/ \E q : v \in ReadByChild(u, s, q)
          \/ v = SslFailed(u, s, c) \/ v = u
      BY <1>4 DEF ToChild
    <2> QED
      BY <1>1, <1>3, <1>4, <2>1, ReadGood, SslFailedGood
  <1>5. ASSUME v \in ToListener(u, c, d) PROVE UlGood(v)
    <2>1. v = u \/ \E kind \in {"udp", "dtls"} : \E q : v \in NewChild(u, kind, c, q)
      BY ZenonT(30), <1>5 DEF ToListener, dtls_server_input_handler
    <2> QED
      BY <2>1, NewChildGood
  <1>6. v = u \/ (s # 0 /\ v \in ToChild(u, s, c, d)) \/ v \in ToListener(u, c, d)
    BY <1>2 DEF process_udp_datagram, handle_udp_packet
  <1> QED
    BY ZenonT(30), <1>4, <1>5, <1>6

LEMMA ReopenGood ==
  ASSUME UlGood(ul), reopen_server_socket
  PROVE  UlGood(ul')
  <1>1. PICK p \in {<<"open", TRUE>>, <<"open", FALSE>>, <<"failed", FALSE>>} :
          ul' = [ul EXCEPT !.faults = @ - 1, !.lis = [fd |-> p[1], event |-> p[2]]]
    BY ZenonT(30) DEF reopen_server_socket
  <1>2. PICK l : l = [fd |-> p[1], event |-> p[2]]
    BY ZenonT(30)
  <1>3. l \in [fd : {"open", "failed"}, event : BOOLEAN]
    <2>1. p = <<"open", TRUE>> \/ p = <<"open", FALSE>> \/ p = <<"failed", FALSE>>
      BY ZenonT(30)
    <2>2. CASE p = <<"open", TRUE>>
      BY <1>2, <2>2
    <2>3. CASE p = <<"open", FALSE>>
      BY <1>2, <2>3
    <2>4. CASE p = <<"failed", FALSE>>
      BY ZenonT(30), <1>2, <2>4
    <2> QED
      BY ZenonT(30), <2>1, <2>2, <2>3, <2>4
  <1>4. ul = UlState(ul.lis, ul.map, ul.sock, ul.ses, ul.faults) /\ UlFacts(l, ul.map, ul.sock, ul.ses)
    BY <1>3 DEF UlGood, UlFacts
  <1>5. ul' = UlState(l, ul.map, ul.sock, ul.ses, ul.faults - 1)
    BY ZenonT(30), <1>1, <1>2, <1>4 DEF UlState
  <1> QED
    BY <1>4, <1>5, UlGoodOf

LEMMA SocketInputGood ==
  ASSUME UlGood(ul), NEW s \in UlSock, socket_input_handler(s)
  PROVE  UlGood(ul')
  <1>1. UlRoom(ul) /\ ul.sock[s].ses # 0
    BY ZenonT(30) DEF socket_input_handler, HasRoom, UlRoom, NewSock, LiveSock
  <1>2. ul.sock[s].ses \in UlSes
    BY <1>1 DEF UlGood, UlFacts, UlSockRecord
  <1>3. \/ ul' = shutdown_client_connection(ul, ul.sock[s].ses, FALSE)
        \/ \E q : ul' \in ReadByChild(ul, s, q)
    BY ZenonT(30) DEF socket_input_handler
  <1> QED
    BY ZenonT(30), <1>1, <1>2, <1>3, ShutDown, ReadGood

LEMMA SessionTimersGood ==
  ASSUME UlGood(ul), NEW n \in UlSes,
         \/ write_client_connection(n) \/ client_ss_allocation_timeout_handler(n)
         \/ client_to_be_allocated_timeout_handler(n)
  PROVE  UlGood(ul')
  <1>1. CASE write_client_connection(n)
    <2>1. ul.ses[n].sock \in UlSock
      BY <1>1 DEF write_client_connection, UlGood, UlFacts, UlSesRecord
    <2> QED
      BY ZenonT(30), <1>1, <2>1, MarkedInPlace DEF write_client_connection
  <1>2. CASE client_ss_allocation_timeout_handler(n)
    <2>1. PICK a, y : a = [ul EXCEPT !.ses[n].relay = FALSE] /\ y = [ul.ses[n] EXCEPT !.relay = FALSE]
      BY ZenonT(30)
    <2>2. y \in UlSesRecord
      BY ZenonT(30), <2>1 DEF UlGood, UlFacts, UlSesRecord
    <2>3. ul = UlState(ul.lis, ul.map, ul.sock, ul.ses, ul.faults)
      BY DEF UlGood
    <2>4. a = UlState(ul.lis, ul.map, ul.sock, [ul.ses EXCEPT ![n] = y], ul.faults)
      BY ZenonT(30), <2>1, <2>3 DEF UlState
    <2>5. UlGood(a)
      BY <2>2, <2>4, SesSet
    <2> QED
      BY ZenonT(30), <1>2, <2>1, <2>5, ShutDown DEF client_ss_allocation_timeout_handler
  <1>3. CASE client_to_be_allocated_timeout_handler(n)
    BY ZenonT(30), <1>3, ShutDown DEF client_to_be_allocated_timeout_handler
  <1> QED
    BY <1>1, <1>2, <1>3

LEMMA UlInitGood ==
  ASSUME UlInit
  PROVE  UlGood(ul)
  <1>1. PICK l, M, K, E : /\ l = [fd |-> "open", event |-> TRUE] /\ M = [c \in UlClient |-> 0]
                          /\ K = [s \in UlSock |-> FreeSock] /\ E = [n \in UlSes |-> FreeSes]
    BY ZenonT(30)
  <1>2. ul = UlState(l, M, K, E, ulcfg.faults)
    BY <1>1 DEF UlInit, UlState
  <1>3. FreeSock \in UlSockRecord /\ FreeSock.fd # "listener" /\ FreeSes \in UlSesRecord
    BY FreeTypes
  <1>4. UlFacts(l, M, K, E)
    BY <1>1, <1>3 DEF UlFacts
  <1> QED
    BY <1>2, <1>4, UlGoodOf

LEMMA UlStepGood ==
  ASSUME UlGood(ul), [UlNext]_UlVars
  PROVE  UlGood(ul')
  <1>1. CASE udp_server_input_handler
    BY <1>1, DatagramGood DEF udp_server_input_handler
  <1>2. CASE reopen_server_socket
    BY <1>2, ReopenGood
  <1>3. CASE \E s \in UlSock : socket_input_handler(s)
    BY <1>3, SocketInputGood
  <1>4. CASE \E n \in UlSes : \/ write_client_connection(n) \/ client_ss_allocation_timeout_handler(n)
                              \/ client_to_be_allocated_timeout_handler(n)
    BY <1>4, SessionTimersGood
  <1>5. CASE UNCHANGED UlVars
    BY <1>5 DEF UlVars
  <1> QED
    BY ZenonT(30), <1>1, <1>2, <1>3, <1>4, <1>5 DEF UlNext

LEMMA UlGoodIsExact ==
  ASSUME UlGood(ul)
  PROVE  ChildrenExact
  <1>1. ListenerKept
    BY ZenonT(30) DEF UlGood, UlFacts, ListenerKept
  <1>2. MapPointsLive
    BY DEF UlGood, UlFacts, Child, MapPointsLive
  <1> QED
    BY ZenonT(30), <1>1, <1>2 DEF ChildrenExact

(* However client sockets and sessions are closed - a failed read or       *)
(* write, a move to another session, a timer - the map of children only    *)
(* names sockets that are alive and are the children of their addresses,   *)
(* and the descriptor that they share with the listener stays open         *)
(* (close_ioa_socket and udp_server_input_handler).                        *)
THEOREM AlwaysChildrenExact == UlSpec => []ChildrenExact
  <1>1. UlInit => UlGood(ul)
    BY UlInitGood
  <1>2. UlGood(ul) /\ [UlNext]_UlVars => UlGood(ul)'
    BY UlStepGood
  <1>3. UlGood(ul) => ChildrenExact
    BY UlGoodIsExact
  <1> QED
    BY <1>1, <1>2, <1>3, PTL DEF UlSpec


-----------------------------------------------------------------------------
(* A session: TurnSession *)

USE DEF Family

(* Permissions and relays need a valid allocation, and that a live session. *)
Owned ==
  /\ perms # {} => valid
  /\ (\E f \in Family : relay[f] # "none") => valid
  /\ valid => live

(* What the maps of the allocation must satisfy whatever the last handler  *)
(* reported.                                                               *)
State == TypeOK /\ ChannelOwnership /\ Owned /\ NoChannelOnTcpRelay

(* What the last handler reported.                                         *)
Report == NoBrokenOwner /\ RelayedUnderPermission /\ ChannelFraming

(* The inductive invariant: ChannelOwnership is what makes the owner check *)
(* of ChannelBind and the missing permission check of ChannelData safe.    *)
Inv == State /\ Report

(* An answer that carries no data is well typed and reports nothing about  *)
(* a peer.                                                                 *)
LEMMA AnswerType ==
  ASSUME NEW op \in Op, NEW code \in Nat
  PROVE  Answer(op, code) \in OutType /\ Answer(op, code).op = op
  BY DEF Answer, Outcome, OutType, Op

(* What a report names is what its handler put there.                      *)
LEMMA ReportFields ==
  /\ \A op, code : Answer(op, code).op = op
  /\ \A op, q, n : Datagram(op, q, n).op = op
  /\ \A d : Outcome("tick", 0, NoPeer, NoChan, d, {}, FALSE).d = d
  BY DEF Answer, Datagram, Outcome

(* A handler that leaves the allocation alone and relays nothing.          *)
LEMMA QuietStep ==
  ASSUME State, out' \in OutType, out'.op \notin {"toPeer", "toClient", "bind"},
         UNCHANGED alloc, UNCHANGED <<tcprelay, valid>>,
         live' \in BOOLEAN, valid => live',
         client' \in {"open", "dead", "none"}, mobile' \in BOOLEAN, denied' \in SUBSET Host
  PROVE  Inv'
  <1>2. TypeOK'
    BY ZenonT(30) DEF State, TypeOK, alloc
  <1>3. ChannelOwnership' /\ Owned' /\ NoChannelOnTcpRelay'
    BY DEF State, ChannelOwnership, Owned, NoChannelOnTcpRelay, alloc
  <1>5. Report'
    BY DEF Report, NoBrokenOwner, RelayedUnderPermission, ChannelFraming
  <1>6. QED
    BY <1>2, <1>3, <1>5 DEF Inv, State

LEMMA InitInv == Init => Inv
  <1> SUFFICES ASSUME Init PROVE Inv
    OBVIOUS
  <1>1. TypeOK
    <2>1. out \in OutType
      BY AnswerType DEF Init, Silent, Op
    <2>2. relay \in [Family -> {"none", "open", "dead"}] /\ timer \in [Family -> Nat]
      BY DEF Init
    <2>3. /\ pttl \in [Host -> Int]
          /\ chan \in [ChNum -> Peer \cup {NoPeer}]
          /\ cttl \in [ChNum -> Nat]
          /\ chns \in [Peer -> ChNum \cup {NoChan}]
      BY DEF Init
    <2>4. QED
      BY <2>1, <2>2, <2>3, Zenon DEF Init, TypeOK
  <1>2. ChannelOwnership /\ Owned /\ NoChannelOnTcpRelay
    BY SessionAssumption DEF Init, ChannelOwnership, Owned, NoChannelOnTcpRelay
  <1>3. Report
    BY DEF Init, Report, NoBrokenOwner, RelayedUnderPermission, ChannelFraming, Silent, Answer, Outcome
  <1>4. QED
    BY <1>1, <1>2, <1>3 DEF Inv, State

(* shutdown_client_connection, both stages.                                *)
LEMMA ShutdownStep ==
  ASSUME State, NEW r \in [Family -> {"none", "open", "dead"}], NEW t \in [Family -> Nat],
         \A f \in Family : r[f] # "none" => relay[f] # "none",
         Shutdown(r, t) \/ Free, NEW op \in Op \ {"toPeer", "toClient", "bind"},
         out' = Answer(op, 0), UNCHANGED denied
  PROVE  Inv'
  <1>1. out' \in OutType /\ out'.op = op
    BY AnswerType DEF Answer, Outcome
  <1>2. Report'
    BY <1>1 DEF Report, NoBrokenOwner, RelayedUnderPermission, ChannelFraming
  <1>3. CASE Free
    <2>1. TypeOK'
      <3>1. relay' \in [Family -> {"none", "open", "dead"}] /\ timer' \in [Family -> Nat]
        BY <1>3 DEF Free, FreshAllocation
      <3>2. /\ perms' \subseteq Host /\ failure' \subseteq Family
            /\ pttl' \in [Host -> Int]
            /\ chan' \in [ChNum -> Peer \cup {NoPeer}]
            /\ cttl' \in [ChNum -> Nat]
            /\ chns' \in [Peer -> ChNum \cup {NoChan}]
        BY <1>3 DEF Free, FreshAllocation
      <3>3. /\ live' \in BOOLEAN /\ mobile' \in BOOLEAN /\ tcprelay' \in BOOLEAN
            /\ valid' \in BOOLEAN /\ client' = "none" /\ denied' \subseteq Host
        BY <1>3, Zenon DEF Free, FreshAllocation, State, TypeOK
      <3>4. QED
        BY <1>1, <3>1, <3>2, <3>3 DEF TypeOK
    <2>2. ChannelOwnership' /\ Owned' /\ NoChannelOnTcpRelay'
      BY <1>3, SessionAssumption DEF Free, FreshAllocation, ChannelOwnership, Owned, NoChannelOnTcpRelay
    <2>3. QED
      BY <1>2, <2>1, <2>2 DEF Inv, State
  <1>4. CASE valid /\ mobile /\ Shutdown(r, t) /\ ~Free
    <2>1. /\ client' = "none" /\ relay' = r /\ timer' = t
          /\ UNCHANGED <<live, mobile, tcprelay, valid, failure, perms, pttl, chan, cttl, chns>>
      BY <1>4 DEF Shutdown
    <2>2. TypeOK'
      BY <1>1, <2>1 DEF State, TypeOK
    <2>3. ChannelOwnership' /\ Owned' /\ NoChannelOnTcpRelay'
      BY <1>4, <2>1 DEF State, ChannelOwnership, Owned, NoChannelOnTcpRelay
    <2>4. QED
      BY <1>2, <2>2, <2>3 DEF Inv, State
  <1>5. QED
    BY ZenonT(30), <1>3, <1>4 DEF Shutdown

-----------------------------------------------------------------------------
(* An allocation that is not valid has no channel.                         *)
LEMMA NoAllocationNoChannel ==
  ASSUME State, ~valid
  PROVE  \A n \in ChNum : chan[n] = NoPeer
  BY DEF State, ChannelOwnership, Owned

(* Lifetimes are natural numbers.                                          *)
LEMMA AdjustedType ==
  ASSUME NEW l \in Requested
  PROVE  Adjusted(l) \in Nat
  BY SessionAssumption DEF Adjusted, Bounded

LEMMA AllocateAnswerType ==
  ASSUME NEW r, NEW failed
  PROVE  AllocateAnswer(r, failed) \in OutType /\ AllocateAnswer(r, failed).op = "allocate"
  <1>1. {f \in Family : r[f] # "none" /\ f \notin failed /\ (f = "v6" => "v4" \notin failed)}
          \in SUBSET Family
    OBVIOUS
  <1>2. QED
    BY <1>1 DEF AllocateAnswer, Outcome, OutType, Op

(* A handler that touches neither permissions nor channels.                *)
LEMMA RelayStep ==
  ASSUME State, out' \in OutType, out'.op \notin {"toPeer", "toClient", "bind"},
         relay' \in [Family -> {"none", "open", "dead"}], timer' \in [Family -> Nat],
         failure' \subseteq Family, mobile' \in BOOLEAN, valid' \in BOOLEAN,
         valid => valid' /\ UNCHANGED tcprelay, valid' => live,
         tcprelay' \in BOOLEAN,
         (\E f \in Family : relay'[f] # "none") => valid',
         UNCHANGED <<live, client, perms, pttl, chan, cttl, chns, denied>>
  PROVE  Inv'
  <1>1. TypeOK'
    BY DEF State, TypeOK
  <1>2. ChannelOwnership' /\ Owned'
    BY DEF State, ChannelOwnership, Owned
  <1>3. NoChannelOnTcpRelay'
    BY NoAllocationNoChannel, Zenon DEF State, NoChannelOnTcpRelay
  <1>4. Report'
    BY DEF Report, NoBrokenOwner, RelayedUnderPermission, ChannelFraming
  <1>5. QED
    BY <1>1, <1>2, <1>3, <1>4 DEF Inv, State

LEMMA AllocateStep ==
  ASSUME State, NEW fams \in SUBSET Family, NEW lost \in SUBSET fams, fams # {},
         NEW mob \in BOOLEAN, NEW tcp \in BOOLEAN, NEW l \in Requested,
         Allocate(fams, lost, mob, tcp, l)
  PROVE  Inv'
  <1>1. out' \in OutType /\ out'.op = "allocate"
    BY AnswerType, AllocateAnswerType DEF Allocate, Op
  <1>2. relay' \in [Family -> {"none", "open", "dead"}]
    BY DEF Allocate, State, TypeOK
  <1>3. timer' \in [Family -> Nat]
    BY AdjustedType, SessionAssumption DEF Allocate, State, TypeOK
  <1>4. (\E f \in Family : relay'[f] # "none") => valid'
    BY Zenon DEF Allocate, State, Owned
  <1>5. QED
    BY <1>1, <1>2, <1>3, <1>4, RelayStep DEF Allocate, State, TypeOK, Ready

LEMMA RefreshStep ==
  ASSUME State, NEW fams \in SUBSET Family, NEW l \in Requested, NEW delete \in BOOLEAN,
         Refresh(fams, l, delete)
  PROVE  Inv'
  <1>1. out' \in OutType /\ out'.op = "refresh"
    BY AnswerType DEF Refresh, Op
  <1>2. timer' \in [Family -> Nat]
    BY AdjustedType DEF Refresh, State, TypeOK
  <1>3. QED
    BY <1>1, <1>2, RelayStep DEF Refresh, State, TypeOK, Owned

-----------------------------------------------------------------------------
(* Permissions only grow and no channel moves.                             *)
LEMMA CreatePermissionStep ==
  ASSUME State, NEW S \in SUBSET Peer, NEW full \in SUBSET {HostOf[p] : p \in S},
         CreatePermission(S, full)
  PROVE  Inv'
  <1>1. out' \in OutType /\ out'.op = "permission"
    BY AnswerType DEF CreatePermission, Op
  <1>2. perms \subseteq perms' /\ perms' \subseteq Host /\ pttl' \in [Host -> Int]
    BY SessionAssumption DEF CreatePermission, State, TypeOK
  <1>3. perms' # perms => valid
    BY DEF CreatePermission
  <1>4. UNCHANGED <<live, client, mobile, tcprelay, valid, relay, timer, failure,
                    chan, cttl, chns, denied>>
    BY DEF CreatePermission
  <1>5. TypeOK'
    BY ZenonT(30), <1>1, <1>2, <1>4 DEF State, TypeOK
  <1>6. ChannelOwnership' /\ Owned' /\ NoChannelOnTcpRelay'
    BY <1>2, <1>3, <1>4 DEF State, ChannelOwnership, Owned, NoChannelOnTcpRelay
  <1>7. Report'
    BY <1>1 DEF Report, NoBrokenOwner, RelayedUnderPermission, ChannelFraming
  <1>8. QED
    BY <1>5, <1>6, <1>7 DEF Inv, State

(* The error ChannelBind answers is a number, and never 500 while the maps *)
(* agree; a binding without error is one that a UDP allocation may make,   *)
(* for a channel number and a peer that are free or already belong         *)
(* together.                                                               *)
LEMMA BindErrorCases ==
  ASSUME State, NEW n \in ChNum, NEW p \in Peer
  PROVE  /\ BindError(n, p) \in Nat \ {500}
         /\ BindError(n, p) = 0 =>
              /\ ~tcprelay /\ valid
              /\ \/ chan[n] = p
                 \/ chan[n] = NoPeer /\ (HostOf[p] \in perms => chns[p] = NoChan)
  <1>1. CASE tcprelay
    BY <1>1 DEF BindError
  <1>2. CASE ~tcprelay /\ ~valid
    BY <1>2 DEF BindError
  <1>3. CASE ~tcprelay /\ valid /\ Relayed(p) = "none"
    BY <1>3 DEF BindError
  <1>4. CASE ~tcprelay /\ valid /\ Relayed(p) # "none" /\ chan[n] # NoPeer
    <2>1. BindError(n, p) =
            IF chan[n] # p THEN 400 ELSE IF HostOf[p] \notin perms THEN 500 ELSE 0
      BY <1>4 DEF BindError
    <2>2. chan[n] = p => HostOf[p] \in perms
      BY <1>4 DEF State, ChannelOwnership
    <2>3. QED
      BY <1>4, <2>1, <2>2
  <1>5. CASE ~tcprelay /\ valid /\ Relayed(p) # "none" /\ chan[n] = NoPeer
    <2>1. BindError(n, p) =
            IF HostOf[p] \in perms /\ chns[p] # NoChan THEN 400
            ELSE IF HostOf[p] \in denied THEN 403 ELSE 0
      BY <1>5 DEF BindError
    <2>2. QED
      BY <1>5, <2>1
  <1>6. QED
    BY <1>1, <1>2, <1>3, <1>4, <1>5

LEMMA BindStep ==
  ASSUME State, NEW n \in ChNum, NEW p \in Peer, BindError(n, p) = 0, Bind(n, p),
         UNCHANGED <<live, client, mobile, tcprelay, valid, relay, timer, failure, denied>>
  PROVE  Inv'
  <1>1. /\ ~tcprelay /\ valid
        /\ chan[n] = p \/ (chan[n] = NoPeer /\ (HostOf[p] \in perms => chns[p] = NoChan))
    BY BindErrorCases
  <1>2. out' \in OutType /\ out'.op = "bind" /\ out'.code = 0
    BY AnswerType DEF Bind, Op, Answer, Outcome
  <1>3. HostOf[p] \in Host
    BY SessionAssumption
  <1>4. TypeOK'
    BY <1>2, <1>3, SessionAssumption DEF Bind, State, TypeOK
  <1>5. \A m \in ChNum : chan[m] = p => m = n
    BY <1>1, SessionAssumption DEF State, ChannelOwnership, TypeOK
  <1>6. chns[p] # NoChan => chns[p] = n
    BY <1>1, <1>5, SessionAssumption DEF State, ChannelOwnership, TypeOK
  <1>7. \A q \in Peer : chns[q] = n => q = p
    BY <1>1, SessionAssumption DEF State, ChannelOwnership, TypeOK
  <1>8. ChannelOwnership'
    <2>1. ASSUME NEW m \in ChNum, chan'[m] # NoPeer
          PROVE  HostOf[chan'[m]] \in perms' /\ chns'[chan'[m]] = m
      <3>1. CASE m = n
        BY <3>1 DEF Bind, State, TypeOK
      <3>2. CASE m # n
        <4>1. chan'[m] = chan[m] /\ chan[m] # NoPeer /\ chan[m] \in Peer /\ chan[m] # p
          BY <2>1, <3>2, <1>5 DEF Bind, State, TypeOK
        <4>2. QED
          BY <4>1 DEF Bind, State, TypeOK, ChannelOwnership
      <3>3. QED
        BY <3>1, <3>2
    <2>2. ASSUME NEW q \in Peer, chns'[q] # NoChan
          PROVE  chan'[chns'[q]] = q
      <3>1. CASE q = p
        BY <3>1 DEF Bind, State, TypeOK
      <3>2. CASE q # p
        BY ZenonT(30), <2>2, <3>2, <1>7 DEF Bind, State, TypeOK, ChannelOwnership
      <3>3. QED
        BY <3>1, <3>2
    <2>3. QED
      BY ZenonT(30), <2>1, <2>2 DEF ChannelOwnership
  <1>9. Owned' /\ NoChannelOnTcpRelay'
    BY ZenonT(30), <1>1 DEF State, Owned, NoChannelOnTcpRelay
  <1>10. Report'
    BY <1>2 DEF Report, NoBrokenOwner, RelayedUnderPermission, ChannelFraming
  <1>11. QED
    BY <1>4, <1>8, <1>9, <1>10 DEF Inv, State

LEMMA ChannelBindStep ==
  ASSUME State, NEW n \in ChNum, NEW p \in Peer, ChannelBind(n, p)
  PROVE  Inv'
  <1> DEFINE Rest == UNCHANGED <<live, client, mobile, tcprelay, valid, relay, timer,
                                 failure, denied>>
  <1>1. Rest
    BY DEF ChannelBind
  <1>2. CASE /\ BindError(n, p) # 0 /\ out' = Answer("bind", BindError(n, p))
             /\ UNCHANGED <<perms, pttl, chan, cttl, chns>>
    <2>1. BindError(n, p) \in Nat \ {500}
      BY ZenonT(30), BindErrorCases
    <2>2. out' \in OutType /\ out'.op = "bind" /\ out'.code # 500
      BY <1>2, <2>1, AnswerType DEF Op, Answer, Outcome
    <2>3. TypeOK'
      BY <1>1, <1>2, <2>2 DEF State, TypeOK
    <2>4. ChannelOwnership' /\ Owned' /\ NoChannelOnTcpRelay'
      BY ZenonT(30), <1>1, <1>2 DEF State, ChannelOwnership, Owned, NoChannelOnTcpRelay
    <2>5. Report'
      BY <2>2 DEF Report, NoBrokenOwner, RelayedUnderPermission, ChannelFraming
    <2>6. QED
      BY <2>3, <2>4, <2>5 DEF Inv, State
  <1>3. CASE BindError(n, p) = 0 /\ Bind(n, p)
    BY <1>1, <1>3, BindStep
  <1>4. CASE BindError(n, p) = 0 /\ BindFails(p)
    <2>1. valid
      BY <1>4, BindErrorCases
    <2>2. out' \in OutType /\ out'.op = "nochannel"
      BY <1>4, AnswerType DEF BindFails, Op
    <2>3. HostOf[p] \in Host
      BY SessionAssumption
    <2>4. TypeOK'
      BY <1>1, <1>4, <2>2, <2>3 DEF BindFails, State, TypeOK
    <2>5. ChannelOwnership' /\ Owned' /\ NoChannelOnTcpRelay'
      BY <1>1, <1>4, <2>1 DEF BindFails, State, ChannelOwnership, Owned, NoChannelOnTcpRelay
    <2>6. Report'
      BY <2>2 DEF Report, NoBrokenOwner, RelayedUnderPermission, ChannelFraming
    <2>7. QED
      BY <2>4, <2>5, <2>6 DEF Inv, State
  <1>5. QED
    BY <1>2, <1>3, <1>4 DEF ChannelBind

-----------------------------------------------------------------------------
(* A datagram in either direction leaves the allocation alone; the report  *)
(* about it holds if the peer has a permission and, towards the client,    *)
(* the channel is the peer's.                                              *)
LEMMA DatagramStep ==
  ASSUME State, NEW op \in {"toPeer", "toClient"}, NEW p \in Peer,
         NEW n \in ChNum \cup {NoChan}, out' = Datagram(op, p, n),
         ~ServerRelay => HostOf[p] \in perms,
         op = "toClient" => n = IF HostOf[p] \in perms THEN chns[p] ELSE NoChan,
         UNCHANGED <<live, client, mobile, tcprelay, valid, alloc, denied>>
  PROVE  Inv'
  <1>1. out' \in OutType /\ out'.op = op /\ out'.peer = p /\ out'.ch = n
    BY ZenonT(30) DEF Datagram, Outcome, OutType, Op
  <1>2. TypeOK'
    BY <1>1 DEF State, TypeOK, alloc
  <1>3. ChannelOwnership' /\ Owned' /\ NoChannelOnTcpRelay'
    BY DEF State, ChannelOwnership, Owned, NoChannelOnTcpRelay, alloc
  <1>4. NoBrokenOwner' /\ RelayedUnderPermission'
    BY ZenonT(30), <1>1 DEF NoBrokenOwner, RelayedUnderPermission, alloc
  <1>5. ChannelFraming'
    <2>1. SUFFICES ASSUME op = "toClient"
                   PROVE  /\ n # NoChan => chan[n] = p
                          /\ \A m \in ChNum : chan[m] = p => n = m
      BY <1>1 DEF ChannelFraming, alloc
    <2>2. QED
      BY ZenonT(30), <2>1, SessionAssumption DEF State, ChannelOwnership
  <1>6. QED
    BY ZenonT(30), <1>2, <1>3, <1>4, <1>5 DEF Inv, State, Report

LEMMA DataStep ==
  ASSUME State, Data
  PROVE  Inv'
  <1>1. ASSUME NEW p \in Peer, Send(p) PROVE Inv'
    BY <1>1, DatagramStep DEF Send, Permitted
  <1>2. ASSUME NEW p \in Peer, PeerData(p) PROVE Inv'
    <2>1. (IF Permitted(p) THEN chns[p] ELSE NoChan) \in ChNum \cup {NoChan}
      BY DEF State, TypeOK
    <2>2. QED
      BY <1>2, <2>1, DatagramStep DEF PeerData, Permitted
  <1>3. ASSUME NEW n \in ChNum, ChannelData(n) PROVE Inv'
    <2>1. chan[n] \in Peer /\ HostOf[chan[n]] \in perms
      BY <1>3 DEF ChannelData, State, TypeOK, ChannelOwnership
    <2>2. QED
      BY <1>3, <2>1, DatagramStep DEF ChannelData
  <1>4. QED
    BY <1>1, <1>2, <1>3 DEF Data

-----------------------------------------------------------------------------
(* The sweep takes a permission and the channels of its lm_map together.   *)
LEMMA SweepOwnership ==
  ASSUME State, NEW d \in Nat \ {0}, Sweep(d)
  PROVE  ChannelOwnership'
  <1> DEFINE gone == CleanedChans(d) \cup ExpiredChans(d)
             lost == PeersOf(ExpiredPerms(d)) \cup {chan[n] : n \in ExpiredChans(d)}
  <1>1. /\ perms' = perms \ ExpiredPerms(d)
        /\ chan' = [n \in ChNum |-> IF n \in gone THEN NoPeer ELSE chan[n]]
        /\ chns' = [p \in Peer |-> IF p \in lost THEN NoChan ELSE chns[p]]
    BY DEF Sweep
  <1>2. ASSUME NEW n \in ChNum, chan'[n] # NoPeer
        PROVE  HostOf[chan'[n]] \in perms' /\ chns'[chan'[n]] = n
    <2>1. n \notin gone /\ chan'[n] = chan[n] /\ chan[n] \in Peer
      BY <1>1, <1>2 DEF State, TypeOK
    <2>2. HostOf[chan[n]] \in perms /\ chns[chan[n]] = n
      BY <1>2, <2>1 DEF State, ChannelOwnership
    <2>3. HostOf[chan[n]] \notin ExpiredPerms(d)
      BY <2>1, <2>2 DEF CleanedChans, PeersOf
    <2>4. chan[n] \notin lost
      <3>1. chan[n] \notin PeersOf(ExpiredPerms(d))
        BY <2>3 DEF PeersOf
      <3>2. ASSUME NEW m \in ExpiredChans(d), chan[m] = chan[n] PROVE FALSE
        BY <3>2, <2>1, <2>2 DEF ExpiredChans, State, ChannelOwnership
      <3>3. QED
        BY <3>1, <3>2
    <2>5. QED
      BY <1>1, <2>1, <2>2, <2>3, <2>4
  <1>3. ASSUME NEW p \in Peer, chns'[p] # NoChan
        PROVE  chan'[chns'[p]] = p
    <2>1. p \notin lost /\ chns'[p] = chns[p] /\ chns[p] \in ChNum
      BY <1>1, <1>3 DEF State, TypeOK
    <2>2. chan[chns[p]] = p
      BY <1>3, <2>1 DEF State, ChannelOwnership
    <2>3. chns[p] \notin CleanedChans(d)
      <3>1. ASSUME NEW q \in PeersOf(ExpiredPerms(d)), chns[q] = chns[p] PROVE FALSE
        <4>1. q \in Peer /\ chns[q] # NoChan
          BY <3>1, <1>3, <2>1 DEF PeersOf
        <4>2. q = p
          BY <3>1, <4>1, <2>2 DEF State, ChannelOwnership
        <4>3. QED
          BY <4>2, <2>1
      <3>2. QED
        BY <3>1 DEF CleanedChans
    <2>4. chns[p] \notin ExpiredChans(d)
      BY <2>1, <2>2
    <2>5. QED
      BY <1>1, <2>1, <2>2, <2>3, <2>4
  <1>4. QED
    BY <1>2, <1>3 DEF ChannelOwnership

LEMMA TickStep ==
  ASSUME State, NEW d \in 1..MaxJump, Tick(d)
  PROVE  Inv'
  <1>1. d \in Nat \ {0}
    BY SessionAssumption
  <1>2. out' \in OutType /\ out'.op = "tick"
    BY <1>1 DEF Tick, Outcome, OutType, Op
  <1>3. timer' \in [Family -> Nat]
    BY <1>1 DEF Tick, Left, State, TypeOK
  <1>4. UNCHANGED <<live, client, mobile, tcprelay, valid, relay, failure, denied>>
    BY DEF Tick
  <1>5. Report'
    BY <1>2 DEF Report, NoBrokenOwner, RelayedUnderPermission, ChannelFraming
  <1>6. CASE valid
    <2>1. Sweep(d)
      BY <1>6 DEF Tick
    <2>2. perms' \subseteq perms /\ pttl' \in [Host -> Int]
      BY <2>1, <1>1 DEF Sweep, State, TypeOK
    <2>3. chan' \in [ChNum -> Peer \cup {NoPeer}] /\ chns' \in [Peer -> ChNum \cup {NoChan}]
      BY <2>1 DEF Sweep, State, TypeOK
    <2>4. cttl' \in [ChNum -> Nat]
      <3>1. ASSUME NEW n \in ChNum, chan'[n] # NoPeer PROVE cttl[n] - d \in Nat
        <4>1. n \notin CleanedChans(d) /\ n \notin ExpiredChans(d) /\ chan[n] # NoPeer
          BY <3>1, <2>1 DEF Sweep
        <4>2. ~(cttl[n] < d)
          BY <4>1 DEF ExpiredChans
        <4>3. QED
          BY <4>2, <1>1 DEF State, TypeOK
      <3>2. QED
        BY <2>1, <3>1 DEF Sweep
    <2>5. TypeOK'
      BY <1>2, <1>3, <1>4, <2>2, <2>3, <2>4 DEF State, TypeOK
    <2>6. ChannelOwnership'
      BY <1>1, <2>1, SweepOwnership
    <2>7. Owned'
      BY <1>4, <1>6 DEF State, Owned
    <2>8. NoChannelOnTcpRelay'
      BY <1>4, <2>1 DEF Sweep, State, NoChannelOnTcpRelay
    <2>9. QED
      BY <1>5, <2>5, <2>6, <2>7, <2>8 DEF Inv, State
  <1>7. CASE ~valid
    <2>1. UNCHANGED <<perms, pttl, chan, cttl, chns>>
      BY <1>7 DEF Tick
    <2>2. TypeOK'
      BY ZenonT(30), <1>2, <1>3, <1>4, <2>1 DEF State, TypeOK
    <2>3. ChannelOwnership' /\ Owned' /\ NoChannelOnTcpRelay'
      BY <1>4, <2>1 DEF State, ChannelOwnership, Owned, NoChannelOnTcpRelay
    <2>4. QED
      BY <1>5, <2>2, <2>3 DEF Inv, State
  <1>8. QED
    BY <1>6, <1>7

LEMMA RelayTimeoutStep ==
  ASSUME State, NEW f \in Family, RelayTimeout(f)
  PROVE  Inv'
  <1> DEFINE left == [relay EXCEPT ![f] = "none"]
  <1>1. left \in [Family -> {"none", "open", "dead"}]
    BY DEF State, TypeOK
  <1>2. \A g \in Family : left[g] # "none" => relay[g] # "none"
    BY DEF State, TypeOK
  <1>3. out' = Answer("timeout", 0) /\ UNCHANGED denied /\ timer \in [Family -> Nat]
    BY DEF RelayTimeout, State, TypeOK
  <1>4. CASE \A g \in Family : left[g] = "none"
    <2>1. Shutdown(left, timer)
      BY <1>4, Zenon DEF RelayTimeout
    <2>2. QED
      BY <1>1, <1>2, <1>3, <2>1, ShutdownStep, Zenon DEF Op
  <1>5. CASE ~\A g \in Family : left[g] = "none"
    <2>1. /\ relay' = left
          /\ UNCHANGED <<live, client, mobile, tcprelay, valid, timer, failure,
                         perms, pttl, chan, cttl, chns>>
      BY <1>5 DEF RelayTimeout
    <2>2. out' \in OutType /\ out'.op = "timeout"
      BY <1>3, AnswerType DEF Op
    <2>3. valid
      BY ZenonT(30), <1>2, <1>5 DEF State, Owned
    <2>4. QED
      BY <1>1, <1>3, <2>1, <2>2, <2>3, RelayStep DEF State, TypeOK, Owned
  <1>6. QED
    BY <1>4, <1>5

-----------------------------------------------------------------------------
LEMMA RequestStep ==
  ASSUME State, Request
  PROVE  Inv'
  <1>1. CASE Open
    BY <1>1, AnswerType, QuietStep DEF Open, Op, State, TypeOK, Owned
  <1>2. CASE AttachSocket
    BY <1>2, AnswerType, QuietStep DEF AttachSocket, Op, State, TypeOK, Owned
  <1>3. ASSUME NEW mob \in BOOLEAN, NEW tcp \in BOOLEAN, AllocateRefused(mob, tcp) PROVE Inv'
    <2>1. out' \in OutType /\ out'.op = "allocate"
      BY <1>3, AnswerType DEF AllocateRefused, Op
    <2>2. QED
      BY <1>3, <2>1, RelayStep DEF AllocateRefused, alloc, State, TypeOK, Owned
  <1>4. ASSUME NEW fams \in (SUBSET Family) \ {{}}, NEW mob \in BOOLEAN, NEW tcp \in BOOLEAN,
               NEW l \in Requested, NEW lost \in SUBSET fams,
               Allocate(fams, lost, mob, tcp, l)
        PROVE  Inv'
    BY <1>4, AllocateStep
  <1>5. ASSUME NEW same \in BOOLEAN, AllocateAgain(same) PROVE Inv'
    <2>1. out' \in OutType /\ out'.op = "allocate"
      BY <1>5, AnswerType, AllocateAnswerType DEF AllocateAgain, Op
    <2>2. QED
      BY <1>5, <2>1, QuietStep DEF AllocateAgain, State, TypeOK, Owned
  <1>6. ASSUME NEW fams \in SUBSET Family, NEW l \in Requested, NEW delete \in BOOLEAN,
               Refresh(fams, l, delete)
        PROVE  Inv'
    BY <1>6, RefreshStep
  <1>7. ASSUME NEW S \in (SUBSET Peer) \ {{}}, NEW full \in SUBSET {HostOf[p] : p \in S},
               CreatePermission(S, full)
        PROVE  Inv'
    BY <1>7, CreatePermissionStep
  <1>8. ASSUME NEW n \in ChNum, NEW p \in Peer, ChannelBind(n, p) PROVE Inv'
    BY <1>8, ChannelBindStep
  <1>9. QED
    BY <1>1, <1>2, <1>3, <1>4, <1>5, <1>6, <1>7, <1>8 DEF Request

LEMMA FaultStep ==
  ASSUME State, Fault
  PROVE  Inv'
  <1>1. CASE ClientGone
    BY <1>1, ShutdownStep DEF ClientGone, Op, State, TypeOK
  <1>2. CASE ClientBreaks
    BY <1>2, AnswerType, QuietStep DEF ClientBreaks, Op, State, TypeOK, Owned
  <1>3. ASSUME NEW f \in Family, RelayBreaks(f) PROVE Inv'
    <2> DEFINE broken == [relay EXCEPT ![f] = "dead"]
    <2>1. broken \in [Family -> {"none", "open", "dead"}]
      BY DEF State, TypeOK
    <2>2. \A g \in Family : broken[g] # "none" => relay[g] # "none"
      BY <1>3 DEF RelayBreaks, State, TypeOK
    <2>3. out' = Answer("break", 0) /\ UNCHANGED denied /\ timer \in [Family -> Nat] /\ valid
      BY <1>3 DEF RelayBreaks, State, TypeOK, Owned
    <2>4. CASE Shutdown(broken, timer)
      BY <2>1, <2>2, <2>3, <2>4, ShutdownStep, Zenon DEF Op
    <2>5. CASE /\ relay' = broken
               /\ UNCHANGED <<live, client, mobile, tcprelay, valid, timer, failure,
                              perms, pttl, chan, cttl, chns>>
      <3>1. out' \in OutType /\ out'.op = "break"
        BY <2>3, AnswerType DEF Op
      <3>2. QED
        BY <2>1, <2>3, <2>5, <3>1, RelayStep DEF State, TypeOK, Owned
    <2>6. QED
      BY <1>3, <2>4, <2>5, Zenon DEF RelayBreaks
  <1>4. ASSUME NEW D \in IpLists, UpdateIpLists(D) PROVE Inv'
    BY <1>4, AnswerType, QuietStep, SessionAssumption DEF UpdateIpLists, Op, State, TypeOK, Owned
  <1>5. QED
    BY <1>1, <1>2, <1>3, <1>4 DEF Fault

LEMMA TimerStep ==
  ASSUME State, Timer
  PROVE  Inv'
  <1>1. CASE Watchdog
    BY <1>1, ShutdownStep DEF Watchdog, Op, State, TypeOK
  <1>2. QED
    BY <1>1, TickStep, RelayTimeoutStep DEF Timer

LEMMA NextInv == Inv /\ [Next]_vars => Inv'
  <1> SUFFICES ASSUME Inv, [Next]_vars PROVE Inv'
    OBVIOUS
  <1>1. CASE Next
    BY ZenonT(30), <1>1, RequestStep, DataStep, FaultStep, TimerStep DEF Next, Inv
  <1>2. CASE UNCHANGED vars
    BY <1>2 DEF vars, alloc, Inv, State, TypeOK, ChannelOwnership, Owned, NoChannelOnTcpRelay,
                Report, NoBrokenOwner, RelayedUnderPermission, ChannelFraming
  <1>3. QED
    BY <1>1, <1>2

(* Every reachable state satisfies the inductive invariant.                *)
THEOREM Invariance == Spec => []Inv
  BY InitInv, NextInv, PTL DEF Spec

(* Every variable of a session stays in its type.                          *)
THEOREM TypeCorrect == Spec => []TypeOK
  <1>1. Inv => TypeOK
    BY DEF Inv, State
  <1>2. QED
    BY <1>1, Invariance, PTL

(* ch_map and the lm_maps of the permissions describe the same channels    *)
(* and no channel outlives its permission.                                 *)
THEOREM ChannelMapsAgree == Spec => []ChannelOwnership
  <1>1. Inv => ChannelOwnership
    BY DEF Inv, State
  <1>2. QED
    BY <1>1, Invariance, PTL

(* ChannelBind never finds a channel whose permission slot is gone.        *)
THEOREM OwnersNeverBroken == Spec => []NoBrokenOwner
  <1>1. Inv => NoBrokenOwner
    BY DEF Inv, Report
  <1>2. QED
    BY <1>1, Invariance, PTL

(* No teardown path leaves a permission or a relay behind.                 *)
THEOREM NothingOutlivesAllocation == Spec => []StateNeedsAllocation
  <1>1. Inv => StateNeedsAllocation
    BY DEF Inv, State, Owned, StateNeedsAllocation
  <1>2. QED
    BY <1>1, Invariance, PTL

(* A TCP allocation never has a channel.                                   *)
THEOREM TcpRelayHasNoChannel == Spec => []NoChannelOnTcpRelay
  <1>1. Inv => NoChannelOnTcpRelay
    BY DEF Inv, State
  <1>2. QED
    BY <1>1, Invariance, PTL

(* Data crosses the relay only under an installed permission, although     *)
(* write_to_peerchannel does not look for one.                             *)
THEOREM DataNeedsPermission == Spec => []RelayedUnderPermission
  <1>1. Inv => RelayedUnderPermission
    BY DEF Inv, Report
  <1>2. QED
    BY <1>1, Invariance, PTL

(* Data from a peer is framed with the peer's own channel, if it has one.  *)
THEOREM FramingFollowsBinding == Spec => []ChannelFraming
  <1>1. Inv => ChannelFraming
    BY DEF Inv, Report
  <1>2. QED
    BY <1>1, Invariance, PTL

-----------------------------------------------------------------------------
(* Only CreatePermission and ChannelBind add to perms.                     *)
LEMMA PermissionAdders ==
  ASSUME State, [Next]_vars, ~(perms' \subseteq perms)
  PROVE  \/ \E S \in SUBSET Peer, full \in SUBSET Host : CreatePermission(S, full)
         \/ \E n \in ChNum, p \in Peer : ChannelBind(n, p)
  <1> USE DEF alloc
  <1>1. CASE Request
    <2>1. ASSUME NEW S \in (SUBSET Peer) \ {{}}, NEW full \in SUBSET {HostOf[p] : p \in S},
                 CreatePermission(S, full)
          PROVE  \E T \in SUBSET Peer, g \in SUBSET Host : CreatePermission(T, g)
      <3>1. S \in SUBSET Peer /\ full \in SUBSET Host
        BY SessionAssumption
      <3>2. QED
        BY <2>1, <3>1
    <2>2. QED
      BY ZenonT(30), <1>1, <2>1 DEF Request, Open, AttachSocket, AllocateRefused, Allocate, AllocateAgain, Refresh
  <1>2. CASE Data
    BY <1>2, Zenon DEF Data, Send, PeerData, ChannelData
  <1>3. CASE Fault
    BY <1>3 DEF Fault, ClientGone, ClientBreaks, RelayBreaks, UpdateIpLists, Shutdown, Free,
                FreshAllocation
  <1>4. CASE Timer
    BY <1>4, Zenon DEF Timer, Tick, Sweep, RelayTimeout, Watchdog, Shutdown, Free, FreshAllocation
  <1>5. CASE UNCHANGED vars
    BY <1>5 DEF vars
  <1>6. QED
    BY <1>1, <1>2, <1>3, <1>4, <1>5 DEF Next

(* The first pass of CreatePermission and the checks of ChannelBind see    *)
(* the same lists that are in force when the permission is installed.      *)
THEOREM NewPermissionsAreAllowed == Spec => NewPermissionAllowed
  <1>1. ASSUME Inv, [Next]_vars
        PROVE  \A h \in perms' \ perms : h \notin denied /\ relay[FamilyOf[h]] # "none"
    <2>1. CASE perms' \subseteq perms
      BY <2>1
    <2>2. ASSUME NEW S \in SUBSET Peer, NEW full \in SUBSET Host, CreatePermission(S, full)
          PROVE  \A h \in perms' \ perms : h \notin denied /\ relay[FamilyOf[h]] # "none"
      BY <2>2 DEF CreatePermission, Relayed
    <2>3. ASSUME NEW n \in ChNum, NEW p \in Peer, ChannelBind(n, p)
          PROVE  \A h \in perms' \ perms : h \notin denied /\ relay[FamilyOf[h]] # "none"
      <3>1. CASE BindError(n, p) = 0
        <4>1. perms' \subseteq perms \cup {HostOf[p]}
          BY <2>3 DEF ChannelBind, Bind, BindFails
        <4>2. ~tcprelay /\ valid
          BY <1>1, <3>1, BindErrorCases DEF Inv
        <4>3. Relayed(p) # "none"
          BY <3>1, <4>2 DEF BindError
        <4>4. CASE chan[n] # NoPeer
          <5>1. HostOf[p] \in perms
            BY <1>1, <3>1, <4>4, BindErrorCases DEF Inv, State, ChannelOwnership
          <5>2. QED
            BY ZenonT(30), <4>1, <5>1
        <4>5. CASE chan[n] = NoPeer
          <5>1. BindError(n, p) =
                  IF HostOf[p] \in perms /\ chns[p] # NoChan THEN 400
                  ELSE IF HostOf[p] \in denied THEN 403 ELSE 0
            BY <4>2, <4>3, <4>5 DEF BindError
          <5>2. HostOf[p] \notin denied
            BY <3>1, <5>1
          <5>3. QED
            BY <4>1, <4>3, <5>2 DEF Relayed
        <4>6. QED
          BY <4>4, <4>5
      <3>2. CASE BindError(n, p) # 0
        BY <2>3, <3>2 DEF ChannelBind
      <3>3. QED
        BY <3>1, <3>2
    <2>4. QED
      BY <1>1, <2>1, <2>2, <2>3, PermissionAdders, Zenon DEF Inv
  <1>2. QED
    BY <1>1, Invariance, PTL DEF Spec, NewPermissionAllowed

-----------------------------------------------------------------------------
(* With a permission lifetime of at least the channel lifetime, a channel  *)
(* never expires after the permission that owns it.                        *)
Deadlines ==
  \A n \in ChNum : chan[n] # NoPeer =>
    /\ cttl[n] <= ChannelLifetime
    /\ cttl[n] <= pttl[HostOf[chan[n]]]

LongPermissions == PermissionLifetime >= ChannelLifetime

(* Steps that neither add a channel nor touch a deadline keep the order.   *)
LEMMA DeadlinesKept ==
  ASSUME Deadlines, UNCHANGED <<pttl, cttl, chan>> \/ Free
  PROVE  Deadlines'
  BY ZenonT(30) DEF Deadlines, Free, FreshAllocation

LEMMA BindDeadlines ==
  ASSUME State, Deadlines, NEW n \in ChNum, NEW p \in Peer, ChannelBind(n, p)
  PROVE  Deadlines'
  <1>1. HostOf[p] \in Host
    BY SessionAssumption
  <1>2. ASSUME NEW m \in ChNum, chan'[m] # NoPeer, Bind(n, p)
        PROVE  cttl'[m] <= ChannelLifetime /\ cttl'[m] <= pttl'[HostOf[chan'[m]]]
    <2>1. CASE m = n
      BY <1>1, <1>2, <2>1, SessionAssumption DEF Bind, State, TypeOK
    <2>2. CASE m # n
      <3>1. chan'[m] = chan[m] /\ cttl'[m] = cttl[m] /\ chan[m] \in Peer /\ HostOf[chan[m]] \in Host
        BY <1>2, <2>2, SessionAssumption, Zenon DEF Bind, State, TypeOK
      <3>2. pttl'[HostOf[chan[m]]] = IF HostOf[chan[m]] = HostOf[p] THEN ChannelLifetime
                                     ELSE pttl[HostOf[chan[m]]]
        BY <1>1, <1>2, <3>1 DEF Bind, State, TypeOK
      <3>3. QED
        BY ZenonT(30), <1>2, <3>1, <3>2 DEF Deadlines
    <2>3. QED
      BY <2>1, <2>2
  <1>3. ASSUME NEW m \in ChNum, chan'[m] # NoPeer, BindFails(p)
        PROVE  cttl'[m] <= ChannelLifetime /\ cttl'[m] <= pttl'[HostOf[chan'[m]]]
    <2>1. chan'[m] = chan[m] /\ cttl'[m] = cttl[m] /\ HostOf[chan[m]] \in perms
      BY ZenonT(30), <1>3 DEF BindFails, State, ChannelOwnership
    <2>2. pttl'[HostOf[chan[m]]] = pttl[HostOf[chan[m]]]
      BY <1>1, <1>3, <2>1 DEF BindFails, State, TypeOK
    <2>3. QED
      BY ZenonT(30), <1>3, <2>1, <2>2 DEF Deadlines
  <1>4. QED
    BY <1>2, <1>3, DeadlinesKept DEF ChannelBind, Deadlines

LEMMA PermissionDeadlines ==
  ASSUME LongPermissions, State, Deadlines, NEW S \in SUBSET Peer, NEW full,
         CreatePermission(S, full)
  PROVE  Deadlines'
  <1>1. UNCHANGED <<chan, cttl>>
    BY ZenonT(30) DEF CreatePermission
  <1>2. \A h \in Host : pttl'[h] \in {pttl[h], PermissionLifetime}
    BY DEF CreatePermission, State, TypeOK
  <1>3. \A n \in ChNum : chan[n] # NoPeer => HostOf[chan[n]] \in Host /\ cttl[n] \in Nat
    BY ZenonT(30), SessionAssumption DEF State, TypeOK
  <1>4. QED
    BY <1>1, <1>2, <1>3, SessionAssumption DEF Deadlines, LongPermissions, State, TypeOK

LEMMA TickDeadlines ==
  ASSUME State, Deadlines, NEW d \in 1..MaxJump, Tick(d)
  PROVE  /\ Deadlines'
         /\ \A n \in ChNum : chan[n] # NoPeer /\ cttl[n] >= d => chan'[n] = chan[n]
  <1>1. d \in Nat \ {0}
    BY SessionAssumption
  <1>2. CASE ~valid
    BY <1>2, NoAllocationNoChannel DEF Tick, Deadlines
  <1>3. CASE valid
    <2>1. Sweep(d)
      BY <1>3 DEF Tick
    <2>2. ChannelOwnership'
      BY <1>1, <2>1, SweepOwnership
    <2>3. ASSUME NEW n \in ChNum, chan'[n] # NoPeer
          PROVE  cttl'[n] <= ChannelLifetime /\ cttl'[n] <= pttl'[HostOf[chan'[n]]]
      <3>1. chan'[n] = chan[n] /\ chan[n] \in Peer /\ HostOf[chan[n]] \in Host
        BY ZenonT(30), <2>1, <2>3, SessionAssumption DEF Sweep, State, TypeOK
      <3>2. HostOf[chan[n]] \in perms'
        BY <2>2, <2>3, <3>1 DEF ChannelOwnership
      <3>3. cttl'[n] = cttl[n] - d /\ pttl'[HostOf[chan[n]]] = pttl[HostOf[chan[n]]] - d
        BY ZenonT(30), <2>1, <2>3, <3>1, <3>2 DEF Sweep
      <3>4. cttl[n] \in Nat /\ pttl[HostOf[chan[n]]] \in Int
        BY <3>1 DEF State, TypeOK
      <3>5. cttl[n] <= ChannelLifetime /\ cttl[n] <= pttl[HostOf[chan[n]]]
        BY ZenonT(30), <2>3, <3>1 DEF Deadlines
      <3>6. QED
        BY <1>1, <3>1, <3>3, <3>4, <3>5, SessionAssumption
    <2>4. ASSUME NEW n \in ChNum, chan[n] # NoPeer, cttl[n] >= d
          PROVE  chan'[n] = chan[n]
      <3>1. chan[n] \in Peer /\ chns[chan[n]] = n /\ HostOf[chan[n]] \in Host
        BY <2>4, SessionAssumption DEF State, TypeOK, ChannelOwnership
      <3>2. HostOf[chan[n]] \notin ExpiredPerms(d)
        BY <1>1, <2>4, <3>1 DEF ExpiredPerms, Deadlines, State, TypeOK
      <3>3. n \notin CleanedChans(d)
        <4>1. ASSUME NEW q \in PeersOf(ExpiredPerms(d)), chns[q] = n PROVE FALSE
          <5>1. q \in Peer /\ chan[n] = q
            BY <4>1, SessionAssumption DEF PeersOf, State, ChannelOwnership
          <5>2. QED
            BY <3>2, <5>1 DEF PeersOf
        <4>2. QED
          BY <4>1 DEF CleanedChans
      <3>4. n \notin ExpiredChans(d)
        BY <1>1, <2>4 DEF ExpiredChans, State, TypeOK
      <3>5. QED
        BY <2>1, <3>3, <3>4 DEF Sweep
    <2>5. QED
      BY <2>3, <2>4 DEF Deadlines
  <1>4. QED
    BY <1>2, <1>3

(* Every step keeps the order of the deadlines, and a tick takes no        *)
(* channel that has time left.                                             *)
LEMMA NextDeadlines ==
  ASSUME LongPermissions, State, Deadlines, [Next]_vars
  PROVE  /\ Deadlines'
         /\ \/ UNCHANGED vars
            \/ out'.op = "tick" =>
                 \A n \in ChNum : chan[n] # NoPeer /\ cttl[n] >= out'.d => chan'[n] = chan[n]
  <1> DEFINE Goal == /\ Deadlines'
                     /\ \/ UNCHANGED vars
                        \/ out'.op = "tick" =>
                             \A n \in ChNum :
                               chan[n] # NoPeer /\ cttl[n] >= out'.d => chan'[n] = chan[n]
  <1> USE DEF alloc
  <1>1. CASE Request
    <2>1. out'.op # "tick"
      <3> DEFINE Told ==
                   \/ \E op \in Op \ {"tick"},
                        code \in Nat \cup {BindError(n, p) : n \in ChNum, p \in Peer} :
                        out' = Answer(op, code)
                   \/ \E r, failed : out' = AllocateAnswer(r, failed)
      <3>1. ASSUME NEW n \in ChNum, NEW p \in Peer, ChannelBind(n, p) PROVE Told
        BY <3>1 DEF ChannelBind, Bind, BindFails, Op
      <3>2. ASSUME NEW S, NEW full, CreatePermission(S, full) PROVE Told
        BY <3>2 DEF CreatePermission, Op
      <3>3. ASSUME Open \/ AttachSocket \/ \E same : AllocateAgain(same) PROVE Told
        BY <3>3 DEF Open, AttachSocket, AllocateAgain, Op
      <3>4. ASSUME NEW mob, NEW tcp, AllocateRefused(mob, tcp) PROVE Told
        BY <3>4 DEF AllocateRefused, Op
      <3>5. ASSUME NEW fams, NEW lost, NEW mob, NEW tcp, NEW l, Allocate(fams, lost, mob, tcp, l)
            PROVE  Told
        BY <3>5 DEF Allocate, Op
      <3>6. ASSUME NEW fams, NEW l, NEW delete, Refresh(fams, l, delete) PROVE Told
        BY <3>6 DEF Refresh, Op
      <3> HIDE DEF Told
      <3>7. Told
        BY ZenonT(30), <1>1, <3>1, <3>2, <3>3, <3>4, <3>5, <3>6 DEF Request
      <3> USE DEF Told
      <3>8. QED
        BY <3>7, ReportFields, AllocateAnswerType
    <2>2. ASSUME NEW S \in (SUBSET Peer) \ {{}}, NEW full \in SUBSET {HostOf[p] : p \in S},
                 CreatePermission(S, full)
          PROVE  Deadlines'
      <3>1. S \in SUBSET Peer
        OBVIOUS
      <3>2. QED
        BY ZenonT(30), <2>2, <3>1, PermissionDeadlines
    <2>3. ASSUME NEW n \in ChNum, NEW p \in Peer, ChannelBind(n, p) PROVE Deadlines'
      BY <2>3, BindDeadlines
    <2>4. Deadlines'
      BY <1>1, <2>2, <2>3, DeadlinesKept, ZenonT(30)
         DEF Request, Open, AttachSocket, AllocateRefused, Allocate, AllocateAgain, Refresh
    <2>5. QED
      BY <2>1, <2>4
  <1>2. CASE Data
    <2>1. out'.op # "tick"
      <3>1. \E op \in {"toPeer", "toClient"} : \E q, n : out' = Datagram(op, q, n)
        BY ZenonT(30), <1>2 DEF Data, Send, PeerData, ChannelData
      <3>2. QED
        BY <3>1, ReportFields
    <2>2. Deadlines'
      BY ZenonT(30), <1>2, DeadlinesKept DEF Data, Send, PeerData, ChannelData
    <2>3. QED
      BY <2>1, <2>2
  <1>3. CASE Fault
    <2>1. out'.op # "tick"
      BY <1>3, ReportFields DEF Fault, ClientGone, ClientBreaks, RelayBreaks, UpdateIpLists
    <2>2. Deadlines'
      BY <1>3, DeadlinesKept DEF Fault, ClientGone, ClientBreaks, RelayBreaks, UpdateIpLists, Shutdown
    <2>3. QED
      BY <2>1, <2>2
  <1>4. CASE \E f \in Family : RelayTimeout(f)
    <2>1. out'.op # "tick"
      BY <1>4, ReportFields DEF RelayTimeout
    <2>2. Deadlines'
      BY <1>4, DeadlinesKept, Zenon DEF RelayTimeout, Shutdown
    <2>3. QED
      BY <2>1, <2>2
  <1>5. CASE Watchdog
    <2>1. out'.op # "tick"
      BY <1>5, ReportFields DEF Watchdog
    <2>2. QED
      BY <1>5, <2>1, DeadlinesKept DEF Watchdog
  <1>6. ASSUME NEW d \in 1..MaxJump, Tick(d) PROVE Goal
    <2>1. out'.d = d
      BY <1>6, ReportFields, Zenon DEF Tick
    <2>2. QED
      BY <1>6, <2>1, TickDeadlines
  <1>7. CASE UNCHANGED vars
    BY <1>7, DeadlinesKept DEF vars
  <1>8. QED
    BY <1>1, <1>2, <1>3, <1>4, <1>5, <1>6, <1>7 DEF Next, Timer

(* With permissions at least as long as channels, the sweep never takes a  *)
(* channel whose own lifetime has not passed.                              *)
THEOREM LongPermissionsKeepChannels ==
  ASSUME LongPermissions
  PROVE  Spec => ChannelKept
  <1>1. Init => Deadlines
    BY DEF Init, Deadlines
  <1>2. Inv /\ Deadlines /\ [Next]_vars =>
          /\ Deadlines'
          /\ [out'.op = "tick" =>
                \A n \in ChNum : chan[n] # NoPeer /\ cttl[n] >= out'.d => chan'[n] = chan[n]]_vars
    BY NextDeadlines DEF Inv
  <1>3. QED
    BY <1>1, <1>2, Invariance, PTL DEF Spec, ChannelKept

=============================================================================
