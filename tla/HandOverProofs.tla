-------------------------- MODULE HandOverProofs ---------------------------
(***************************************************************************)
(* Proofs about what one thread or request leaves to another, for any      *)
(* number of threads, peers, connections, ids, ports and tokens: the       *)
(* sockets of the TCP relay's data connections, and those of the relayed   *)
(* addresses with the reservations that outlive the request.               *)
(***************************************************************************)
EXTENDS TcpRelay, RelaySockets, TLAPS

(* A leaf that names no prover goes to the SMT solver, for up to 30 seconds. *)
USE SMTT(30)

-----------------------------------------------------------------------------
(* TCP relay: TcpRelay *)

(* Waiting for its ConnectionBind, with nothing that could have taken its  *)
(* entry of the map.                                                       *)
Waiting(c) == c \in Live /\ client_s[c] = None /\ tried[c] = "no" /\ c \notin clash

(* A free object carries nothing over to its next use. *)
FreeIsClean ==
  \A c \in Conn : state[c] = "free" =>
    /\ id[c] = None /\ client_s[c] = None /\ timers[c] = {}
    /\ tried[c] = "no" /\ c \notin clash

(* A connection that exists has its fields, and a relay endpoint. *)
LiveIsWhole ==
  \A c \in Live :
    /\ owner[c] \in Sess /\ peer[c] \in Peer /\ id[c] \in Id
    /\ FamilyOf[peer[c]] \in alloc[owner[c]]
    /\ state[c] = "READY" => client_s[c] # None

(* WaitingIsFound for every state of the connection; its id is no other's. *)
WaitingIsUnique ==
  \A c \in Conn : Waiting(c) =>
    map[id[c]] = c /\ \A d \in Live : d # c => id[d] # id[c]

IInv ==
  /\ TypeOK /\ FreeIsClean /\ LiveIsWhole /\ MapIsLive /\ WaitingIsUnique
  /\ NotStolen /\ OnePerPeer

-----------------------------------------------------------------------------
LEMMA InitIInv == Init => IInv
  BY TcpAssumption DEF Init, IInv, TypeOK, FreeIsClean, LiveIsWhole, MapIsLive,
     WaitingIsUnique, Waiting, NotStolen, OnePerPeer, Live

(* Making a connection from a free object, with an id the map does not     *)
(* have, for a peer of the session that has none yet.                      *)
LEMMA CreateIInv ==
  ASSUME IInv, NEW s \in Sess, NEW p \in Peer, NEW c \in Conn,
         NEW st \in {"CONNECTING", "PEER_CONNECTED"}, NEW timer \in {"peer", "bind"},
         FamilyOf[p] \in alloc[s], ByPeer(s, p) = {}, Create(c, s, p, st, timer),
         UNCHANGED <<alloc, client_s, broken, tried, pending>>
  PROVE  IInv'
  <1>1. PICK i \in NewIds :
          /\ id' = [id EXCEPT ![c] = i]
          /\ map' = [map EXCEPT ![i] = c]
          /\ clash' = IF \E d \in Live : id[d] = i THEN clash \cup {c} ELSE clash
          /\ told' = IF st = "PEER_CONNECTED" THEN told \cup {i} ELSE told
    BY ZenonT(30) DEF Create
  <1>2. /\ owner' = [owner EXCEPT ![c] = s]
        /\ peer' = [peer EXCEPT ![c] = p]
        /\ state' = [state EXCEPT ![c] = st]
        /\ timers' = [timers EXCEPT ![c] = {timer}]
        /\ state[c] = "free" /\ i \in Id /\ map[i] = None
    BY <1>1 DEF Create, Live, NewIds
  <1>3. TypeOK'
    BY <1>1, <1>2 DEF IInv, TypeOK
  <1>4. Live' = Live \cup {c} /\ c \notin Live
    BY <1>2 DEF IInv, TypeOK, Live
  <1>5. FreeIsClean'
    BY <1>1, <1>2 DEF IInv, TypeOK, FreeIsClean, Live
  <1>6. LiveIsWhole'
    BY <1>1, <1>2, <1>4 DEF IInv, TypeOK, LiveIsWhole, FreeIsClean
  <1>7. MapIsLive'
    BY <1>1, <1>2, <1>4, TcpAssumption DEF IInv, TypeOK, MapIsLive, FreeIsClean
  <1>8. WaitingIsUnique'
    BY <1>1, <1>2, <1>4, TcpAssumption DEF IInv, TypeOK, WaitingIsUnique, Waiting, LiveIsWhole
  <1>9. NotStolen'
    BY <1>1, <1>2, <1>4 DEF IInv, TypeOK, NotStolen, FreeIsClean
  <1>10. OnePerPeer'
    BY <1>1, <1>2, <1>4 DEF IInv, TypeOK, OnePerPeer, ByPeer
  <1> QED
    BY <1>3, <1>5, <1>6, <1>7, <1>8, <1>9, <1>10 DEF IInv

(* Deleting connections.  The allocation may shrink at the same time, by   *)
(* the families whose connections go.                                      *)
LEMMA DeleteIInv ==
  ASSUME IInv, NEW C \in SUBSET Conn, Delete(C),
         alloc' \in [Sess -> SUBSET Family],
         \A c \in Live \ C : FamilyOf[peer[c]] \in alloc'[owner[c]],
         UNCHANGED <<told, pending>>
  PROVE  IInv'
  <1>1. TypeOK'
    BY DEF IInv, TypeOK, Delete, Unmapped
  <1>2. Live' = Live \ C
    BY DEF IInv, TypeOK, Live, Delete
  <1>3. \A c \in Conn \ C :
          /\ owner'[c] = owner[c] /\ peer'[c] = peer[c] /\ id'[c] = id[c]
          /\ state'[c] = state[c] /\ client_s'[c] = client_s[c] /\ tried'[c] = tried[c]
          /\ timers'[c] = timers[c] /\ (c \in clash' <=> c \in clash)
    BY DEF Delete
  <1>4. \A i \in Id : map'[i] = IF \E c \in C : id[c] = i THEN None ELSE map[i]
    BY DEF Delete, Unmapped
  <1>5. FreeIsClean'
    BY DEF IInv, TypeOK, FreeIsClean, Delete
  <1>6. LiveIsWhole'
    BY <1>2, <1>3 DEF IInv, LiveIsWhole, Live
  <1>7. MapIsLive'
    BY <1>2, <1>3, <1>4, TcpAssumption DEF IInv, TypeOK, MapIsLive, Live
  <1>8. WaitingIsUnique'
    <2> SUFFICES ASSUME NEW c \in Conn, Waiting(c)'
                 PROVE  map'[id'[c]] = c /\ \A d \in Live' : d # c => id'[d] # id'[c]
      BY DEF WaitingIsUnique
    <2>1. c \in Live \ C /\ Waiting(c)
      BY <1>2, <1>3 DEF Waiting
    <2>2. id'[c] = id[c] /\ id[c] \in Id /\ map[id[c]] = c
          /\ \A d \in Live : d # c => id[d] # id[c]
      BY <1>3, <2>1 DEF IInv, LiveIsWhole, WaitingIsUnique
    <2>3. \A d \in C : id[d] # id[c]
      BY <2>1, <2>2, TcpAssumption DEF IInv, TypeOK, FreeIsClean, Live
    <2> QED
      BY <1>2, <1>3, <1>4, <2>1, <2>2, <2>3 DEF Live
  <1>9. NotStolen'
    BY <1>2, <1>3 DEF IInv, NotStolen, Live
  <1>10. OnePerPeer'
    BY <1>2, <1>3 DEF IInv, OnePerPeer, Live
  <1> QED
    BY <1>1, <1>5, <1>6, <1>7, <1>8, <1>9, <1>10 DEF IInv

(* A step that changes neither objects nor allocations nor the map. *)
LEMMA OtherIInv ==
  ASSUME IInv,
         UNCHANGED <<alloc, owner, peer, id, state, client_s, timers, broken, map, tried, clash>>,
         told' \subseteq Id, pending' \subseteq User \X Id
  PROVE  IInv'
  BY DEF IInv, TypeOK, FreeIsClean, LiveIsWhole, MapIsLive, WaitingIsUnique, Waiting,
     NotStolen, OnePerPeer, Live

LEMMA AllocateIInv ==
  ASSUME IInv, NEW s \in Sess, NEW F \in SUBSET Family, Allocate(s, F)
  PROVE  IInv'
  <1>1. alloc' = [alloc EXCEPT ![s] = F] /\ alloc[s] = {}
        /\ UNCHANGED <<owner, peer, id, state, client_s, timers, broken, tried, clash,
                       map, told, pending>>
    BY DEF Allocate, fields
  <1>2. TypeOK'
    BY <1>1 DEF IInv, TypeOK
  <1>3. Live' = Live
    BY <1>1 DEF Live
  <1>4. LiveIsWhole' /\ MapIsLive'
    BY <1>1, <1>3, TcpAssumption DEF IInv, TypeOK, LiveIsWhole, MapIsLive
  <1>5. FreeIsClean' /\ WaitingIsUnique' /\ NotStolen' /\ OnePerPeer'
    BY <1>1, <1>3 DEF IInv, FreeIsClean, WaitingIsUnique, Waiting, NotStolen, OnePerPeer
  <1> QED
    BY <1>2, <1>4, <1>5 DEF IInv

LEMMA AllocationEndsIInv ==
  ASSUME IInv, NEW s \in Sess, NEW F \in SUBSET Family, AllocationEnds(s, F)
  PROVE  IInv'
  <1> DEFINE C == {c \in Live : owner[c] = s /\ FamilyOf[peer[c]] \in F}
  <1>1. alloc' = [alloc EXCEPT ![s] = @ \ F] /\ Delete(C) /\ UNCHANGED <<told, pending>>
    BY DEF AllocationEnds
  <1>2. C \in SUBSET Conn
    BY DEF Live
  <1>3. alloc' \in [Sess -> SUBSET Family]
    BY <1>1 DEF IInv, TypeOK
  <1>4. \A c \in Live \ C : FamilyOf[peer[c]] \in alloc'[owner[c]]
    BY <1>1 DEF IInv, TypeOK, LiveIsWhole
  <1> HIDE DEF C
  <1> QED
    BY <1>1, <1>2, <1>3, <1>4, DeleteIInv

(* The steps that delete one connection. *)
LEMMA DeleteOneIInv ==
  ASSUME IInv, NEW c \in Conn, Delete({c}), UNCHANGED <<alloc, told, pending>>
  PROVE  IInv'
  <1>1. alloc' \in [Sess -> SUBSET Family]
    BY DEF IInv, TypeOK
  <1>2. \A d \in Live \ {c} : FamilyOf[peer[d]] \in alloc'[owner[d]]
    BY DEF IInv, LiveIsWhole
  <1> QED
    BY <1>1, <1>2, DeleteIInv

LEMMA ConnectedIInv ==
  ASSUME IInv, NEW c \in Conn, Connected(c)
  PROVE  IInv'
  <1>1. c \in Live /\ id[c] \in Id
    BY DEF Connected, IInv, FreeIsClean, LiveIsWhole, Live
  <1>2. Live' = Live
    BY <1>1 DEF Connected, IInv, TypeOK, Live
  <1>3. TypeOK'
    BY <1>1 DEF Connected, IInv, TypeOK
  <1>4. FreeIsClean' /\ LiveIsWhole'
    BY <1>1, <1>2 DEF Connected, IInv, TypeOK, FreeIsClean, LiveIsWhole, Live
  <1>5. MapIsLive' /\ WaitingIsUnique' /\ NotStolen' /\ OnePerPeer'
    BY <1>2 DEF Connected, IInv, MapIsLive, WaitingIsUnique, Waiting, NotStolen, OnePerPeer
  <1> QED
    BY <1>3, <1>4, <1>5 DEF IInv

(* A ConnectionBind that arrives: its id is used up in every case; the     *)
(* connection is marked as tried, or gets the socket of its owner's user.  *)
LEMMA AcceptClientDataIInv ==
  ASSUME IInv, NEW m \in pending, NEW answer \in {"ok", "refused"}, AcceptClientData(m, answer)
  PROVE  IInv'
  <1> DEFINE c == map[m[2]]
  <1>1. m[1] \in User /\ m[2] \in Id /\ c \in Conn \cup {None}
    BY DEF IInv, TypeOK
  <1>2. /\ map' = [map EXCEPT ![m[2]] = None]
        /\ pending' = pending \ {m} /\ alloc' = alloc /\ told' = told
    BY DEF AcceptClientData
  <1>3. CASE UNCHANGED fields /\ (c = None \/ client_s[c] # None \/ state[c] = "READY")
    <2>1. c = None
      BY <1>1, <1>3 DEF IInv, MapIsLive, LiveIsWhole
    <2>2. map' = map
      BY <1>1, <1>2, <2>1 DEF IInv, TypeOK
    <2> QED
      BY ZenonT(30), <1>2, <1>3, <2>2, OtherIInv DEF fields, IInv, TypeOK
  <1>4. CASE /\ c # None /\ client_s[c] = None /\ answer = "refused"
             /\ tried' = [tried EXCEPT ![c] = answer]
             /\ UNCHANGED <<owner, peer, id, state, client_s, timers, broken, clash>>
    <2>1. c \in Live /\ id[c] = m[2]
      BY <1>1, <1>4 DEF IInv, MapIsLive
    <2>2. TypeOK' /\ Live' = Live
      BY <1>1, <1>2, <1>4 DEF IInv, TypeOK, Live
    <2>3. FreeIsClean' /\ LiveIsWhole' /\ NotStolen' /\ OnePerPeer'
      BY <1>1, <1>2, <1>4, <2>1, <2>2
         DEF IInv, TypeOK, FreeIsClean, LiveIsWhole, NotStolen, OnePerPeer, Live
    <2>4. MapIsLive'
      BY <1>1, <1>2, <1>4, <2>2 DEF IInv, TypeOK, MapIsLive
    <2>5. WaitingIsUnique'
      BY <1>1, <1>2, <1>4, <2>1, <2>2, TcpAssumption
         DEF IInv, TypeOK, WaitingIsUnique, Waiting, LiveIsWhole
    <2> QED
      BY <2>2, <2>3, <2>4, <2>5 DEF IInv
  <1>5. CASE /\ c # None /\ client_s[c] = None /\ m[1] = UserOf[owner[c]]
             /\ state' = [state EXCEPT ![c] = "READY"]
             /\ client_s' = [client_s EXCEPT ![c] = m[1]]
             /\ timers' = [timers EXCEPT ![c] = @ \ {"bind"}]
             /\ Deliver(c)
             /\ UNCHANGED <<owner, peer, id, tried, clash>>
    <2>1. c \in Live /\ c \in Conn /\ id[c] = m[2] /\ m[1] # None
      BY ZenonT(30), <1>1, <1>5, TcpAssumption DEF IInv, MapIsLive
    <2>2. broken' \subseteq Conn
      BY <1>5, <2>1 DEF Deliver, IInv, TypeOK
    <2>3. TypeOK'
      BY <1>1, <1>2, <1>5, <2>1, <2>2 DEF IInv, TypeOK
    <2>4. Live' = Live
      BY <1>5, <2>1 DEF IInv, TypeOK, Live
    <2>5. FreeIsClean' /\ LiveIsWhole'
      BY <1>2, <1>5, <2>1, <2>4 DEF IInv, TypeOK, FreeIsClean, LiveIsWhole, Live
    <2>6. MapIsLive'
      BY <1>1, <1>2, <1>5, <2>1, <2>4 DEF IInv, TypeOK, MapIsLive
    <2>7. WaitingIsUnique'
      BY <1>1, <1>2, <1>5, <2>1, <2>4, TcpAssumption
         DEF IInv, TypeOK, WaitingIsUnique, Waiting, LiveIsWhole
    <2>8. NotStolen' /\ OnePerPeer'
      BY <1>5, <2>1, <2>4 DEF IInv, TypeOK, NotStolen, OnePerPeer
    <2> QED
      BY ZenonT(30), <2>3, <2>5, <2>6, <2>7, <2>8 DEF IInv
  <1> QED
    BY <1>3, <1>4, <1>5 DEF AcceptClientData, Authorized, fields

LEMMA PeerDataIInv ==
  ASSUME IInv, NEW c \in Conn, PeerData(c)
  PROVE  IInv'
  <1>1. CASE UNCHANGED <<owner, peer, id, state, client_s, timers, broken, tried, clash, map>>
    BY ZenonT(30), <1>1, OtherIInv DEF PeerData, IInv, TypeOK
  <1>2. CASE Delete({c})
    BY <1>2, DeleteOneIInv DEF PeerData
  <1> QED
    BY <1>1, <1>2 DEF PeerData

-----------------------------------------------------------------------------
LEMMA NextIInv == IInv /\ [Next]_vars => IInv'
  <1> SUFFICES ASSUME IInv, [Next]_vars PROVE IInv'
    OBVIOUS
  <1>1. ASSUME NEW s \in Sess, NEW F \in SUBSET Family, Allocate(s, F) PROVE IInv'
    BY <1>1, AllocateIInv
  <1>2. ASSUME NEW s \in Sess, NEW F \in SUBSET Family, AllocationEnds(s, F) PROVE IInv'
    BY <1>2, AllocationEndsIInv
  <1>3. ASSUME NEW s \in Sess, NEW p \in Peer, NEW c \in Conn, Connect(s, p, c) PROVE IInv'
    BY <1>3, CreateIInv DEF Connect
  <1>4. ASSUME NEW s \in Sess, NEW p \in Peer, NEW c \in Conn, Accept(s, p, c) PROVE IInv'
    BY <1>4, CreateIInv DEF Accept
  <1>5. ASSUME NEW c \in Conn, Connected(c) PROVE IInv'
    BY <1>5, ConnectedIInv
  <1>6. ASSUME NEW c \in Conn, ConnectFailed(c) \/ BindTimeout(c) \/ SocketClosed(c) PROVE IInv'
    BY <1>6, DeleteOneIInv DEF ConnectFailed, BindTimeout, SocketClosed
  <1>7. ASSUME NEW c \in Conn, PeerData(c) PROVE IInv'
    BY <1>7, PeerDataIInv
  <1>8. ASSUME NEW u \in User, NEW i \in Id, ConnectionBind(u, i) PROVE IInv'
    BY <1>8, OtherIInv DEF ConnectionBind, fields, IInv, TypeOK
  <1>9. ASSUME NEW m \in pending, NEW answer \in {"ok", "refused"}, AcceptClientData(m, answer)
        PROVE  IInv'
    BY <1>9, AcceptClientDataIInv
  <1>10. CASE UNCHANGED vars
    BY <1>10, OtherIInv DEF vars, fields, IInv, TypeOK
  <1> QED
    BY <1>1, <1>2, <1>3, <1>4, <1>5, <1>6, <1>7, <1>8, <1>9, <1>10 DEF Next

LEMMA IInvImplies == IInv => TypeOK /\ MapIsExact /\ NotStolen /\ OnePerPeer
  BY DEF IInv, MapIsExact, WaitingIsFound, WaitingIsUnique, Waiting, Live

THEOREM AlwaysIInv == Spec => []IInv
  BY InitIInv, NextIInv, PTL DEF Spec

(* Every variable of the model but the buffers keeps its type.             *)
THEOREM TcpTypeCorrect == Spec => []TypeOK
  BY AlwaysIInv, IInvImplies, PTL

(* Whatever Connect requests, peers, timers, closing sockets and messages  *)
(* of other threads do, an id of tcp_relay_connections leads to a live     *)
(* connection that was not bound, and a connection that waits for its      *)
(* ConnectionBind is found by its id.                                      *)
THEOREM MapAlwaysExact == Spec => []MapIsExact
  BY AlwaysIInv, IInvImplies, PTL

(* A client socket that another thread hands over                          *)
(* (turnserver_accept_tcp_client_data_connection) is only ever attached to *)
(* a connection of its own user, also when the id was used again.          *)
THEOREM NeverStolen == Spec => []NotStolen
  BY AlwaysIInv, IInvImplies, PTL

(* get_tcp_connection_by_peer keeps an allocation from having two          *)
(* connections to one peer, though either side may begin them.             *)
THEOREM AlwaysOnePerPeer == Spec => []OnePerPeer
  BY AlwaysIInv, IInvImplies, PTL

-----------------------------------------------------------------------------
(* The data of a peer *)

(* Increasing, and nothing above n. *)
Sorted(q, n) ==
  /\ q \in Seq(Nat) /\ \A j \in 1 .. Len(q) : q[j] <= n
  /\ \A j, k \in 1 .. Len(q) : j < k => q[j] < q[k]

(* Until the client's socket comes, the buffer is in order and the client  *)
(* has nothing; then the buffer is not sent from again.                    *)
DataGood(u, g, n, s) ==
  /\ n \in Nat /\ u \in Seq(Nat) /\ Len(u) <= MaxUnsent /\ Sorted(g, n)
  /\ s = None => Sorted(u, n) /\ g = <<>>

DataInv ==
  /\ fed \in [Conn -> Nat] /\ ub \in [Conn -> Seq(Nat)] /\ got \in [Conn -> Seq(Nat)]
  /\ \A c \in Conn : DataGood(ub[c], got[c], fed[c], client_s[c])

LEMMA EmptySorted == \A n \in Nat : Sorted(<<>>, n)
  BY DEF Sorted

LEMMA EmptyGood == \A s : DataGood(<<>>, <<>>, 0, s)
  BY EmptySorted, TcpAssumption DEF DataGood

LEMMA AppendSorted ==
  ASSUME NEW n \in Nat, NEW q, Sorted(q, n)
  PROVE  Sorted(q, n + 1) /\ Sorted(Append(q, n + 1), n + 1)
  BY DEF Sorted

LEMMA DeliveredSorted ==
  ASSUME NEW n \in Nat, NEW q, Sorted(q, n), NEW f \in Delayed(q)
  PROVE  Sorted([k \in DOMAIN f |-> q[f[k]]], n)
  <1>1. PICK m \in 0 .. Len(q) : f \in [1 .. m -> {j \in 1 .. Len(q) : q[j] # 0}]
    BY DEF Delayed, Places
  <1>2. \A j, k \in 1 .. m : j < k => f[j] < f[k]
    BY <1>1 DEF Delayed
  <1>3. \A k \in 1 .. m : f[k] \in 1 .. Len(q)
    BY <1>1
  <1>4. PICK g : g = [k \in 1 .. m |-> q[f[k]]]
    BY ZenonT(30)
  <1>5. g \in Seq(Nat) /\ Len(g) = m /\ m \in Nat
    BY <1>3, <1>4 DEF Sorted
  <1>6. Sorted(g, n)
    BY <1>2, <1>3, <1>4, <1>5 DEF Sorted
  <1> QED
    BY <1>1, <1>4, <1>6

LEMMA DataInit == Init => DataInv
  BY EmptyGood DEF Init, DataInv

LEMMA DataKept ==
  ASSUME DataInv, UNCHANGED <<ub, fed, got, client_s>>
  PROVE  DataInv'
  BY DEF DataInv

LEMMA DataDeleted ==
  ASSUME DataInv, NEW C, Delete(C)
  PROVE  DataInv'
  <1>1. /\ fed' \in [Conn -> Nat] /\ ub' \in [Conn -> Seq(Nat)] /\ got' \in [Conn -> Seq(Nat)]
    BY DEF DataInv, Delete
  <1>2. ASSUME NEW c \in Conn PROVE DataGood(ub'[c], got'[c], fed'[c], client_s'[c])
    <2>1. CASE c \in C
      <3>1. ub'[c] = <<>> /\ got'[c] = <<>> /\ fed'[c] = 0
        BY <2>1 DEF Delete
      <3> QED
        BY <3>1, EmptyGood
    <2>2. CASE c \notin C
      <3>1. ub'[c] = ub[c] /\ got'[c] = got[c] /\ fed'[c] = fed[c] /\ client_s'[c] = client_s[c]
        BY <2>2 DEF Delete
      <3> QED
        BY <3>1 DEF DataInv
    <2> QED
      BY <2>1, <2>2
  <1> QED
    BY <1>1, <1>2 DEF DataInv

LEMMA DataPeer ==
  ASSUME DataInv, NEW c \in Conn, PeerData(c)
  PROVE  DataInv'
  <1>1. PICK x : x = fed[c] + 1
    OBVIOUS
  <1>2. CASE /\ fed' = [fed EXCEPT ![c] = x] /\ client_s' = client_s /\ got' = got
             /\ ub' = [ub EXCEPT ![c] = AddUnsent(@, x)]
    <2>1. DataGood(ub[c], got[c], fed[c], client_s[c])
      BY DEF DataInv
    <2>2. DataGood(AddUnsent(ub[c], x), got[c], x, client_s[c])
      BY <1>1, <2>1, AppendSorted, TcpAssumption DEF DataGood, AddUnsent
    <2>3. x \in Nat /\ AddUnsent(ub[c], x) \in Seq(Nat)
      BY <2>2 DEF DataGood
    <2> QED
      BY <1>2, <2>2, <2>3 DEF DataInv
  <1>3. CASE /\ fed' = [fed EXCEPT ![c] = x] /\ client_s' = client_s /\ ub' = ub /\ client_s[c] # None
             /\ got' = got \/ got' = [got EXCEPT ![c] = Append(@, x)]
    <2>1. DataGood(ub[c], got[c], fed[c], client_s[c])
      BY DEF DataInv
    <2>2. DataGood(ub[c], got[c], x, client_s[c]) /\ DataGood(ub[c], Append(got[c], x), x, client_s[c])
      BY <1>1, <1>3, <2>1, AppendSorted DEF DataGood
    <2>3. x \in Nat /\ Append(got[c], x) \in Seq(Nat)
      BY <2>2 DEF DataGood, Sorted
    <2>4. CASE got' = got
      BY <1>3, <2>2, <2>3, <2>4 DEF DataInv
    <2>5. CASE got' = [got EXCEPT ![c] = Append(@, x)]
      BY <1>3, <2>2, <2>3, <2>5 DEF DataInv
    <2> QED
      BY <1>3, <2>4, <2>5
  <1>4. CASE Delete({c})
    BY ZenonT(30), <1>4, DataDeleted
  <1> QED
    BY <1>1, <1>2, <1>3, <1>4 DEF PeerData

LEMMA DataBound ==
  ASSUME IInv, DataInv, NEW m \in pending, NEW answer, AcceptClientData(m, answer)
  PROVE  DataInv'
  <1>1. PICK c : c = map[m[2]]
    OBVIOUS
  <1>2. m[1] \in User /\ m[2] \in Id /\ c \in Conn \cup {None} /\ m[1] # None
    BY <1>1, TcpAssumption DEF IInv, TypeOK
  <1>3. CASE UNCHANGED <<ub, fed, got, client_s>>
    BY <1>3, DataKept
  <1>4. CASE /\ c # None /\ client_s[c] = None /\ client_s' = [client_s EXCEPT ![c] = m[1]]
             /\ Deliver(c) /\ fed' = fed
    <2>1. PICK n \in 0 .. Len(ub[c]), f \in Delayed(ub[c]) :
            /\ got' = [got EXCEPT ![c] = [k \in DOMAIN f |-> ub[c][f[k]]]]
            /\ ub' = [ub EXCEPT ![c] = [j \in 1 .. Len(@) |-> IF j <= n + 1 THEN 0 ELSE @[j]]]
      BY ZenonT(30), <1>4 DEF Deliver
    <2>2. c \in Conn /\ Sorted(ub[c], fed[c]) /\ fed[c] \in Nat /\ Len(ub[c]) <= MaxUnsent
      BY <1>2, <1>4 DEF DataInv, DataGood
    <2>3. PICK g : g = [k \in DOMAIN f |-> ub[c][f[k]]]
      BY ZenonT(30)
    <2>4. Sorted(g, fed[c]) /\ g \in Seq(Nat)
      <3>1. Sorted(g, fed[c])
        BY ZenonT(30), <2>2, <2>3, DeliveredSorted
      <3> QED
        BY <3>1 DEF Sorted
    <2>5. PICK u : u = [j \in 1 .. Len(ub[c]) |-> IF j <= n + 1 THEN 0 ELSE ub[c][j]]
      BY ZenonT(30)
    <2>6. u \in Seq(Nat) /\ Len(u) = Len(ub[c])
      BY <2>2, <2>5 DEF Sorted
    <2>7. DataGood(u, g, fed[c], m[1])
      BY <1>2, <2>2, <2>4, <2>6 DEF DataGood
    <2>8. got' = [got EXCEPT ![c] = g] /\ ub' = [ub EXCEPT ![c] = u]
      BY <2>1, <2>3, <2>5
    <2>9. client_s \in [Conn -> User \cup {None}]
      BY DEF IInv, TypeOK
    <2> QED
      BY <1>4, <2>2, <2>4, <2>6, <2>7, <2>8, <2>9 DEF DataInv
  <1> QED
    BY <1>1, <1>3, <1>4 DEF AcceptClientData, fields

LEMMA DataStep == IInv /\ DataInv /\ [Next]_vars => DataInv'
  <1> SUFFICES ASSUME IInv, DataInv, [Next]_vars PROVE DataInv'
    OBVIOUS
  <1>1. ASSUME NEW C, Delete(C) PROVE DataInv'
    BY <1>1, DataDeleted
  <1>2. ASSUME NEW c \in Conn, PeerData(c) PROVE DataInv'
    BY <1>2, DataPeer
  <1>3. ASSUME NEW m \in pending, NEW answer, AcceptClientData(m, answer) PROVE DataInv'
    BY <1>3, DataBound
  <1>4. ASSUME NEW c, ConnectFailed(c) \/ BindTimeout(c) \/ SocketClosed(c) PROVE DataInv'
    BY <1>1, <1>4 DEF ConnectFailed, BindTimeout, SocketClosed
  <1>5. ASSUME NEW s, NEW F, AllocationEnds(s, F) PROVE DataInv'
    BY <1>1, <1>5 DEF AllocationEnds
  <1>6. ASSUME NEW s, NEW p, NEW c, Connect(s, p, c) \/ Accept(s, p, c) PROVE DataInv'
    BY <1>6, DataKept DEF Connect, Accept
  <1>7. ASSUME NEW s, NEW F, NEW u, NEW i, NEW c,
               Allocate(s, F) \/ ConnectionBind(u, i) \/ Connected(c)
        PROVE  DataInv'
    BY <1>7, DataKept DEF Allocate, ConnectionBind, Connected, fields
  <1>8. CASE UNCHANGED vars
    BY <1>8, DataKept DEF vars, fields
  <1> QED
    BY ZenonT(30), <1>2, <1>3, <1>4, <1>5, <1>6, <1>7, <1>8 DEF Next

(* The pieces of a peer's data reach the client in the order in which they *)
(* came and none twice, for any length of the buffer of                    *)
(* tcp_peer_input_handler: what tcp_deliver_delayed_buffer sends precedes  *)
(* all that comes later, and the buffer stays within its limit.            *)
THEOREM DataAlwaysInOrder == Spec => []DataInOrder
  <1>1. DataInv => DataInOrder
    BY DEF DataInv, DataGood, Sorted, DataInOrder
  <1> QED
    BY <1>1, AlwaysIInv, DataInit, DataStep, PTL DEF Spec

-----------------------------------------------------------------------------
(* The sockets of the relayed addresses: RelaySockets *)

(* What the owners of OneOwner rest on: a request at work has a port (a    *)
(* pair for an even request), only a request that is freeing has ports to  *)
(* free, only even_port > 0 opens an RTCP socket.                          *)
Located ==
  /\ \A r \in Request : pc[r] \in {"rtcp", "rtp", "up"} => port[r] \in Port
  /\ \A r \in Request : pc[r] \in {"rtcp", "rtp"} /\ even[r] >= 0 => port[r] + 1 \in Port
  /\ \A r \in Request : pc[r] # "free" => todo[r] = {}
  /\ \A r \in Request : pc[r] = "rtcp" => even[r] = 1

(* What KeptUntilTimeout rests on: the timer remembers tokens that timed   *)
(* out, and a token is made up once.                                       *)
Timed ==
  /\ Reserved \subseteq used
  /\ doomed \subseteq used
  /\ doomed \cap Reserved \subseteq old

SocketsInv == RsTypeOK /\ Located /\ OneOwner /\ Timed

LEMMA SocketsInitInv == RsInit => SocketsInv
  BY RelayAssumption DEF RsInit, SocketsInv, RsTypeOK, Located, OneOwner, Timed, Owned, Reserved, NoPort, NoToken

(* A step that leaves the map and the taken ports alone, in which no       *)
(* request gains a port, keeps every port with its one owner.              *)
LEMMA NoNewOwner ==
  ASSUME OneOwner, taken' = taken, resv' = resv,
         \A r \in Request : Owned(r)' \subseteq Owned(r)
  PROVE  OneOwner'
  BY DEF OneOwner, Reserved

(* A request gains ports that were not taken. *)
LEMMA NewOwner ==
  ASSUME OneOwner, NEW P, P \cap taken = {}, taken' = taken \cup P, resv' = resv,
         NEW r \in Request, Owned(r)' \subseteq Owned(r) \cup P,
         \A s \in Request : s # r => Owned(s)' \subseteq Owned(s)
  PROVE  OneOwner'
  BY DEF OneOwner, Reserved

(* A request gives back a port of its own. *)
LEMMA OwnerGives ==
  ASSUME OneOwner, NEW p, taken' = taken \ {p}, resv' = resv,
         NEW r \in Request, p \in Owned(r), Owned(r)' \subseteq Owned(r) \ {p},
         \A s \in Request : s # r => Owned(s)' \subseteq Owned(s)
  PROVE  OneOwner'
  BY DEF OneOwner, Reserved

LEMMA StartStep ==
  ASSUME SocketsInv, NEW r \in Request, NEW e \in EvenPort, Start(r, e)
  PROVE  SocketsInv'
<1>1. RsTypeOK'
  BY RelayAssumption DEF SocketsInv, RsTypeOK, Start, Goto, token_map, NoPort, NoToken
<1>2. Located'
  BY DEF SocketsInv, RsTypeOK, Start, Goto, token_map, Located
<1>3. OneOwner'
  <2>1. \A s \in Request : Owned(s)' \subseteq Owned(s)
    BY RelayAssumption DEF SocketsInv, RsTypeOK, Located, Start, Goto, Owned, Sockets
  <2> QED  BY <2>1, NoNewOwner DEF SocketsInv, Start, token_map
<1>4. Timed'
  BY DEF SocketsInv, Timed, Reserved, token_map, Start
<1> QED  BY <1>1, <1>2, <1>3, <1>4 DEF SocketsInv

LEMMA ChoosePortStep ==
  ASSUME SocketsInv, NEW r \in Request, NEW p \in Port, ChoosePort(r, p)
  PROVE  SocketsInv'
<1>1. RsTypeOK'
  BY RelayAssumption DEF SocketsInv, RsTypeOK, ChoosePort, Goto, token_map, NoPort, NoToken
<1>2. Located'
  BY DEF SocketsInv, RsTypeOK, ChoosePort, Goto, token_map, Located
<1>3. OneOwner'
  <2>1. Owned(r)' \subseteq {p}
    BY RelayAssumption DEF SocketsInv, RsTypeOK, ChoosePort, Goto, Owned
  <2>2. \A s \in Request : s # r => Owned(s)' \subseteq Owned(s)
    BY DEF SocketsInv, RsTypeOK, ChoosePort, Goto, Owned
  <2>3. {p} \cap taken = {} /\ taken' = taken \cup {p} /\ resv' = resv
    BY DEF ChoosePort, token_map
  <2> QED  BY ZenonT(30), <2>1, <2>2, <2>3, NewOwner DEF SocketsInv
<1>4. Timed'
  BY DEF SocketsInv, Timed, Reserved, token_map, ChoosePort
<1> QED  BY <1>1, <1>2, <1>3, <1>4 DEF SocketsInv

LEMMA ChoosePairStep ==
  ASSUME SocketsInv, NEW r \in Request, NEW p \in Port, ChoosePair(r, p)
  PROVE  SocketsInv'
<1>1. RsTypeOK'
  BY RelayAssumption DEF SocketsInv, RsTypeOK, ChoosePair, Pair, Goto, token_map, NoPort, NoToken
<1>2. Located'
  BY DEF SocketsInv, RsTypeOK, ChoosePair, Pair, Goto, token_map, Located
<1>3. OneOwner'
  <2>1. Owned(r)' \subseteq {p, p + 1}
    BY RelayAssumption DEF SocketsInv, RsTypeOK, ChoosePair, Goto, Owned
  <2>2. \A s \in Request : s # r => Owned(s)' \subseteq Owned(s)
    BY DEF SocketsInv, RsTypeOK, ChoosePair, Goto, Owned
  <2>3. {p, p + 1} \cap taken = {} /\ taken' = taken \cup {p, p + 1} /\ resv' = resv
    BY DEF ChoosePair, Pair, token_map
  <2> QED  BY ZenonT(30), <2>1, <2>2, <2>3, NewOwner DEF SocketsInv
<1>4. Timed'
  BY DEF SocketsInv, Timed, Reserved, token_map, ChoosePair
<1> QED  BY <1>1, <1>2, <1>3, <1>4 DEF SocketsInv

LEMMA ChooseNoneStep ==
  ASSUME SocketsInv, NEW r \in Request, ChooseNone(r)
  PROVE  SocketsInv'
<1>1. RsTypeOK'
  BY RelayAssumption DEF SocketsInv, RsTypeOK, ChooseNone, Goto, token_map, NoPort, NoToken
<1>2. Located'
  BY ZenonT(30) DEF SocketsInv, RsTypeOK, ChooseNone, Goto, token_map, Located
<1>3. OneOwner'
  <2>1. \A s \in Request : Owned(s)' \subseteq Owned(s)
    BY ZenonT(30), RelayAssumption DEF SocketsInv, RsTypeOK, Located, ChooseNone, Goto, Owned, Sockets
  <2> QED  BY <2>1, NoNewOwner DEF SocketsInv, ChooseNone, token_map
<1>4. Timed'
  BY DEF SocketsInv, Timed, Reserved, token_map, ChooseNone
<1> QED  BY <1>1, <1>2, <1>3, <1>4 DEF SocketsInv

LEMMA FailsStep ==
  ASSUME SocketsInv, NEW r \in Request, NEW l \in {"rtcp", "rtp"}, NEW w \in {"choose", "idle"}, Fails(r, l, w)
  PROVE  SocketsInv'
<1>1. RsTypeOK'
  BY RelayAssumption DEF SocketsInv, RsTypeOK, Located, Fails, Goto, Sockets, token_map, NoPort
<1>2. Located'
  BY DEF SocketsInv, RsTypeOK, Fails, Goto, Sockets, token_map, Located
<1>3. OneOwner'
  <2>1. \A s \in Request : Owned(s)' \subseteq Owned(s)
    BY RelayAssumption DEF SocketsInv, RsTypeOK, Located, Fails, Goto, Owned, Sockets
  <2> QED  BY <2>1, NoNewOwner DEF SocketsInv, Fails, token_map
<1>4. Timed'
  BY DEF SocketsInv, Timed, Reserved, token_map, Fails
<1> QED  BY <1>1, <1>2, <1>3, <1>4 DEF SocketsInv

LEMMA ReleaseOneStep ==
  ASSUME SocketsInv, NEW r \in Request, NEW p \in Port, ReleaseOne(r, p)
  PROVE  SocketsInv'
<1>1. RsTypeOK'
  BY RelayAssumption DEF SocketsInv, RsTypeOK, ReleaseOne, token_map, NoPort, NoToken
<1>2. Located'
  BY DEF SocketsInv, RsTypeOK, ReleaseOne, token_map, Located
<1>3. OneOwner'
  <2>1. p \in Owned(r) /\ Owned(r)' \subseteq Owned(r) \ {p}
    BY DEF SocketsInv, RsTypeOK, ReleaseOne, Owned
  <2>2. \A s \in Request : s # r => Owned(s)' \subseteq Owned(s)
    BY DEF SocketsInv, RsTypeOK, ReleaseOne, Owned
  <2>3. taken' = taken \ {p} /\ resv' = resv
    BY DEF ReleaseOne, token_map
  <2> QED  BY ZenonT(30), <2>1, <2>2, <2>3, OwnerGives DEF SocketsInv
<1>4. Timed'
  BY DEF SocketsInv, Timed, Reserved, token_map, ReleaseOne
<1> QED  BY <1>1, <1>2, <1>3, <1>4 DEF SocketsInv

LEMMA ReleasedStep ==
  ASSUME SocketsInv, NEW r \in Request, Released(r)
  PROVE  SocketsInv'
<1>1. RsTypeOK'
  BY RelayAssumption DEF SocketsInv, RsTypeOK, Released, Goto, token_map, NoPort, NoToken
<1>2. Located'
  BY ZenonT(30) DEF SocketsInv, RsTypeOK, Released, Goto, token_map, Located
<1>3. OneOwner'
  <2>1. \A s \in Request : Owned(s)' \subseteq Owned(s)
    BY ZenonT(30), RelayAssumption DEF SocketsInv, RsTypeOK, Located, Released, Goto, Owned, Sockets
  <2> QED  BY <2>1, NoNewOwner DEF SocketsInv, Released, token_map
<1>4. Timed'
  BY DEF SocketsInv, Timed, Reserved, token_map, Released
<1> QED  BY <1>1, <1>2, <1>3, <1>4 DEF SocketsInv

LEMMA RtcpBoundStep ==
  ASSUME SocketsInv, NEW r \in Request, RtcpBound(r)
  PROVE  SocketsInv'
<1>1. RsTypeOK'
  BY RelayAssumption DEF SocketsInv, RsTypeOK, RtcpBound, Goto, token_map, NoPort, NoToken
<1>2. Located'
  BY DEF SocketsInv, RsTypeOK, RtcpBound, Goto, token_map, Located
<1>3. OneOwner'
  <2>1. \A s \in Request : Owned(s)' \subseteq Owned(s)
    BY RelayAssumption DEF SocketsInv, RsTypeOK, Located, RtcpBound, Goto, Owned, Sockets
  <2> QED  BY <2>1, NoNewOwner DEF SocketsInv, RtcpBound, token_map
<1>4. Timed'
  BY DEF SocketsInv, Timed, Reserved, token_map, RtcpBound
<1> QED  BY <1>1, <1>2, <1>3, <1>4 DEF SocketsInv

LEMMA RtpBoundStep ==
  ASSUME SocketsInv, NEW r \in Request, RtpBound(r)
  PROVE  SocketsInv'
<1>1. RsTypeOK'
  <2>1. taken' = taken /\ pc' = [pc EXCEPT ![r] = "up"] /\ even' = even /\ port' = port
        /\ todo' = todo /\ after' = after /\ old' = old /\ doomed' = doomed
    BY ZenonT(30) DEF RtpBound, Goto, token_map
  <2>2. used' \subseteq Token /\ token' \in [Request -> Token \cup {NoToken}]
    BY DEF SocketsInv, RsTypeOK, RtpBound, token_map
  <2>3. resv' \in [Token -> Port \cup {NoPort}]
    BY DEF SocketsInv, RsTypeOK, Located, RtpBound, token_map
  <2> QED  BY <2>1, <2>2, <2>3, ZenonT(30) DEF SocketsInv, RsTypeOK
<1>2. Located'
  BY DEF SocketsInv, RsTypeOK, RtpBound, Goto, token_map, Located
<1>3. OneOwner'
  <2>1. CASE even[r] # 1
    <3>1. \A s \in Request : Owned(s)' \subseteq Owned(s)
      BY <2>1, RelayAssumption DEF SocketsInv, RsTypeOK, Located, RtpBound, Goto, Owned
    <3>2. taken' = taken /\ resv' = resv
      BY <2>1 DEF RtpBound, token_map
    <3> QED  BY <3>1, <3>2, NoNewOwner DEF SocketsInv
  <2>2. CASE even[r] = 1
    <3>1. PICK t \in Token \ used : resv' = [resv EXCEPT ![t] = port[r] + 1]
      BY <2>2 DEF RtpBound
    <3>2. port[r] \in Port /\ port[r] + 1 \in Port /\ Owned(r) = {port[r], port[r] + 1}
      BY <2>2 DEF SocketsInv, RsTypeOK, Located, RtpBound, Owned
    <3>3. Owned(r)' = {port[r]} /\ \A s \in Request : s # r => Owned(s)' = Owned(s)
      BY DEF SocketsInv, RsTypeOK, RtpBound, Goto, Owned
    <3>4. t \notin Reserved /\ Reserved' = Reserved \cup {t} /\ taken' = taken
      BY <3>1, <3>2, RelayAssumption DEF SocketsInv, RsTypeOK, Timed, Reserved, RtpBound, NoPort
    <3>5. resv'[t] = port[r] + 1 /\ \A u \in Reserved : resv'[u] = resv[u]
      BY <3>1, <3>4 DEF SocketsInv, RsTypeOK, Reserved
    <3>6. OneOwner
      BY DEF SocketsInv
    <3>a. port[r] \in Nat
      BY <3>2, RelayAssumption, ZenonT(30)
    <3>b. port[r] # port[r] + 1
      BY <3>a
    <3>7. \A s \in Request : Owned(s)' \subseteq Owned(s)
      BY <3>2, <3>3
    <3>8. \A s \in Request : port[r] + 1 \notin Owned(s)'
      BY <3>2, <3>3, <3>6, <3>b DEF OneOwner
    <3>9. \A u \in Reserved : resv[u] # port[r] + 1
      BY <3>2, <3>6 DEF OneOwner
    <3> QED  BY <3>2, <3>4, <3>5, <3>6, <3>7, <3>8, <3>9 DEF OneOwner
  <2> QED  BY <2>1, <2>2
<1>4. Timed'
  <2>1. CASE even[r] = -1
    BY <2>1 DEF SocketsInv, Timed, Reserved, RtpBound, token_map
  <2>2. CASE even[r] # -1
    <3>1. PICK t \in Token \ used :
            /\ used' = used \cup {t} /\ old' = old /\ doomed' = doomed
            /\ resv' = [resv EXCEPT ![t] = port[r] + 1] \/ resv' = resv
      BY <2>2 DEF RtpBound
    <3>2. Reserved' \subseteq Reserved \cup {t}
      BY <3>1 DEF SocketsInv, RsTypeOK, Reserved
    <3> QED  BY ZenonT(30), <3>1, <3>2 DEF SocketsInv, Timed
  <2> QED  BY <2>1, <2>2
<1> QED  BY <1>1, <1>2, <1>3, <1>4 DEF SocketsInv

LEMMA CloseRelayStep ==
  ASSUME SocketsInv, NEW r \in Request, CloseRelay(r)
  PROVE  SocketsInv'
<1>1. RsTypeOK'
  BY RelayAssumption, ZenonT(30) DEF SocketsInv, RsTypeOK, CloseRelay, Goto, token_map, NoPort, NoToken
<1>2. Located'
  BY DEF SocketsInv, RsTypeOK, CloseRelay, Goto, token_map, Located
<1>3. OneOwner'
  <2>1. Owned(r) = {port[r]} /\ Owned(r)' = {}
    BY DEF SocketsInv, RsTypeOK, Located, CloseRelay, Goto, Owned
  <2>2. \A s \in Request : s # r => Owned(s)' = Owned(s)
    BY DEF SocketsInv, RsTypeOK, CloseRelay, Goto, Owned
  <2>3. taken' = taken \ {port[r]} /\ resv' = resv
    BY DEF CloseRelay, token_map
  <2> QED  BY <2>1, <2>2, <2>3 DEF SocketsInv, OneOwner, Reserved
<1>4. Timed'
  BY DEF SocketsInv, Timed, Reserved, token_map, CloseRelay
<1> QED  BY <1>1, <1>2, <1>3, <1>4 DEF SocketsInv

LEMMA RedeemStep ==
  ASSUME SocketsInv, NEW r \in Request, NEW t \in Token, Redeem(r, t)
  PROVE  SocketsInv'
<1>1. RsTypeOK'
  BY RelayAssumption DEF SocketsInv, RsTypeOK, Redeem, Goto, Reserved, NoPort, NoToken
<1>2. Located'
  BY ZenonT(30) DEF SocketsInv, RsTypeOK, Redeem, Goto, Reserved, Located
<1>3. OneOwner'
  <2>1. t \in Reserved /\ Owned(r) = {} /\ Owned(r)' = {resv[t]}
    BY DEF SocketsInv, RsTypeOK, Located, Redeem, Goto, Owned
  <2>2. \A s \in Request : s # r => Owned(s)' = Owned(s)
    BY DEF SocketsInv, RsTypeOK, Redeem, Goto, Owned
  <2>3. taken' = taken /\ Reserved' = Reserved \ {t} /\ \A u \in Reserved' : resv'[u] = resv[u]
    BY DEF SocketsInv, RsTypeOK, Redeem, Reserved
  <2> QED  BY <2>1, <2>2, <2>3 DEF SocketsInv, OneOwner
<1>4. Timed'
  BY RelayAssumption DEF SocketsInv, RsTypeOK, Timed, Reserved, Redeem, NoPort
<1> QED  BY <1>1, <1>2, <1>3, <1>4 DEF SocketsInv

LEMMA AgeStep ==
  ASSUME SocketsInv, NEW t \in Token, Age(t)
  PROVE  SocketsInv'
<1>1. RsTypeOK'
  BY DEF SocketsInv, RsTypeOK, Age, Reserved, request
<1>2. Located'
  BY ZenonT(30) DEF SocketsInv, Located, Age, request
<1>3. OneOwner'
  BY RelayAssumption DEF SocketsInv, RsTypeOK, OneOwner, Owned, Age, Reserved, request, NoPort
<1>4. Timed'
  BY DEF SocketsInv, RsTypeOK, Timed, Reserved, Age, NoPort
<1> QED  BY <1>1, <1>2, <1>3, <1>4 DEF SocketsInv

LEMMA DeleteStep ==
  ASSUME SocketsInv, NEW t \in Token, DeleteToken(t)
  PROVE  SocketsInv'
<1>1. RsTypeOK'
  BY DEF SocketsInv, RsTypeOK, DeleteToken, Reserved, request
<1>2. Located'
  BY ZenonT(30) DEF SocketsInv, Located, DeleteToken, request
<1>3. OneOwner'
  BY RelayAssumption DEF SocketsInv, RsTypeOK, OneOwner, Owned, DeleteToken, Reserved, request, NoPort
<1>4. Timed'
  BY DEF SocketsInv, RsTypeOK, Timed, Reserved, DeleteToken, NoPort
<1> QED  BY <1>1, <1>2, <1>3, <1>4 DEF SocketsInv

LEMMA CollectStep ==
  ASSUME SocketsInv, Collect
  PROVE  SocketsInv'
<1>1. RsTypeOK'
  BY DEF SocketsInv, RsTypeOK, Collect, Reserved, request
<1>2. Located'
  BY ZenonT(30) DEF SocketsInv, Located, Collect, request
<1>3. OneOwner'
  BY ZenonT(30), RelayAssumption DEF SocketsInv, RsTypeOK, OneOwner, Owned, Collect, Reserved, request, NoPort
<1>4. Timed'
  <2>1. PICK D \in SUBSET (Reserved \cap old) : doomed' = D
    BY DEF Collect
  <2>2. Reserved' = Reserved /\ used' = used /\ old' = old
    BY DEF Collect, Reserved
  <2> QED  BY <2>1, <2>2 DEF SocketsInv, Timed
<1> QED  BY <1>1, <1>2, <1>3, <1>4 DEF SocketsInv

LEMMA StutterStep ==
  ASSUME SocketsInv, UNCHANGED RsVars
  PROVE  SocketsInv'
  BY DEF SocketsInv, RsTypeOK, Located, OneOwner, Timed, Owned, Reserved, RsVars, request, token_map

LEMMA SocketsNextInv ==
  ASSUME SocketsInv, [RsNext]_RsVars
  PROVE  SocketsInv'
<1>1. CASE \E r \in Request, e \in EvenPort : Start(r, e)
  BY <1>1, StartStep
<1>2. CASE \E r \in Request, p \in Port : ChoosePort(r, p) \/ ChoosePair(r, p) \/ ReleaseOne(r, p)
  BY <1>2, ChoosePortStep, ChoosePairStep, ReleaseOneStep
<1>3. CASE \E r \in Request : SocketFails(r) \/ BindFails(r) \/ PutFails(r)
  BY <1>3, FailsStep DEF SocketFails, BindFails, PutFails
<1>4. CASE \E r \in Request : ChooseNone(r) \/ Released(r) \/ RtcpBound(r)
  BY <1>4, ChooseNoneStep, ReleasedStep, RtcpBoundStep
<1>5. CASE \E r \in Request : RtpBound(r) \/ CloseRelay(r)
  BY <1>5, RtpBoundStep, CloseRelayStep
<1>6. CASE \E r \in Request, t \in Token : Redeem(r, t)
  BY <1>6, RedeemStep
<1>7. CASE \E t \in Token : Age(t) \/ DeleteToken(t)
  BY <1>7, AgeStep, DeleteStep
<1>8. CASE Collect
  BY <1>8, CollectStep
<1>9. CASE UNCHANGED RsVars
  BY <1>9, StutterStep
<1> QED  BY <1>1, <1>2, <1>3, <1>4, <1>5, <1>6, <1>7, <1>8, <1>9 DEF RsNext

LEMMA SocketsInvariance == RsSpec => []SocketsInv
  BY SocketsInitInv, SocketsNextInv, PTL DEF RsSpec

(* A relay port has one owner: whatever the error paths of                 *)
(* create_relay_ioa_sockets, the reservation timer and closing sessions    *)
(* release, in whatever order the relay threads run, no port that somebody *)
(* holds is free in the pool and none is held twice.                       *)
THEOREM RelayPortsHaveOneOwner == RsSpec => []OneOwner
<1>1. SocketsInv => OneOwner
  BY DEF SocketsInv
<1> QED  BY <1>1, SocketsInvariance, PTL

-----------------------------------------------------------------------------
LEMMA KeptStep ==
  ASSUME SocketsInv, [RsNext]_RsVars, NEW t \in Reserved, t \notin Reserved'
  PROVE  t \in old \/ \E r \in Request : port'[r] = resv[t] /\ pc'[r] = "up"
<1>1. CASE resv' = resv
  BY <1>1 DEF Reserved
<1>2. CASE \E r \in Request : RtpBound(r)
  <2>1. PICK r \in Request : RtpBound(r)
    BY ZenonT(30), <1>2
  <2>2. CASE even[r] = -1 \/ even[r] # 1
    BY <2>1, <2>2 DEF RtpBound, token_map, Reserved
  <2>3. CASE even[r] = 1
    <3>1. PICK u \in Token \ used : resv' = [resv EXCEPT ![u] = port[r] + 1]
      BY <2>1, <2>3 DEF RtpBound
    <3>2. t # u /\ t \in Token
      BY <3>1 DEF SocketsInv, Timed, Reserved
    <3> QED  BY <3>1, <3>2 DEF SocketsInv, RsTypeOK, Reserved
  <2> QED  BY <2>2, <2>3
<1>3. CASE \E r \in Request, u \in Token : Redeem(r, u)
  BY <1>3 DEF SocketsInv, RsTypeOK, Redeem, Goto, Reserved
<1>4. CASE \E u \in Token : DeleteToken(u)
  BY <1>4 DEF SocketsInv, RsTypeOK, Timed, DeleteToken, Reserved
<1>5. (\E r \in Request : RtpBound(r)) \/ (\E r \in Request, u \in Token : Redeem(r, u))
      \/ (\E u \in Token : DeleteToken(u)) \/ resv' = resv
  BY ZenonT(30) DEF RsNext, RsVars, token_map, Start, ChoosePort, ChoosePair, ReleaseOne, ChooseNone, SocketFails,
         BindFails, PutFails, Fails, Released, RtcpBound, CloseRelay, Age, Collect
<1> QED  BY <1>1, <1>2, <1>3, <1>4, <1>5

(* A reservation is redeemed or kept until RTCP_TIMEOUT has passed:        *)
(* rtcp_map_timeout_handler never deletes one a client may still use.      *)
THEOREM ReservationsAreKept == RsSpec => KeptUntilTimeout
<1>1. SocketsInv /\ [RsNext]_RsVars =>
        [\A t \in Reserved :
           t \notin Reserved' => t \in old \/ \E r \in Request : port'[r] = resv[t] /\ pc'[r] = "up"]_RsVars
  BY KeptStep
<1> QED  BY <1>1, SocketsInvariance, PTL DEF RsSpec, KeptUntilTimeout

-----------------------------------------------------------------------------
(* The clients that never send EVEN-PORT with the R bit clear. *)
Paired == 0 \notin EvenPort

NoZero == \A r \in Request : even[r] \in {-1, 1}

Accounted(p) == (\E r \in Request : p \in Owned(r)) \/ (\E t \in Reserved : resv[t] = p)

LEMMA AccountedStep ==
  ASSUME Paired, SocketsInv, NoZero, \A p \in taken : Accounted(p), RsNext
  PROVE  NoZero' /\ \A p \in taken' : Accounted(p)'
<1> USE DEF SocketsInv, RsTypeOK
<1>1. ASSUME NEW r \in Request, NEW e \in EvenPort, Start(r, e)
      PROVE  NoZero' /\ \A p \in taken' : Accounted(p)'
  BY <1>1, RelayAssumption DEF Paired, NoZero, Accounted, Owned, Located, Reserved, Start, Goto, token_map
<1>2. ASSUME NEW r \in Request, NEW q \in Port, ChoosePort(r, q)
      PROVE  NoZero' /\ \A p \in taken' : Accounted(p)'
  BY <1>2 DEF NoZero, Accounted, Owned, Located, Reserved, ChoosePort, Goto, token_map
<1>3. ASSUME NEW r \in Request, NEW q \in Port, ChoosePair(r, q)
      PROVE  NoZero' /\ \A p \in taken' : Accounted(p)'
  BY <1>3 DEF NoZero, Accounted, Owned, Located, Reserved, ChoosePair, Goto, token_map
<1>4. ASSUME NEW r \in Request, NEW q \in Port, ReleaseOne(r, q)
      PROVE  NoZero' /\ \A p \in taken' : Accounted(p)'
  BY ZenonT(30), <1>4 DEF NoZero, Accounted, Owned, Reserved, ReleaseOne, token_map
<1>5. ASSUME NEW r \in Request, ChooseNone(r) \/ Released(r) \/ RtcpBound(r)
      PROVE  NoZero' /\ \A p \in taken' : Accounted(p)'
  BY ZenonT(30), <1>5 DEF NoZero, Accounted, Owned, Located, Reserved, ChooseNone, Released, RtcpBound, Goto, token_map
<1>6. ASSUME NEW r \in Request, NEW l \in {"rtcp", "rtp"}, NEW w \in {"idle", "choose"}, Fails(r, l, w)
      PROVE  NoZero' /\ \A p \in taken' : Accounted(p)'
  BY <1>6 DEF NoZero, Accounted, Owned, Sockets, Reserved, Fails, Goto, token_map
<1>7. ASSUME NEW r \in Request, RtpBound(r)
      PROVE  NoZero' /\ \A p \in taken' : Accounted(p)'
  <2>1. NoZero' /\ taken' = taken /\ \A s \in Request : s # r => Owned(s)' = Owned(s)
    BY <1>7 DEF NoZero, RtpBound, Goto, Owned
  <2>2. CASE even[r] = -1
    <3>1. resv' = resv /\ Owned(r)' = Owned(r)
      BY <1>7, <2>2 DEF RtpBound, Goto, Owned, token_map
    <3> QED  BY <2>1, <3>1 DEF Accounted, Reserved
  <2>3. CASE even[r] = 1
    <3>1. PICK t \in Token \ used : resv' = [resv EXCEPT ![t] = port[r] + 1]
      BY <1>7, <2>3 DEF RtpBound
    <3>2. Owned(r) = {port[r], port[r] + 1} /\ Owned(r)' = {port[r]} /\ port[r] + 1 \in Port
      BY <1>7, <2>3 DEF RtpBound, Goto, Owned, Located
    <3>3. t \in Reserved' /\ resv'[t] = port[r] + 1
      BY <3>1, <3>2, RelayAssumption DEF Reserved, NoPort
    <3>4. \A u \in Reserved : u \in Reserved' /\ resv'[u] = resv[u]
      BY ZenonT(30), <3>1 DEF Timed, Reserved
    <3> QED  BY <2>1, <3>2, <3>3, <3>4 DEF Accounted
  <2> QED  BY <2>2, <2>3 DEF NoZero
<1>8. ASSUME NEW r \in Request, CloseRelay(r)
      PROVE  NoZero' /\ \A p \in taken' : Accounted(p)'
  BY ZenonT(30), <1>8 DEF NoZero, Accounted, Owned, Located, Reserved, CloseRelay, Goto, token_map
<1>9. ASSUME NEW r \in Request, NEW t \in Token, Redeem(r, t)
      PROVE  NoZero' /\ \A p \in taken' : Accounted(p)'
  BY <1>9 DEF NoZero, Accounted, Owned, Located, Reserved, Redeem, Goto
<1>10. ASSUME NEW t \in Token, Age(t) \/ DeleteToken(t)
      PROVE  NoZero' /\ \A p \in taken' : Accounted(p)'
  BY <1>10 DEF NoZero, Accounted, Owned, Reserved, Age, DeleteToken, request
<1>11. CASE Collect
  BY <1>11 DEF NoZero, Accounted, Owned, Reserved, Collect, request
<1> QED  BY <1>1, <1>2, <1>3, <1>4, <1>5, <1>6, <1>7, <1>8, <1>9, <1>10, <1>11
         DEF RsNext, SocketFails, BindFails, PutFails

(* No relay port is lost, when no client sends EVEN-PORT with the R bit    *)
(* clear: each port the pool counts as taken belongs to a socket, a        *)
(* request at work or a reservation, through every error path.             *)
THEOREM NoRelayPortIsLost == Paired => (RsSpec => []NoPortLost)
<1> SUFFICES ASSUME Paired PROVE RsSpec => []NoPortLost
  OBVIOUS
<1> DEFINE J == NoZero /\ \A p \in taken : Accounted(p)
<1>1. RsInit => J
  BY DEF RsInit, NoZero
<1>2. SocketsInv /\ J /\ [RsNext]_RsVars => J'
  <2>1. ASSUME SocketsInv, J, RsNext PROVE J'
    BY <2>1, AccountedStep
  <2>2. ASSUME SocketsInv, J, UNCHANGED RsVars PROVE J'
    BY ZenonT(30), <2>2 DEF NoZero, Accounted, Owned, Reserved, RsVars, request, token_map
  <2> QED  BY <2>1, <2>2
<1>3. J => NoPortLost
  BY DEF NoPortLost, Accounted
<1> QED  BY <1>1, <1>2, <1>3, SocketsInvariance, PTL DEF RsSpec

=============================================================================
