--------------------------- MODULE MultiplexPeer ---------------------------
(***************************************************************************)
(* Multiplex-peer mode (docs/multiplex-peer.md): the UDP allocations of a  *)
(* relay thread share one socket per address family, and a table from the  *)
(* exact peer address to the session decides who gets what a peer sends.   *)
(* One engine with its table, its sessions and their permissions, channels *)
(* and relay endpoints.  Threads share none of this, and TurnSession has   *)
(* the rules of a single session in full; here the subject is what the     *)
(* sessions of a thread do to each other.                                  *)
(***************************************************************************)
EXTENDS Naturals

CONSTANTS
  Sess,         \* session pointers; a closed session's pointer is used again
  Mobile,       \* the sessions with a mobility ticket (is_mobile)
  Family,       \* address families
  Host,         \* addresses of the peers
  Peer,         \* <<host, port>>; port 0 is used in permissions only
  FamilyOf,     \* the address family of a host
  ServerRelay,  \* --server-relay: permissions are not asked for
  None

ASSUME MultiplexAssumption ==
  /\ Mobile \subseteq Sess
  /\ Peer \subseteq Host \X Nat
  /\ FamilyOf \in [Host -> Family]
  /\ ServerRelay \in BOOLEAN
  /\ None \notin Sess \cup {"shared", "udp", "tcp"}

VARIABLES
  shared,  \* the families with an open mp_sock
  live,    \* the sessions that exist, with a valid allocation
  client,  \* the sessions with a client socket
  relay,   \* of each session and family: "shared", "udp", "tcp" or None
  perm,    \* permitted hosts of each session
  chan,    \* peers with a channel of each session
  acked,   \* those whose ChannelBind was answered with success
  table,   \* mp_table
  sent     \* what the last step sent to peers: <<session, peer>>

vars == <<shared, live, client, relay, perm, chan, acked, table, sent>>
session == <<live, client, relay, perm, chan, acked>>

enabled == shared # {}  \* multiplex_peer_mode of the thread
Fam(p) == FamilyOf[p[1]]
TcpRelay(s) == \E f \in Family : relay[s][f] = "tcp"  \* is_tcp_relay
Quiet == sent' = {}

(* init_multiplex_peer: without any socket the thread works as usual. *)
Init ==
  /\ shared \in SUBSET Family
  /\ live = {} /\ client = {}
  /\ relay = [s \in Sess |-> [f \in Family |-> None]]
  /\ perm = [s \in Sess |-> {}]
  /\ chan = [s \in Sess |-> {}]
  /\ acked = [s \in Sess |-> {}]
  /\ table = [p \in Peer |-> None]
  /\ sent = {}

-----------------------------------------------------------------------------
(* handle_turn_allocate of the families in F, over UDP or TCP: TCP relays  *)
(* have sockets of their own in either mode.                               *)
Allocate(s, F, tcp, evenPort) ==
  LET mp == enabled /\ ~tcp
      got == IF mp THEN F \cap shared ELSE F
      refused == (mp /\ evenPort) \/ got = {}   \* 400, 508
  IN
  /\ s \notin live
  /\ F # {}
  /\ \/ refused /\ UNCHANGED session
     \/ /\ ~refused
        /\ live' = live \cup {s}
        /\ client' = client \cup {s}
        /\ relay' = [relay EXCEPT ![s] =
             [f \in Family |-> IF f \notin got THEN None
                               ELSE IF tcp THEN "tcp" ELSE IF mp THEN "shared" ELSE "udp"]]
        /\ UNCHANGED <<perm, chan, acked>>
  /\ Quiet
  /\ UNCHANGED <<shared, table>>

-----------------------------------------------------------------------------
(* register_multiplex_peer of the peers in P *)
ToRegister(s, P) == {p \in P : p[2] # 0 /\ relay[s][Fam(p)] = "shared"}
Taken(s, P) == {p \in ToRegister(s, P) : table[p] \notin {None, s}}


Register(s, P) ==
  table' = [p \in Peer |-> IF p \in ToRegister(s, P) \ Taken(s, P) THEN s ELSE table[p]]

(* mp_deregister_cb for the entries of session s with a peer in P *)
Deregistered(s, P) == [p \in Peer |-> IF p \in P /\ table[p] = s THEN None ELSE table[p]]

(* handle_turn_create_permission: every address is checked first; then     *)
(* each is permitted, if the table of permissions has room, and            *)
(* registered, and an error does not stop the others.                      *)
CreatePermission(s, P) ==
  LET hosts == {p[1] : p \in P} IN
  /\ s \in client
  /\ \A p \in P : relay[s][Fam(p)] # None   \* 443
  /\ \E granted \in SUBSET hosts :
       /\ perm[s] \cap hosts \subseteq granted
       /\ perm' = [perm EXCEPT ![s] = @ \cup granted]
       /\ Register(s, {p \in P : p[1] \in granted})
  /\ Quiet
  /\ UNCHANGED <<shared, live, client, relay, chan, acked>>

(* Mutant of ChannelBind: the result of the registration is not looked at. *)
ChannelBindAcked(s, p) ==
  /\ s \in client /\ p[2] # 0
  /\ ~TcpRelay(s)
  /\ relay[s][Fam(p)] # None
  /\ perm' = [perm EXCEPT ![s] = @ \cup {p[1]}]
  /\ chan' = [chan EXCEPT ![s] = @ \cup {p}]
  /\ Register(s, {p})
  /\ acked' = [acked EXCEPT ![s] = @ \cup {p}]
  /\ Quiet
  /\ UNCHANGED <<shared, live, client, relay>>

(* handle_turn_channel_bind with a number that is free or bound to p: the  *)
(* channel is there before the peer is registered and stays if it cannot   *)
(* be.                                                                     *)
ChannelBind(s, p) ==
  /\ s \in client /\ p[2] # 0
  /\ ~TcpRelay(s)
  /\ relay[s][Fam(p)] # None
  /\ perm' = [perm EXCEPT ![s] = @ \cup {p[1]}]
  /\ \/ /\ chan' = [chan EXCEPT ![s] = @ \cup {p}]
        /\ Register(s, {p})
        /\ acked' = [acked EXCEPT ![s] = @ \cup ({p} \ Taken(s, {p}))]
     \/ p \notin chan[s] /\ UNCHANGED <<chan, acked, table>>   \* 500: no memory
  /\ Quiet
  /\ UNCHANGED <<shared, live, client, relay>>

(* handle_turn_send *)
Send(s, p) ==
  /\ s \in client
  /\ ~TcpRelay(s)
  /\ p[1] \in perm[s] \/ ServerRelay
  /\ Register(s, {p})
  /\ sent' = IF Taken(s, {p}) = {} /\ relay[s][Fam(p)] # None THEN {<<s, p>>} ELSE {}
  /\ UNCHANGED <<shared, session>>

(* write_to_peerchannel *)
ChannelData(s, p) ==
  /\ s \in client /\ p \in chan[s]
  /\ sent' = IF relay[s][Fam(p)] # None THEN {<<s, p>>} ELSE {}
  /\ UNCHANGED <<shared, session, table>>

-----------------------------------------------------------------------------
(* Mutant of PermissionTimeout: the entries of the host stay. *)
PermissionTimeoutOnly(s, h) ==
  /\ h \in perm[s]
  /\ perm' = [perm EXCEPT ![s] = @ \ {h}]
  /\ chan' = [chan EXCEPT ![s] = {p \in @ : p[1] # h}]
  /\ acked' = [acked EXCEPT ![s] = {p \in @ : p[1] # h}]
  /\ Quiet
  /\ UNCHANGED <<shared, live, client, relay, table>>

(* client_ss_perm_timeout_handler *)
PermissionTimeout(s, h) ==
  /\ h \in perm[s]
  /\ perm' = [perm EXCEPT ![s] = @ \ {h}]
  /\ chan' = [chan EXCEPT ![s] = {p \in @ : p[1] # h}]
  /\ acked' = [acked EXCEPT ![s] = {p \in @ : p[1] # h}]
  /\ table' = Deregistered(s, {p \in Peer : p[1] = h})
  /\ Quiet
  /\ UNCHANGED <<shared, live, client, relay>>

(* client_ss_channel_timeout_handler: the registration stays with the      *)
(* permission.                                                             *)
ChannelTimeout(s, p) ==
  /\ p \in chan[s]
  /\ chan' = [chan EXCEPT ![s] = @ \ {p}]
  /\ acked' = [acked EXCEPT ![s] = @ \ {p}]
  /\ Quiet
  /\ UNCHANGED <<shared, live, client, relay, perm, table>>

(* The second stage of shutdown_client_connection *)
Closed(s) ==
  /\ live' = live \ {s}
  /\ client' = client \ {s}
  /\ relay' = [relay EXCEPT ![s] = [f \in Family |-> None]]
  /\ perm' = [perm EXCEPT ![s] = {}]
  /\ chan' = [chan EXCEPT ![s] = {}]
  /\ acked' = [acked EXCEPT ![s] = {}]
  /\ table' = Deregistered(s, Peer)

(* shutdown_client_connection: of a mobile session, unless forced, only    *)
(* the client socket goes.                                                 *)
Shutdown(s, force) ==
  /\ s \in live
  /\ \/ ~force /\ s \in Mobile
        /\ client' = client \ {s}
        /\ UNCHANGED <<live, relay, perm, chan, acked, table>>
     \/ (force \/ s \notin Mobile) /\ Closed(s)
  /\ Quiet
  /\ UNCHANGED shared

(* client_ss_allocation_timeout_handler; the last relay endpoint takes the *)
(* session with it.                                                        *)
AllocationTimeout(s, f) ==
  LET last == \A g \in Family \ {f} : relay[s][g] = None IN
  /\ relay[s][f] # None
  /\ \/ last /\ s \notin Mobile /\ Closed(s)
     \/ /\ ~last \/ s \in Mobile
        /\ relay' = [relay EXCEPT ![s][f] = None]
        /\ table' = IF relay[s][f] = "shared" THEN Deregistered(s, {p \in Peer : Fam(p) = f}) ELSE table
        /\ client' = IF last THEN client \ {s} ELSE client
        /\ UNCHANGED <<live, perm, chan, acked>>
  /\ Quiet
  /\ UNCHANGED shared

(* attach_socket_to_session: a mobile client is back. *)
Reattach(s) ==
  /\ s \in live \ client
  /\ client' = client \cup {s}
  /\ Quiet
  /\ UNCHANGED <<shared, live, relay, perm, chan, acked, table>>

Next ==
  \E s \in Sess :
    \/ \E F \in SUBSET Family, tcp, evenPort \in BOOLEAN : Allocate(s, F, tcp, evenPort)
    \/ \E P \in SUBSET Peer : CreatePermission(s, P)
    \/ \E p \in Peer : ChannelBind(s, p) \/ Send(s, p) \/ ChannelData(s, p) \/ ChannelTimeout(s, p)
    \/ \E h \in Host : PermissionTimeout(s, h)
    \/ \E force \in BOOLEAN : Shutdown(s, force)
    \/ \E f \in Family : AllocationTimeout(s, f)
    \/ Reattach(s)

Spec == Init /\ [][Next]_vars

-----------------------------------------------------------------------------
(* mp_relay_input_handler and peer_input_handler: the sessions that a      *)
(* datagram from peer p is forwarded to                                    *)
Receivers(p) ==
  {s \in client : /\ table[p] = s
                  /\ p[1] \in perm[s] \/ ServerRelay
                  /\ relay[s][Fam(p)] # None}

-----------------------------------------------------------------------------
(* Properties *)

(* Every variable stays in its type. *)
TypeOK ==
  /\ shared \subseteq Family
  /\ client \subseteq live /\ live \subseteq Sess
  /\ relay \in [Sess -> [Family -> {"shared", "udp", "tcp", None}]]
  /\ perm \in [Sess -> SUBSET Host]
  /\ chan \in [Sess -> SUBSET Peer]
  /\ acked \in [Sess -> SUBSET Peer]
  /\ table \in [Peer -> Sess \cup {None}]
  /\ sent \subseteq Sess \X Peer

(* An entry of mp_table points to a session that exists, that uses the     *)
(* shared socket of the peer's family and permits the peer's host: no      *)
(* timeout and no shutdown leaves an entry behind, neither for a freed     *)
(* session nor for the next one at the same address.                       *)
EntriesAreBacked ==
  \A p \in Peer : table[p] # None =>
    /\ table[p] \in live
    /\ relay[table[p]][Fam(p)] = "shared"
    /\ p[1] \in perm[table[p]] \/ ServerRelay

(* What a peer sends goes to the client that was told that its channel to  *)
(* the peer is bound, as long as the channel and the relay endpoint last.  *)
BoundPeersAnswer ==
  \A s \in client : \A p \in acked[s] :
    relay[s][Fam(p)] = "shared" => Receivers(p) = {s}

KeepsEntries ==
  \A p \in Peer : table[p] # None /\ table'[p] # table[p] =>
    /\ table'[p] = None
    /\ p[1] \notin perm'[table[p]] \/ relay'[table[p]][Fam(p)] = None

(* A session keeps its entry until it loses the permission, the relay      *)
(* endpoint or its life: no other session takes the peer over.             *)
EntriesAreKept == [][KeepsEntries]_vars

=============================================================================
