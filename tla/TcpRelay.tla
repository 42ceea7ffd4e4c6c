------------------------------ MODULE TcpRelay ------------------------------
(***************************************************************************)
(* TCP relaying (RFC 6062): the tcp_connection objects of the allocations  *)
(* of one relay thread.  A connection begins with a Connect request or     *)
(* with a peer that connects; the client is told a connection id, opens    *)
(* another TCP connection, to any thread, and sends ConnectionBind there;  *)
(* that thread hands the socket over to the thread of the id, by a         *)
(* message.  Meanwhile timers run, sockets close and the allocation may    *)
(* end.                                                                    *)
(*                                                                         *)
(* Left out: the permission that tcp_peer_accept_connection asks for (see  *)
(* TurnSession; without it the socket is closed and nothing else happens), *)
(* and the branches for a register_callback_on_ioa_socket that fails, which *)
(* it never does for the TCP sockets of this module.                       *)
(***************************************************************************)
EXTENDS Naturals, Sequences, FiniteSets

CONSTANTS
  Sess,       \* sessions of the thread
  User,       \* users
  UserOf,     \* the user of each session (authenticated by its Allocate)
  Family,     \* address families
  Peer,       \* peer addresses
  FamilyOf,   \* the family of each
  Conn,       \* tcp_connection pointers, used again after a free
  Id,         \* connection ids of the thread: 24 random bits
  MaxUnsent,  \* MAX_UNSENT_BUFFER_SIZE
  MaxData,    \* bound: the chunks a peer sends on a connection
  MaxPending, \* bound: the sockets on their way to the thread
  None

ASSUME TcpAssumption ==
  /\ UserOf \in [Sess -> User]
  /\ FamilyOf \in [Peer -> Family]
  /\ MaxUnsent \in Nat /\ MaxData \in Nat /\ MaxPending \in Nat
  /\ None \notin Sess \cup User \cup Peer \cup Conn \cup Id

VARIABLES
  alloc,    \* of each session, the families with a TCP relay socket
  owner,    \* of each connection, the session; None: the object is free
  peer, id, state, client_s,  \* fields of tcp_connection; client_s: the user
                              \* whose socket it is
  timers,   \* the running timers of each, "peer" (peer_conn_timeout) and
            \* "bind" (conn_bind_timeout)
  ub,       \* ub_to_client of each; 0 is a popped entry
  fed, got, \* how many chunks the peer sent, and what the client was given
  broken,   \* connections whose client socket failed (tobeclosed)
  map,      \* tcp_relay_connections
  told,     \* ids that clients know
  pending,  \* RMT_CB_SOCKET messages: <<user, id>>
  tried,    \* of each, how the last ConnectionBind ended (history)
  clash     \* those made with the id of another connection (history)

fields == <<owner, peer, id, state, client_s, timers, ub, fed, got, broken, tried, clash>>
vars == <<alloc, fields, map, told, pending>>

Live == {c \in Conn : state[c] # "free"}

Init ==
  /\ alloc = [s \in Sess |-> {}]
  /\ owner = [c \in Conn |-> None]
  /\ peer = [c \in Conn |-> None]
  /\ id = [c \in Conn |-> None]
  /\ state = [c \in Conn |-> "free"]
  /\ client_s = [c \in Conn |-> None]
  /\ timers = [c \in Conn |-> {}]
  /\ ub = [c \in Conn |-> <<>>]
  /\ fed = [c \in Conn |-> 0]
  /\ got = [c \in Conn |-> <<>>]
  /\ broken = {}
  /\ map = [i \in Id |-> None]
  /\ told = {}
  /\ pending = {}
  /\ tried = [c \in Conn |-> "no"]
  /\ clash = {}

-----------------------------------------------------------------------------
(* get_tcp_connection_by_peer *)
ByPeer(s, p) == {c \in Live : owner[c] = s /\ peer[c] = p}

(* set_new_tc_id: any id that the map does not have *)
NewIds == {i \in Id : map[i] = None}

(* create_tcp_connection, and the state and the timer its callers set *)
Create(c, s, p, st, timer) ==
  /\ c \notin Live
  /\ \E i \in NewIds :
       /\ id' = [id EXCEPT ![c] = i]
       /\ map' = [map EXCEPT ![i] = c]
       /\ clash' = IF \E d \in Live : id[d] = i THEN clash \cup {c} ELSE clash
       /\ told' = IF st = "PEER_CONNECTED" THEN told \cup {i} ELSE told
  /\ owner' = [owner EXCEPT ![c] = s]
  /\ peer' = [peer EXCEPT ![c] = p]
  /\ state' = [state EXCEPT ![c] = st]
  /\ timers' = [timers EXCEPT ![c] = {timer}]

(* Mutant of Unmapped: the id stays in the map. *)
UnmappedNone(C) == map

(* delete_tcp_connection removes the entry of the id, whichever connection *)
(* it is of.                                                               *)
Unmapped(C) == [i \in Id |-> IF \E c \in C : id[c] = i THEN None ELSE map[i]]

(* delete_tcp_connection of the connections in C *)
Delete(C) ==
  /\ map' = Unmapped(C)
  /\ owner' = [c \in Conn |-> IF c \in C THEN None ELSE owner[c]]
  /\ peer' = [c \in Conn |-> IF c \in C THEN None ELSE peer[c]]
  /\ id' = [c \in Conn |-> IF c \in C THEN None ELSE id[c]]
  /\ state' = [c \in Conn |-> IF c \in C THEN "free" ELSE state[c]]
  /\ client_s' = [c \in Conn |-> IF c \in C THEN None ELSE client_s[c]]
  /\ timers' = [c \in Conn |-> IF c \in C THEN {} ELSE timers[c]]
  /\ ub' = [c \in Conn |-> IF c \in C THEN <<>> ELSE ub[c]]
  /\ fed' = [c \in Conn |-> IF c \in C THEN 0 ELSE fed[c]]
  /\ got' = [c \in Conn |-> IF c \in C THEN <<>> ELSE got[c]]
  /\ tried' = [c \in Conn |-> IF c \in C THEN "no" ELSE tried[c]]
  /\ broken' = broken \ C
  /\ clash' = clash \ C

-----------------------------------------------------------------------------
(* An Allocate request with REQUESTED-TRANSPORT TCP *)
Allocate(s, F) ==
  /\ alloc[s] = {} /\ F # {}
  /\ alloc' = [alloc EXCEPT ![s] = F]
  /\ UNCHANGED <<fields, map, told, pending>>

(* set_allocation_family_invalid, or clear_allocation for all families *)
AllocationEnds(s, F) ==
  /\ F # {} /\ F \subseteq alloc[s]
  /\ alloc' = [alloc EXCEPT ![s] = @ \ F]
  /\ Delete({c \in Live : owner[c] = s /\ FamilyOf[peer[c]] \in F})
  /\ UNCHANGED <<told, pending>>


(* handle_turn_connect and tcp_start_connection_to_peer; on an error, a    *)
(* connection that was made is deleted at once.                            *)
Connect(s, p, c) ==
  /\ FamilyOf[p] \in alloc[s]     \* 437, 443
  /\ ByPeer(s, p) = {}            \* 446
  /\ Create(c, s, p, "CONNECTING", "peer")
  /\ UNCHANGED <<alloc, client_s, ub, fed, got, broken, tried, pending>>

(* tcp_peer_accept_connection, and the ConnectionAttempt indication *)
Accept(s, p, c) ==
  /\ FamilyOf[p] \in alloc[s]
  /\ ByPeer(s, p) = {}
  /\ Create(c, s, p, "PEER_CONNECTED", "bind")
  /\ UNCHANGED <<alloc, client_s, ub, fed, got, broken, tried, pending>>

(* Mutant of Connected: the timer for ConnectionBind is not started. *)
ConnectedUntimed(c) ==
  /\ "peer" \in timers[c]
  /\ state' = [state EXCEPT ![c] = "PEER_CONNECTED"]
  /\ timers' = [timers EXCEPT ![c] = {}]
  /\ told' = told \cup {id[c]}
  /\ UNCHANGED <<alloc, owner, peer, id, client_s, ub, fed, got, broken, map, pending, tried, clash>>

(* tcp_peer_connection_completed_callback(1), whatever the state is; the   *)
(* response has the id.                                                    *)
Connected(c) ==
  /\ "peer" \in timers[c]
  /\ state' = [state EXCEPT ![c] = "PEER_CONNECTED"]
  /\ timers' = [timers EXCEPT ![c] = {"bind"}]
  /\ told' = told \cup {id[c]}
  /\ UNCHANGED <<alloc, owner, peer, id, client_s, ub, fed, got, broken, map, pending, tried, clash>>

(* tcp_peer_connection_completed_callback(0): connect_eventcb with an      *)
(* error, or tcp_peer_conn_timeout_handler *)
ConnectFailed(c) ==
  /\ "peer" \in timers[c]
  /\ Delete({c})
  /\ UNCHANGED <<alloc, told, pending>>

(* tcp_conn_bind_timeout_handler *)
BindTimeout(c) ==
  /\ "bind" \in timers[c]
  /\ Delete({c})
  /\ UNCHANGED <<alloc, told, pending>>

-----------------------------------------------------------------------------
(* handle_turn_connection_bind and send_socket_to_relay, on some thread *)
ConnectionBind(u, i) ==
  /\ i \in told
  /\ Cardinality(pending) < MaxPending
  /\ pending' = pending \cup {<<u, i>>}
  /\ UNCHANGED <<alloc, fields, map, told>>

(* Ways to take entries of a buffer: f[k] is the place of the k-th.        *)
Places(q) == UNION {[1 .. n -> {j \in 1 .. Len(q) : q[j] # 0}] : n \in 0 .. Len(q)}

(* Mutant of Delayed: last in, first out. *)
DelayedReversed(q) == {f \in Places(q) : \A j, k \in DOMAIN f : j < k => f[j] > f[k]}

(* top_unsent_buffer, pop_unsent_buffer: what there is, in this order *)
Delayed(q) == {f \in Places(q) : \A j, k \in DOMAIN f : j < k => f[j] < f[k]}

(* tcp_deliver_delayed_buffer: a send may be dropped (bandwidth,           *)
(* congestion), and one that fails is the last.                            *)
Deliver(c) ==
  \E n \in 0 .. Len(ub[c]), f \in Delayed(ub[c]) :
    /\ \A k \in DOMAIN f : f[k] <= n
    /\ got' = [got EXCEPT ![c] = [k \in DOMAIN f |-> ub[c][f[k]]]]
    /\ ub' = [ub EXCEPT ![c] = [j \in 1 .. Len(@) |-> IF j <= n + 1 THEN 0 ELSE @[j]]]
    /\ broken' = IF n < Len(ub[c]) THEN broken \cup {c} ELSE broken

(* Mutant of Authorized: any user that can be authenticated will do. *)
AuthorizedAny(u, s) == TRUE

(* check_stun_auth of the message against the session that owns the        *)
(* connection: 441 for another user name                                   *)
Authorized(u, s) == u = UserOf[s]

(* turnserver_accept_tcp_client_data_connection: the id is used up, also   *)
(* by a message that is refused (401, 404, 438, 441).                      *)
AcceptClientData(m, answer) ==
  LET c == map[m[2]] IN
  /\ m \in pending
  /\ pending' = pending \ {m}
  /\ \/ /\ c = None \/ (c # None /\ (state[c] = "READY" \/ client_s[c] # None))   \* 400
        /\ answer = "refused"
        /\ map' = [map EXCEPT ![m[2]] = None]
        /\ UNCHANGED fields
     \/ /\ c # None /\ state[c] # "READY" /\ client_s[c] = None
        /\ map' = [map EXCEPT ![m[2]] = None]
        /\ \/ /\ answer = "ok" /\ Authorized(m[1], owner[c])
              /\ state' = [state EXCEPT ![c] = "READY"]
              /\ client_s' = [client_s EXCEPT ![c] = m[1]]
              /\ timers' = [timers EXCEPT ![c] = @ \ {"bind"}]
              /\ Deliver(c)
              /\ UNCHANGED <<owner, peer, id, fed, tried, clash>>
           \/ /\ answer = "refused"
              /\ tried' = [tried EXCEPT ![c] = answer]
              /\ UNCHANGED <<owner, peer, id, state, client_s, timers, ub, fed, got, broken, clash>>
  /\ UNCHANGED <<alloc, told>>

-----------------------------------------------------------------------------

(* add_unsent_buffer: what does not fit is dropped. *)
AddUnsent(q, x) == IF Len(q) < MaxUnsent THEN Append(q, x) ELSE q

(* tcp_peer_input_handler; when sending to the client fails, the peer's    *)
(* socket is closed, and the connection with it.                           *)
PeerData(c) ==
  LET x == fed[c] + 1 IN
  /\ c \in Live /\ "peer" \notin timers[c] /\ x <= MaxData
  /\ \/ /\ state[c] # "READY" \/ client_s[c] = None
        /\ fed' = [fed EXCEPT ![c] = x]
        /\ ub' = [ub EXCEPT ![c] = AddUnsent(@, x)]
        /\ UNCHANGED <<owner, peer, id, state, client_s, timers, got, broken, tried, clash, map>>
     \/ /\ state[c] = "READY" /\ client_s[c] # None
        /\ \/ /\ fed' = [fed EXCEPT ![c] = x]
              /\ \/ c \notin broken /\ got' = [got EXCEPT ![c] = Append(@, x)]
                 \/ got' = got                              \* dropped
              /\ UNCHANGED <<owner, peer, id, state, client_s, timers, ub, broken, tried, clash, map>>
           \/ Delete({c})
  /\ UNCHANGED <<alloc, told, pending>>

(* eventcb_bev, close_ioa_socket_after_processing_if_necessary: the peer   *)
(* or the client closed its end, or                                        *)
(* tcp_client_input_handler_rfc6062data could not send to the peer.        *)
SocketClosed(c) ==
  /\ c \in Live
  /\ client_s[c] # None \/ "peer" \notin timers[c]
  /\ Delete({c})
  /\ UNCHANGED <<alloc, told, pending>>

Next ==
  \/ \E s \in Sess :
       \/ \E F \in SUBSET Family : Allocate(s, F) \/ AllocationEnds(s, F)
       \/ \E p \in Peer, c \in Conn : Connect(s, p, c) \/ Accept(s, p, c)
  \/ \E c \in Conn :
       Connected(c) \/ ConnectFailed(c) \/ BindTimeout(c) \/ PeerData(c) \/ SocketClosed(c)
  \/ \E u \in User, i \in Id : ConnectionBind(u, i)
  \/ \E m \in pending, answer \in {"ok", "refused"} : AcceptClientData(m, answer)

Spec == Init /\ [][Next]_vars

(* libevent runs a timer that is due. *)
Fairness == \A c \in Conn : WF_vars(ConnectFailed(c)) /\ WF_vars(BindTimeout(c))

FairSpec == Spec /\ Fairness

-----------------------------------------------------------------------------
(* Properties *)

(* Every variable but the buffers stays in its type.                       *)
TypeOK ==
  /\ alloc \in [Sess -> SUBSET Family]
  /\ owner \in [Conn -> Sess \cup {None}]
  /\ peer \in [Conn -> Peer \cup {None}]
  /\ id \in [Conn -> Id \cup {None}]
  /\ state \in [Conn -> {"free", "CONNECTING", "PEER_CONNECTED", "READY"}]
  /\ client_s \in [Conn -> User \cup {None}]
  /\ timers \in [Conn -> SUBSET {"peer", "bind"}]
  /\ broken \subseteq Conn
  /\ map \in [Id -> Conn \cup {None}]
  /\ told \subseteq Id
  /\ pending \subseteq User \X Id
  /\ tried \in [Conn -> {"no", "refused"}]
  /\ clash \subseteq Conn

(* An id in the map leads to a connection that exists, has this id, was    *)
(* not bound and belongs to a session with a relay endpoint of its family: *)
(* a message from another thread never meets a freed connection.           *)
MapIsLive ==
  \A i \in Id : map[i] # None =>
    /\ map[i] \in Live
    /\ id[map[i]] = i
    /\ client_s[map[i]] = None
    /\ FamilyOf[peer[map[i]]] \in alloc[owner[map[i]]]

(* A connection that is waiting for its ConnectionBind can be found by its *)
(* id.  Two things alone can take it away: an earlier ConnectionBind that  *)
(* was refused, and another connection that is bound, has the same id, and *)
(* ends.                                                                   *)
WaitingIsFound ==
  \A c \in Conn :
    state[c] = "PEER_CONNECTED" /\ client_s[c] = None /\ tried[c] = "no" /\ c \notin clash
      => map[id[c]] = c

(* The map from connection ids: what it holds is alive, and what waits is  *)
(* in it.                                                                  *)
MapIsExact == MapIsLive /\ WaitingIsFound

(* An allocation has one connection to a peer, however Connect requests    *)
(* and connections from the peer cross.                                    *)
OnePerPeer ==
  \A c, d \in Live : owner[c] = owner[d] /\ peer[c] = peer[d] => c = d

(* "We do not want 'stealing' connections between the users"               *)
(* (netengine.c): the client socket of a connection is of the user whose   *)
(* allocation it is, even if the id was used again while the socket was on *)
(* its way.                                                                *)
NotStolen ==
  \A c \in Live : client_s[c] # None => client_s[c] = UserOf[owner[c]]

(* What the client gets from a peer is in the order in which the peer sent *)
(* it, what was buffered before what came later, and nothing comes twice;  *)
(* what waits for the client never grows past MAX_UNSENT_BUFFER_SIZE.      *)
DataInOrder ==
  \A c \in Conn :
    /\ \A j, k \in 1 .. Len(got[c]) : j < k => got[c][j] < got[c][k]
    /\ Len(ub[c]) <= MaxUnsent

(* Every connection that waits stops waiting: it gets its client socket or *)
(* it is deleted.                                                          *)
WaitingEnds ==
  \A c \in Conn :
    state[c] \in {"CONNECTING", "PEER_CONNECTED"} ~> state[c] \in {"free", "READY"}

=============================================================================
