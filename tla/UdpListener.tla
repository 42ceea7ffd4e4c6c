---------------------------- MODULE UdpListener ----------------------------
(***************************************************************************)
(* The UDP and DTLS listener of one relay thread (dtls_listener.c) and the *)
(* client sockets it fans out to (ns_ioalib_engine_impl.c): a child socket *)
(* and a session for every remote address, kept in the map children_ss.    *)
(* Sockets and sessions are freed on several paths: a failed DTLS read, a  *)
(* failed write, a move to another session, timeouts.                      *)
(***************************************************************************)
EXTENDS Integers

CONSTANTS UlSetup,      \* configurations: noudp, nodtls, drop, faults
          UlClient,     \* remote addresses
          MaxUlSock,    \* client sockets at a time
          MaxUlSes      \* sessions at a time

VARIABLES ulcfg, ul

UlVars == <<ulcfg, ul>>
UlSock == 1..MaxUlSock
UlSes == 1..MaxUlSes
FreeSock == [kind |-> "free", remote |-> 0, fd |-> "none", parent |-> FALSE,
             inmap |-> FALSE, tbc |-> FALSE, ses |-> 0]
FreeSes == [open |-> FALSE, sock |-> 0, alloc |-> "none", relay |-> FALSE, closing |-> FALSE]
LiveSock(u) == {s \in UlSock : u.sock[s].kind # "free"}
OpenSes(u) == {n \in UlSes : u.ses[n].open}
NewSock(u) == CHOOSE s \in UlSock : s \notin LiveSock(u)
NewSes(u) == CHOOSE n \in UlSes : n \notin OpenSes(u)
(* The bound on sockets and sessions: a datagram may need one more of each. *)
HasRoom(u) == /\ \E s, r \in UlSock \ LiveSock(u) : s # r
              /\ UlSes \ OpenSes(u) # {}
-----------------------------------------------------------------------------
(* Client sockets *)

delete_socket_from_map(u, s) ==
  IF u.sock[s].inmap
  THEN [u EXCEPT !.map[u.sock[s].remote] = 0, !.sock[s].inmap = FALSE] ELSE u
delete_socket_from_parent(u, s) ==
  IF u.sock[s].parent
  THEN [u EXCEPT !.sock[s].parent = FALSE, !.sock[s].fd = "none"] ELSE u
close_socket_net_data(u, s) ==
  IF u.sock[s].fd = "listener" THEN [u EXCEPT !.lis.fd = "closed"] ELSE u

(* The socket leaves the map and its parent, its descriptor is closed, its *)
(* session loses it, and it is freed.                                      *)
SocketFreed(u, s) ==
  [u EXCEPT !.sock[s] = FreeSock,
            !.ses = [n \in UlSes |-> IF n = u.sock[s].ses /\ u.ses[n].sock = s
                                     THEN [u.ses[n] EXCEPT !.sock = 0] ELSE u.ses[n]]]
close_keeping_map(u, s) ==
  IF s = 0 THEN u ELSE SocketFreed(close_socket_net_data(delete_socket_from_parent(u, s), s), s)
close_ioa_socket(u, s) ==
  IF s = 0 THEN u
  ELSE SocketFreed(close_socket_net_data(delete_socket_from_parent(
                     delete_socket_from_map(u, s), s), s), s)

create_ioa_socket_from_fd(u, s, kind, c) ==
  [u EXCEPT !.sock[s] = [kind |-> kind, remote |-> c, fd |-> "listener", parent |-> TRUE,
                         inmap |-> FALSE, tbc |-> FALSE, ses |-> 0]]
add_socket_to_map(u, s) ==
  [u EXCEPT !.map[u.sock[s].remote] = s, !.sock[s].inmap = TRUE]

(* The socket's descriptor and peer move to a new structure; a child gets  *)
(* a descriptor of its own, which may fail after the mark was set.         *)
detach_ioa_socket(u, s, r) ==
  LET left == delete_socket_from_parent(delete_socket_from_map(u, s), s)
  IN [left EXCEPT !.sock[s].tbc = TRUE, !.sock[s].fd = "none",
                  !.sock[r] = [FreeSock EXCEPT !.kind = u.sock[s].kind,
                               !.remote = u.sock[s].remote, !.fd = "own"]]
DetachFails(u, s) == [u EXCEPT !.sock[s].tbc = TRUE, !.faults = @ - 1]
-----------------------------------------------------------------------------
(* Sessions *)

(* A valid mobile allocation keeps its session when the socket goes.       *)
shutdown_client_connection(u, n, force) ==
  LET v == close_ioa_socket(u, u.ses[n].sock)
  IN IF ~force /\ u.ses[n].alloc = "mobile" THEN v
     ELSE [v EXCEPT !.ses[n] = FreeSes]

open_client_connection_session(u, s) ==
  LET n == NewSes(u)
  IN [u EXCEPT !.ses[n] = [FreeSes EXCEPT !.open = TRUE, !.sock = s], !.sock[s].ses = n]

(* The sessions a mobile REFRESH of session n may name.                    *)
UlMovable(u, n) ==
  {m \in OpenSes(u) \ {n} : /\ u.ses[m].alloc = "mobile" /\ ~u.ses[m].closing
                            /\ u.ses[m].sock # 0 => ~u.sock[u.ses[m].sock].tbc}
attach_socket_to_session(u, r, m) ==
  [close_ioa_socket(u, u.ses[m].sock) EXCEPT !.ses[m].sock = r, !.sock[r].ses = m]

(* What a request does to the session it belongs to and to its socket.     *)
Closing(u, n, s) == [u EXCEPT !.ses[n].closing = TRUE, !.sock[s].tbc = TRUE]
Moved(u, n, s) ==
  {Closing(attach_socket_to_session(detach_ioa_socket(u, s, NewSock(u)), NewSock(u), m), n, s)
     : m \in UlMovable(u, n)}
MovedAway(u, n, s) ==
  {Closing([detach_ioa_socket(u, s, NewSock(u)) EXCEPT !.sock[NewSock(u)] = FreeSock], n, s)}
MoveFails(u, n, s) ==
  IF u.faults = 0 THEN {} ELSE {Closing(DetachFails(u, s), n, s)}
Answers(u, s) ==
  {u} \union IF u.faults = 0 THEN {}
             ELSE {[u EXCEPT !.sock[s].tbc = TRUE, !.faults = @ - 1]}
client_input_handler(u, n, s, request) ==
  IF u.ses[n].sock # s \/ u.ses[n].closing THEN {u}
  ELSE IF request = "allocate" /\ u.ses[n].alloc = "none"
  THEN {[u EXCEPT !.ses[n].alloc = a, !.ses[n].relay = TRUE] : a \in {"plain", "mobile"}}
  ELSE IF request = "move" /\ u.ses[n].alloc = "none"
  THEN Moved(u, n, s) \union MovedAway(u, n, s) \union MoveFails(u, n, s)
  ELSE IF request = "none" THEN {u} ELSE Answers(u, s)
-----------------------------------------------------------------------------
(* A datagram at the listening socket *)

classify_udp_packet(d) ==
  IF d.form = "stun" THEN "stun"
  ELSE IF d.form \in {"hello", "record"} /\ ~ulcfg.nodtls THEN d.form ELSE "invalid"
UlRequest(d) == IF d.form = "stun" THEN d.request ELSE "none"

(* ssl_read: an error or a shutdown, nothing for the application, or data. *)
ssl_read(d) == IF d.form = "record" THEN {"error", "none", d.request}
               ELSE IF d.form = "hello" THEN {"error", "none"} ELSE {"none"}

(* The child of the address reads the datagram; a socket that is to be     *)
(* closed afterwards takes its session along.                              *)
ReadByChild(u, s, request) ==
  {IF v.sock[s].tbc THEN shutdown_client_connection(v, u.sock[s].ses, FALSE) ELSE v
     : v \in client_input_handler(u, u.sock[s].ses, s, request)}
SslFailed(u, s, c) ==
  LET v == IF u.sock[s].ses # 0 THEN shutdown_client_connection(u, u.sock[s].ses, FALSE)
           ELSE close_ioa_socket(u, s)
  IN [v EXCEPT !.map[c] = 0]
ToChild(u, s, c, d) ==
  IF u.sock[s].kind = "udp" THEN ReadByChild(u, s, UlRequest(d))
  ELSE UNION {IF r = "error" THEN {SslFailed(u, s, c)}
              ELSE IF r = "none" THEN {u} ELSE ReadByChild(u, s, r) : r \in ssl_read(d)}

(* No usable child: a handshake makes a DTLS child; it, or anything else,  *)
(* failing that, a plain one, whose first request is served at once.       *)
NewChild(u, kind, c, request) ==
  LET s == NewSock(u)
      opened == open_client_connection_session(
                  add_socket_to_map(create_ioa_socket_from_fd(u, s, kind, c), s), s)
  IN client_input_handler(opened, opened.sock[s].ses, s, request)
dtls_server_input_handler(u, c) == NewChild(u, "dtls", c, "none")
ToListener(u, c, d) ==
  LET handshake == classify_udp_packet(d) = "hello"
      plain == IF ulcfg.noudp THEN {u}
               ELSE NewChild(u, "udp", c, IF handshake THEN "none" ELSE UlRequest(d))
  IN IF handshake THEN dtls_server_input_handler(u, c) \union plain ELSE plain

handle_udp_packet(u, c, d) ==
  LET chs == u.map[c]
  IN IF chs # 0 /\ ~u.sock[chs].tbc THEN ToChild(u, chs, c, d) ELSE ToListener(u, c, d)
process_udp_datagram(u, c, d) ==
  IF ulcfg.drop /\ classify_udp_packet(d) = "invalid" THEN {u}
  ELSE handle_udp_packet(u, c, d)

UlDatagram == [form : {"stun", "hello", "record", "junk"}, request : {"other", "allocate", "move"}]
udp_server_input_handler ==
  /\ ul.lis.fd = "open" /\ ul.lis.event /\ HasRoom(ul)
  /\ \E c \in UlClient, d \in UlDatagram : ul' \in process_udp_datagram(ul, c, d)
  /\ UNCHANGED ulcfg
(* A reset reported for the listening socket: it is opened anew, and stays *)
(* without its event when that fails.                                      *)
reopen_server_socket ==
  /\ ul.lis.fd = "open" /\ ul.lis.event /\ ul.faults > 0
  /\ \E l \in {<<"open", TRUE>>, <<"open", FALSE>>, <<"failed", FALSE>>} :
       ul' = [ul EXCEPT !.faults = @ - 1, !.lis = [fd |-> l[1], event |-> l[2]]]
  /\ UNCHANGED ulcfg
-----------------------------------------------------------------------------
(* Other events of the thread *)

(* A detached socket has its own event.                                    *)
socket_input_handler(s) ==
  /\ ul.sock[s].fd = "own" /\ ul.sock[s].ses # 0 /\ HasRoom(ul)
  /\ \E d \in UlDatagram, r \in {"error", "none", "data"} :
       LET n == ul.sock[s].ses
           req == IF ul.sock[s].kind = "udp" THEN UlRequest(d)
                  ELSE IF r = "data" THEN d.request ELSE "none"
       IN ul' \in IF ul.sock[s].kind = "dtls" /\ r = "error"
                  THEN {shutdown_client_connection(ul, n, FALSE)}
                  ELSE ReadByChild(ul, s, req)
  /\ UNCHANGED ulcfg
(* Data of a peer cannot be written to the client.                         *)
write_client_connection(n) ==
  /\ n \in OpenSes(ul) /\ ul.ses[n].relay /\ ul.ses[n].sock # 0 /\ ul.faults > 0
  /\ ul' = [ul EXCEPT !.sock[ul.ses[n].sock].tbc = TRUE, !.faults = @ - 1]
  /\ UNCHANGED ulcfg
client_ss_allocation_timeout_handler(n) ==
  /\ n \in OpenSes(ul) /\ ul.ses[n].relay
  /\ ul' = shutdown_client_connection([ul EXCEPT !.ses[n].relay = FALSE], n, FALSE)
  /\ UNCHANGED ulcfg
client_to_be_allocated_timeout_handler(n) ==
  /\ n \in OpenSes(ul)
  /\ ul.ses[n].sock # 0 /\ ul.ses[n].relay => ul.sock[ul.ses[n].sock].tbc
  /\ ul' = shutdown_client_connection(ul, n, TRUE)
  /\ UNCHANGED ulcfg
-----------------------------------------------------------------------------
UlInit ==
  /\ ulcfg \in UlSetup
  /\ ul = [lis |-> [fd |-> "open", event |-> TRUE], map |-> [c \in UlClient |-> 0],
           sock |-> [s \in UlSock |-> FreeSock], ses |-> [n \in UlSes |-> FreeSes],
           faults |-> ulcfg.faults]
UlNext ==
  \/ udp_server_input_handler \/ reopen_server_socket
  \/ \E s \in UlSock : socket_input_handler(s)
  \/ \E n \in UlSes : \/ write_client_connection(n)
                      \/ client_ss_allocation_timeout_handler(n)
                      \/ client_to_be_allocated_timeout_handler(n)
UlSpec == UlInit /\ [][UlNext]_UlVars
-----------------------------------------------------------------------------
(* An address in the map leads to a socket that has not been freed, is the *)
(* socket of that address and knows that it is in the map, so that closing *)
(* it takes the entry away (dtls_listener.c reads the socket's fields).    *)
MapPointsLive ==
  \A c \in UlClient : ul.map[c] # 0 =>
    LET s == ul.sock[ul.map[c]]
    IN s.kind # "free" /\ s.remote = c /\ s.inmap /\ (s.fd = "listener" \/ s.tbc)

(* Closing client sockets and sessions in any order never closes the       *)
(* descriptor they share with the listening socket.                        *)
ListenerKept == ul.lis.fd # "closed"

(* What the listener reads with a datagram, its map of clients and its own *)
(* socket, survives every order in which children are closed.              *)
ChildrenExact == MapPointsLive /\ ListenerKept
=============================================================================
