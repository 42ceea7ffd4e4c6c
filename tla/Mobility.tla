------------------------------ MODULE Mobility ------------------------------
(***************************************************************************)
(* Mobility tickets: a REFRESH with a ticket moves an allocation to the    *)
(* client socket the request came from, first handing the socket to the    *)
(* relay thread of the ticket when that is another one (ns_turn_server.c,  *)
(* netengine.c, ns_ioalib_engine_impl.c).                                  *)
(*                                                                         *)
(* A ticket carries the id of its thread.  The content of a session is cut *)
(* down to what the move reads: its socket, whether it has an allocation   *)
(* (valid), relay sockets (relay) and a mobile client (mobile).            *)
(***************************************************************************)
EXTENDS Integers, Sequences, FiniteSets

CONSTANTS
  MThread,    \* the ids of the relay threads
  MSess,      \* session ids
  MSock,      \* client connections
  MaxTicket,  \* bound: tickets given out
  NoSess, NoSock, NoTicket

Ticket == MThread \X (1..MaxTicket)

ASSUME MobAssumption ==
  MaxTicket \in Nat /\ NoSess \notin MSess /\ NoSock \notin MSock /\ NoTicket \notin Ticket

VARIABLES
  mob,      \* the sessions
  mmap,     \* mobile_connections_map of each thread
  fd,       \* the state of each client connection
  mq,       \* RMT_MOBILE_SOCKET messages to each thread
  mwait,    \* requests postponed by the user check
  issued    \* the number of tickets given out

MobVars == <<mob, mmap, fd, mq, mwait, issued>>

Unused == [st |-> "none", thr |-> 0, sock |-> NoSock, shut |-> FALSE, valid |-> FALSE,
           relay |-> FALSE, mobile |-> FALSE, mid |-> NoTicket, old |-> NoTicket]

MobInit ==
  /\ mob = [s \in MSess |-> Unused]
  /\ mmap = [t \in MThread |-> [k \in Ticket |-> NoSess]]
  /\ fd = [c \in MSock |-> "new"]
  /\ mq = [t \in MThread |-> <<>>]
  /\ mwait = {}
  /\ issued = 0

MobNow == [mob |-> mob, mmap |-> mmap, fd |-> fd, mq |-> mq, mwait |-> mwait, issued |-> issued]
Become(x) ==
  /\ mob' = x.mob /\ mmap' = x.mmap /\ fd' = x.fd
  /\ mq' = x.mq /\ mwait' = x.mwait /\ issued' = x.issued

-----------------------------------------------------------------------------
(* get_new_mobile_id: an id with the thread in its top byte, not in use.   *)
NewTicket(x, t) == <<t, x.issued + 1>>

(* delete_session_from_mobile_map, put_session_into_mobile_map *)
Without(map, m) == IF m.mid = NoTicket THEN map ELSE [map EXCEPT ![m.thr][m.mid] = NoSess]
With(map, s, k) == [map EXCEPT ![k[1]][k] = s]

(* IOA_CLOSE_SOCKET *)
Closed(fds, c) == IF c = NoSock THEN fds ELSE [fds EXCEPT ![c] = "closed"]

(* open_client_connection_session, create_new_ss, put_session_into_map:    *)
(* with --mobility every session has a ticket from the start.              *)
Opened(x, t, s, c) ==
  [x EXCEPT !.mob[s] = [Unused EXCEPT !.st = "live", !.thr = t, !.sock = c, !.mid = NewTicket(x, t)],
            !.mmap = With(@, s, NewTicket(x, t)),
            !.issued = @ + 1]

(* A session can still take a request of its client.                       *)
Reads(x, s) == x.mob[s].st = "live" /\ x.mob[s].sock # NoSock /\ ~x.mob[s].shut

-----------------------------------------------------------------------------
(* handle_turn_refresh with a ticket k: the states it may leave *)

Shut(x, s) == [x EXCEPT !.mob[s].shut = TRUE]
Detached(x, s) == [x EXCEPT !.mob[s].sock = NoSock, !.mob[s].shut = TRUE]

(* The ticket is of another thread: the socket is detached and sent there. *)
(* Detaching may fail, and so may the sending, which then closes the       *)
(* socket.                                                                 *)
HandOver(x, s, k) ==
  LET c == x.mob[s].sock IN
    {[Detached(x, s) EXCEPT !.mq[k[1]] = Append(@, [sock |-> c, ticket |-> k])],
     [Detached(x, s) EXCEPT !.fd = Closed(@, c)],
     Shut(x, s)}

(* The session the ticket names can be moved: 404, 437 or 500 otherwise.   *)
Movable(x, s, k) ==
  LET o == x.mmap[k[1]][k] IN
    /\ o \notin {NoSess, s}
    /\ ~x.mob[o].shut
    /\ x.mob[o].mobile

(* attach_socket_to_session: the old session's own socket is closed.       *)
Attached(x, s, o) ==
  [Detached(x, s) EXCEPT !.mob[o].sock = x.mob[s].sock, !.fd = Closed(@, x.mob[o].sock)]

(* Mutant: the old ticket of the moved session stays in the map. *)
TransferKeepsTicket(x, s, k) ==
  LET o == x.mmap[k[1]][k]
      n == NewTicket(x, k[1])
  IN [Attached(x, s, o) EXCEPT !.mob[s].mid = NoTicket, !.mob[o].mid = n, !.mob[o].old = k,
                               !.mmap = With(Without(@, x.mob[s]), o, n), !.issued = @ + 1]

(* Mutant: the socket the moved session had is not closed. *)
TransferLeavesSocket(x, s, k) ==
  LET o == x.mmap[k[1]][k]
      n == NewTicket(x, k[1])
  IN [Attached(x, s, o) EXCEPT !.mob[s].mid = NoTicket, !.mob[o].mid = n, !.mob[o].old = k,
                               !.mmap = With(Without(Without(@, x.mob[s]), x.mob[o]), o, n),
                               !.issued = @ + 1, !.fd = x.fd]

(* The transfer: the socket goes over to the session of the ticket; both   *)
(* sessions lose their tickets and that one gets a new one.                *)
MobileTransfer(x, s, k) ==
  LET o == x.mmap[k[1]][k]
      n == NewTicket(x, k[1])
  IN [Attached(x, s, o) EXCEPT !.mob[s].mid = NoTicket, !.mob[o].mid = n, !.mob[o].old = k,
                               !.mmap = With(Without(Without(@, x.mob[s]), x.mob[o]), o, n),
                               !.issued = @ + 1]

(* The ticket is of this thread.  The user check refuses, is postponed     *)
(* when it may be resumed, or passes; then detaching may fail, or the      *)
(* callback of the attached socket cannot be registered, which leaves the  *)
(* tickets as they were.                                                   *)
Move(x, s, k, canResume) ==
  IF ~Movable(x, s, k) THEN {x}
  ELSE {x, Shut(x, s), Attached(x, s, x.mmap[k[1]][k])}
         \cup (IF x.issued < MaxTicket THEN {MobileTransfer(x, s, k)} ELSE {})
         \cup (IF canResume THEN {[x EXCEPT !.mwait = @ \cup {[ses |-> s, ticket |-> k]}]} ELSE {})

Refreshed(x, s, k, canResume) ==
  IF ~Reads(x, s) \/ x.mob[s].valid THEN {x}
  ELSE IF k[1] # x.mob[s].thr THEN HandOver(x, s, k)
  ELSE Move(x, s, k, canResume)

-----------------------------------------------------------------------------
(* The handlers *)

Connect(t, s, c) ==
  /\ fd[c] = "new"
  /\ mob[s].st = "none"
  /\ issued < MaxTicket
  /\ Become([Opened(MobNow, t, s, c) EXCEPT !.fd[c] = "open"])

(* handle_turn_allocate: without MOBILITY-TICKET the session gives up its  *)
(* ticket.                                                                 *)
MobAllocate(s, mobile) ==
  /\ Reads(MobNow, s)
  /\ ~mob[s].valid
  /\ mob' = [mob EXCEPT ![s].valid = TRUE, ![s].relay = TRUE, ![s].mobile = mobile,
                        ![s].mid = IF mobile THEN @ ELSE NoTicket]
  /\ mmap' = IF mobile THEN mmap ELSE Without(mmap, mob[s])
  /\ UNCHANGED <<fd, mq, mwait, issued>>

RefreshTicket(s, k) ==
  /\ Reads(MobNow, s)
  /\ k[2] <= issued
  /\ \E x \in Refreshed(MobNow, s, k, TRUE) : Become(x)

(* resume_processing_after_username_check: the request is handled from its *)
(* start, on the state of that moment.                                     *)
MobResume(w) ==
  \E x \in Refreshed([MobNow EXCEPT !.mwait = @ \ {w}], w.ses, w.ticket, FALSE) : Become(x)

(* handle_relay_message, RMT_MOBILE_SOCKET: a new session for the socket,  *)
(* which handles the request that came with it.                            *)
ReceiveMobile(t, s) ==
  /\ mq[t] # <<>>
  /\ mob[s].st = "none"
  /\ issued < MaxTicket
  /\ LET m == Head(mq[t])
         x == Opened([MobNow EXCEPT !.mq[t] = Tail(@)], t, s, m.sock)
     IN \E y \in Refreshed(x, s, m.ticket, TRUE) : Become(y)

(* delete_ur_map_ss *)
End(s) ==
  /\ mob' = [mob EXCEPT ![s] = [Unused EXCEPT !.st = "gone"]]
  /\ mmap' = Without(mmap, mob[s])
  /\ fd' = Closed(fd, mob[s].sock)
  /\ UNCHANGED <<mq, mwait, issued>>

(* shutdown_client_connection without force: a mobile session with an      *)
(* allocation only loses its socket, its relay sockets stay or not.        *)
ShutdownMobile(s, relay) ==
  IF mob[s].valid /\ mob[s].mobile
  THEN /\ mob' = [mob EXCEPT ![s].sock = NoSock, ![s].relay = relay]
       /\ fd' = Closed(fd, mob[s].sock)
       /\ UNCHANGED <<mmap, mq, mwait, issued>>
  ELSE End(s)

(* The client goes away, or the session is cancelled.                      *)
LoseClient(s) ==
  mob[s].st = "live" /\ mob[s].sock # NoSock /\ ShutdownMobile(s, mob[s].relay)

(* client_ss_allocation_timeout_handler *)
AllocationTimeout(s) == mob[s].relay /\ ShutdownMobile(s, FALSE)

(* client_to_be_allocated_timeout_handler: the watchdog of the session.    *)
MobWatchdog(s) ==
  /\ mob[s].st = "live"
  /\ mob[s].sock = NoSock \/ mob[s].shut \/ ~mob[s].relay
  /\ End(s)

MobNext ==
  \/ \E t \in MThread, s \in MSess, c \in MSock : Connect(t, s, c)
  \/ \E s \in MSess, m \in BOOLEAN : MobAllocate(s, m)
  \/ \E s \in MSess, k \in Ticket : RefreshTicket(s, k)
  \/ \E w \in mwait : MobResume(w)
  \/ \E t \in MThread, s \in MSess : ReceiveMobile(t, s)
  \/ \E s \in MSess : LoseClient(s) \/ AllocationTimeout(s) \/ MobWatchdog(s)
MobSpec == MobInit /\ [][MobNext]_MobVars

-----------------------------------------------------------------------------
(* Properties *)

(* The map of each thread names exactly the live sessions that hold the    *)
(* ticket: no ticket leads to a session that was freed, to another thread  *)
(* or to two sessions, whatever transfers, hand-overs and closures cross.  *)
TicketsExact ==
  \A t \in MThread, k \in Ticket, s \in MSess :
    mmap[t][k] = s <=> mob[s].st = "live" /\ mob[s].thr = t /\ mob[s].mid = k

(* A client connection that is open has exactly one holder, a session or a *)
(* message on its way to another thread; a closed one has none.            *)
SocketHeldOnce ==
  \A c \in MSock :
    LET sessions == {s \in MSess : mob[s].sock = c}
        messages == UNION {{t} \X {i \in DOMAIN mq[t] : mq[t][i].sock = c} : t \in MThread}
    IN IF fd[c] = "open"
       THEN \/ messages = {} /\ \E s \in sessions : sessions = {s}
            \/ sessions = {} /\ \E m \in messages : messages = {m}
       ELSE sessions = {} /\ messages = {}

=============================================================================
