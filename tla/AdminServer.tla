---------------------------- MODULE AdminServer ----------------------------
(***************************************************************************)
(* The admin thread (turn_admin_server.c) and what it shares with the      *)
(* relay threads: the list of sessions it keeps from their reports, the    *)
(* cancellations and sockets that travel through the threads' message      *)
(* queues (netengine.c), and the list of alternate servers, which the CLI  *)
(* changes while the relay threads answer from it.  Bufferevent pairs      *)
(* deliver in order; every loop that empties one is a step per message.    *)
(***************************************************************************)
EXTENDS Integers, Sequences, FiniteSets

CONSTANTS AsSetup,      \* configurations: password, commands, alt, ids, faults
          AsThread,     \* relay threads
          MaxAsSes,     \* bound: sessions of a thread
          AltAddr,      \* addresses an alternate server may have
          AltFamily,    \* address -> family
          Local,        \* the address clients reach this server at
          CLI_PASSWORD_TRY_NUMBER,
          MaxAsQueue,   \* messages in a queue
          MaxAlt        \* length of the list of alternate servers

ASSUME AsAssumption ==
  MaxAsSes \in Nat /\ \A c \in AsSetup : c.ids \subseteq AsThread \X (1..MaxAsSes)

VARIABLES ascfg,        \* the configuration
          ases,         \* session id -> session
          relayq,       \* thread -> messages to the relay thread
          adminq,       \* session reports to the admin thread
          httpsq,       \* HTTPS sockets on their way to the admin thread
          listed,       \* the admin thread's map of sessions
          cli,          \* the CLI connection
          alt,          \* the list of alternate servers and its mutex
          altask,       \* thread -> the Allocate that waits for the mutex
          altcount      \* thread -> as_counter

AsVars == <<ascfg, ases, relayq, adminq, httpsq, listed, cli, alt, altask, altcount>>
AsSesVars == <<ases, relayq, adminq, httpsq, listed>>
AsAltVars == <<alt, altask, altcount>>

(* A session id names its thread and a count that is never used twice.     *)
AsId == AsThread \X (1..MaxAsSes)
AsIds == ascfg.ids
AsSession(st, sock, alloc, quota, mobile) ==
  [st |-> st, sock |-> sock, alloc |-> alloc, quota |-> quota, mobile |-> mobile]
NoSession == AsSession("none", FALSE, FALSE, FALSE, FALSE)
CliCommands == {"cs", "aas", "das", "other", "q"}
NoCli == [open |-> FALSE, cmds |-> 0, auth |-> FALSE]
Room(q) == Len(q) < MaxAsQueue
-----------------------------------------------------------------------------
(* Reports of sessions *)

turn_session_info_copy_from(ss) == ss.st = "open" /\ ss.alloc /\ ss.quota
send_turn_session_info(id, valid) == adminq' = Append(adminq, [id |-> id, valid |-> valid])
report_turn_session_info(id, ss) == send_turn_session_info(id, turn_session_info_copy_from(ss))

put_listed(l, m) == IF m.valid THEN l \union {m.id} ELSE l \ {m.id}
admin_server_receive_message ==
  /\ adminq # <<>>
  /\ listed' = put_listed(listed, Head(adminq)) /\ adminq' = Tail(adminq)
  /\ UNCHANGED <<ascfg, ases, relayq, httpsq, cli, AsAltVars>>
-----------------------------------------------------------------------------
(* Sessions of a relay thread *)

(* Reports the session as gone and gives its quota back; a mobile session  *)
(* with a valid allocation stays, without its client.                      *)
Ended(ss, force) ==
  IF ss.alloc /\ ss.mobile /\ ~force THEN AsSession(ss.st, FALSE, TRUE, FALSE, TRUE)
  ELSE AsSession("gone", FALSE, FALSE, FALSE, FALSE)
Unallocated(ss) == AsSession(ss.st, ss.sock, FALSE, ss.quota, ss.mobile)
shutdown_unforced(id, ss, force) ==
  /\ ases' = [ases EXCEPT ![id] = Ended(ss, force)]
  /\ report_turn_session_info(id, ss)
as_shutdown_client_connection(id, ss, force) ==
  /\ ases' = [ases EXCEPT ![id] = Ended(ss, force)]
  /\ send_turn_session_info(id, FALSE)

(* A request of the client: one that leaves the session as it is, an       *)
(* Allocate, a Refresh with lifetime 0, and (on TLS) an HTTP request.      *)
(* BINDING and SEND are not reported.                                      *)
read_client_connection(id) ==
  LET ss == ases[id]
  IN /\ ss.sock /\ Room(adminq)
     /\ \/ report_turn_session_info(id, ss) /\ UNCHANGED <<ases, httpsq>>
        \/ /\ ~ss.alloc
           /\ \E mobile \in BOOLEAN :
                LET new == AsSession(ss.st, ss.sock, TRUE, TRUE, mobile)
                IN ases' = [ases EXCEPT ![id] = new] /\ report_turn_session_info(id, new)
           /\ UNCHANGED httpsq
        \/ as_shutdown_client_connection(id, Unallocated(ss), FALSE) /\ UNCHANGED httpsq
        \/ /\ Room(httpsq)
           /\ as_shutdown_client_connection(id, ss, FALSE)
           /\ httpsq' = Append(httpsq, id)
     /\ UNCHANGED <<ascfg, relayq, listed, cli, AsAltVars>>

(* Traffic in either direction is reported every 4096 packets.             *)
turn_report_session_usage(id) ==
  /\ ases[id].sock \/ ases[id].alloc
  /\ Room(adminq) /\ report_turn_session_info(id, ases[id])
  /\ UNCHANGED <<ascfg, ases, relayq, httpsq, listed, cli, AsAltVars>>

(* The client's socket fails, the allocation ends, or the watchdog finds a *)
(* session without client or allocation.                                   *)
SessionEnds(id) ==
  LET ss == ases[id]
  IN /\ ss.st = "open" /\ Room(adminq)
     /\ \/ ss.sock /\ as_shutdown_client_connection(id, ss, FALSE)
        \/ ss.alloc /\ as_shutdown_client_connection(id, Unallocated(ss), FALSE)
        \/ (~ss.sock \/ ~ss.alloc) /\ as_shutdown_client_connection(id, ss, TRUE)
     /\ UNCHANGED <<ascfg, relayq, httpsq, listed, cli, AsAltVars>>

(* The client of a mobile session is back on another socket: the quota may *)
(* be refused, and the answer leaves before the session is reported.       *)
MobileReturns(id) ==
  /\ ases[id].st = "open" /\ ases[id].mobile /\ ~ases[id].sock
  /\ \E quota \in BOOLEAN :
       ases' = [ases EXCEPT ![id] = AsSession("open", TRUE, ases[id].alloc, quota, TRUE)]
  /\ UNCHANGED <<ascfg, relayq, adminq, httpsq, listed, cli, AsAltVars>>
-----------------------------------------------------------------------------
(* Messages to a relay thread *)

send_message_to_relay(t, m) == relayq' = [relayq EXCEPT ![t] = Append(@, m)]

(* A TCP or TLS connection is accepted and sent to the thread itself.      *)
server_input_handler(t) ==
  /\ Room(relayq[t])
  /\ Cardinality({id \in AsIds : id[1] = t /\ ases[id].st = "none"})
       > Len(SelectSeq(relayq[t], LAMBDA m : m.t = "socket"))
  /\ send_message_to_relay(t, [t |-> "socket"])
  /\ UNCHANGED <<ascfg, ases, adminq, httpsq, listed, cli, AsAltVars>>

(* A new session; its socket is closed when no callback can be registered. *)
as_open_client_connection_session(t) ==
  \E id \in AsIds, sock \in BOOLEAN :
    /\ id[1] = t /\ ases[id].st = "none"
    /\ \A k \in 1..(id[2] - 1) : ases[<<t, k>>].st # "none"
    /\ ases' = [ases EXCEPT ![id] = AsSession("open", sock, FALSE, FALSE, FALSE)]
turn_cancel_session(t, id) ==
  IF id[1] = t /\ ases[id].st = "open" THEN as_shutdown_client_connection(id, ases[id], FALSE)
  ELSE UNCHANGED <<ases, adminq>>
handle_relay_message(m, t) ==
  IF m.t = "socket" THEN as_open_client_connection_session(t) /\ UNCHANGED adminq
  ELSE turn_cancel_session(t, m.id)
relay_receive_message(t) ==
  /\ relayq[t] # <<>>
  /\ handle_relay_message(Head(relayq[t]), t)
  /\ relayq' = [relayq EXCEPT ![t] = Tail(@)]
  /\ UNCHANGED <<ascfg, httpsq, listed, cli, AsAltVars>>

(* The admin thread serves the HTTPS socket.                               *)
https_admin_server_receive_message ==
  /\ httpsq # <<>> /\ httpsq' = Tail(httpsq)
  /\ UNCHANGED <<ascfg, ases, relayq, adminq, listed, cli, AsAltVars>>

(* The thread is the one the id names; a thread that does not exist gets   *)
(* nothing.                                                                *)
send_session_cancellation_to_relay(id) ==
  LET t == id[1]
  IN IF t \in AsThread THEN send_message_to_relay(t, [t |-> "cancel", id |-> id])
     ELSE UNCHANGED relayq
-----------------------------------------------------------------------------
(* The list of alternate servers *)

AltWithout(s, a) ==
  LET i == CHOOSE k \in DOMAIN s : s[k] = a /\ \A j \in 1..(k - 1) : s[j] # a
  IN SubSeq(s, 1, i - 1) \o SubSeq(s, i + 1, Len(s))
ListedAlt(a) == \E i \in DOMAIN alt.list : alt.list[i] = a
add_alt_server(a) ==
  /\ ~alt.locked /\ Len(alt.list) < MaxAlt
  /\ alt' = [alt EXCEPT !.list = Append(@, a)]
del_keeping_mutex(a) ==
  IF alt.list = <<>> THEN UNCHANGED alt
  ELSE /\ ~alt.locked
       /\ alt' = IF ListedAlt(a) THEN [alt EXCEPT !.list = AltWithout(@, a)]
                 ELSE [alt EXCEPT !.locked = TRUE]
(* Without memory for the shorter list the mutex stays locked.             *)
del_alt_server(a) ==
  IF alt.list = <<>> THEN UNCHANGED alt
  ELSE /\ ~alt.locked
       /\ \/ alt' = IF ListedAlt(a) THEN [alt EXCEPT !.list = AltWithout(@, a)] ELSE alt
          \/ /\ ListedAlt(a) /\ ascfg.faults > 0
             /\ alt' = [alt EXCEPT !.locked = TRUE]

(* An Allocate at thread t: the size is read before the mutex is taken.    *)
AltAsked(t) ==
  /\ altask[t] = "idle"
  /\ altask' = [altask EXCEPT ![t] = IF alt.list = <<>> THEN "idle" ELSE "waits"]
  /\ UNCHANGED <<ascfg, AsSesVars, cli, alt, altcount>>

(* From the counter on, at most once around the list, the first address of *)
(* the client's family; <<counter afterwards, address or "none">>.         *)
AltIndex(c, k) == (c + k) % Len(alt.list)
AltChosen(c, family) ==
  {k \in 0..(Len(alt.list) - 1) : AltFamily[alt.list[AltIndex(c, k) + 1]] = family}
AltStart(c) == IF c >= Len(alt.list) THEN 0 ELSE c
set_alternate_server(c, family) ==
  IF alt.list = <<>> \/ ListedAlt(Local) THEN <<c, "none">>
  ELSE LET found == AltChosen(AltStart(c), family)
       IN IF found = {} THEN <<AltIndex(AltStart(c), Len(alt.list) - 1) + 1, "none">>
          ELSE LET k == CHOOSE k \in found : \A j \in found : k <= j
               IN <<AltIndex(AltStart(c), k) + 1, alt.list[AltIndex(AltStart(c), k) + 1]>>
AltAnswered(t) ==
  /\ altask[t] = "waits" /\ ~alt.locked
  /\ \E family \in {AltFamily[a] : a \in AltAddr} :
       altcount' = [altcount EXCEPT ![t] = set_alternate_server(altcount[t], family)[1]]
  /\ altask' = [altask EXCEPT ![t] = "idle"]
  /\ UNCHANGED <<ascfg, AsSesVars, cli, alt>>
-----------------------------------------------------------------------------
(* The CLI *)

cliserver_input_handler ==
  /\ ~cli.open /\ cli' = [NoCli EXCEPT !.open = TRUE, !.auth = ~ascfg.password]
  /\ UNCHANGED <<ascfg, AsSesVars, AsAltVars>>
(* Until the password has been given every line is a try of it.            *)
CliPassword ==
  /\ cli.open /\ ~cli.auth
  /\ \/ cli' = [cli EXCEPT !.cmds = @ + 1, !.auth = TRUE]
     \/ cli' = IF cli.cmds + 1 >= CLI_PASSWORD_TRY_NUMBER THEN NoCli
               ELSE [cli EXCEPT !.cmds = @ + 1]
  /\ UNCHANGED <<ascfg, AsSesVars, AsAltVars>>
run_cli_input(c) ==
  /\ cli.open /\ cli.auth /\ c \in ascfg.commands
  /\ IF c = "cs"
     THEN /\ \E id \in AsIds : Room(relayq[id[1]]) /\ Room(adminq) /\ send_session_cancellation_to_relay(id)
          /\ UNCHANGED alt
     ELSE /\ UNCHANGED relayq
          /\ IF c = "aas" THEN \E a \in AltAddr : add_alt_server(a)
             ELSE IF c = "das" THEN \E a \in AltAddr : del_alt_server(a) ELSE UNCHANGED alt
  /\ cli' = IF c = "q" THEN NoCli ELSE cli
  /\ UNCHANGED <<ascfg, ases, adminq, httpsq, listed, altask, altcount>>
(* The connection ends.                                                    *)
cli_eventcb_bev ==
  /\ cli.open /\ cli' = NoCli
  /\ UNCHANGED <<ascfg, AsSesVars, AsAltVars>>
-----------------------------------------------------------------------------
AsInit ==
  /\ ascfg \in AsSetup
  /\ ases = [id \in AsId |-> NoSession] /\ listed = {}
  /\ relayq = [t \in AsThread |-> <<>>] /\ adminq = <<>> /\ httpsq = <<>>
  /\ cli = NoCli
  /\ alt = [list |-> ascfg.alt, locked |-> FALSE]
  /\ altask = [t \in AsThread |-> "idle"] /\ altcount = [t \in AsThread |-> 0]
AsNext ==
  \/ admin_server_receive_message \/ https_admin_server_receive_message
  \/ cliserver_input_handler \/ CliPassword \/ cli_eventcb_bev
  \/ \E c \in CliCommands : run_cli_input(c)
  \/ \E id \in AsIds : \/ read_client_connection(id) \/ turn_report_session_usage(id)
                       \/ SessionEnds(id) \/ MobileReturns(id)
  \/ \E t \in AsThread : \/ server_input_handler(t) \/ relay_receive_message(t)
                         \/ (ascfg.alt # <<>> /\ (AltAsked(t) \/ AltAnswered(t)))
(* Every thread serves its queue and goes on with its request.             *)
AsFairness ==
  /\ WF_AsVars(admin_server_receive_message)
  /\ \A t \in AsThread : WF_AsVars(relay_receive_message(t)) /\ WF_AsVars(AltAnswered(t))
AsSpec == AsInit /\ [][AsNext]_AsVars /\ AsFairness
-----------------------------------------------------------------------------
(* Once the reports under way have been read, every session the admin      *)
(* thread lists exists, has an allocation and counts against its user's    *)
(* quota: reports of one session, sent from requests, traffic, timers and  *)
(* cancellations, never leave a session behind that has ended.             *)
ListedIsLive ==
  /\ \A id \in listed :
       (\A k \in 1..Len(adminq) : adminq[k].id # id) => turn_session_info_copy_from(ases[id])
  /\ \A k \in 1..Len(adminq) :
       adminq[k].valid /\ (\A j \in (k + 1)..Len(adminq) : adminq[j].id # adminq[k].id)
         => turn_session_info_copy_from(ases[adminq[k].id])

(* An Allocate that found the list of alternate servers is answered,       *)
(* whatever the CLI does to the list in the meantime, as long as there is  *)
(* memory for the lists.                                                   *)
AllocateAnswered ==
  \A t \in AsThread : altask[t] = "waits" /\ ascfg.faults = 0 ~> altask[t] = "idle"
=============================================================================
