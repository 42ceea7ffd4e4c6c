---------------------------- MODULE TurnSession ----------------------------
(***************************************************************************)
(* One client session of a relay thread with its UDP or TCP allocation:    *)
(* relay sockets and their lifetime timers, permissions, channel bindings  *)
(* and the data path (ns_turn_server.c, ns_turn_allocation.c).             *)
(*                                                                         *)
(* A session belongs to one relay thread, whose libevent loop runs one     *)
(* handler at a time, so a handler is one action.  The requests are        *)
(* authenticated ones; check_stun_auth is not part of this module.         *)
(*                                                                         *)
(* Times are relative to server->ctime: pttl[h] is the expiration_time of  *)
(* the permission of host h minus ctime, cttl[n] the same for channel n,   *)
(* timer[f] what is left before lifetime_ev of family f fires.             *)
(***************************************************************************)
EXTENDS Integers

CONSTANTS
  Host,                \* peer IP addresses
  Peer,                \* peer transport addresses (IP and port)
  HostOf,              \* the IP of a transport address
  FamilyOf,            \* the address family of an IP
  ChNum,               \* the valid channel numbers
  PermissionLifetime,  \* --permission-lifetime
  ChannelLifetime,     \* --channel-lifetime
  MinLifetime,         \* STUN_MIN_ALLOCATE_LIFETIME
  DefaultLifetime,     \* STUN_DEFAULT_ALLOCATE_LIFETIME
  MaxLifetime,         \* --max-allocate-lifetime
  AuthMax,             \* max_session_time_auth (0: no limit)
  Requested,           \* the LIFETIME values clients ask for (0: none given)
  MaxJump,             \* the most seconds ctime advances between two sweeps
  Mobility,            \* --mobility
  ServerRelay,         \* --server-relay
  IpLists,             \* the sets of hosts the peer lists may deny
  NoPeer, NoChan

Family == {"v4", "v6"}

ASSUME SessionAssumption ==
  /\ HostOf \in [Peer -> Host]
  /\ FamilyOf \in [Host -> Family]
  /\ PermissionLifetime \in Nat \ {0}
  /\ ChannelLifetime \in Nat \ {0}
  /\ MinLifetime \in Nat \ {0}
  /\ DefaultLifetime \in Nat \ {0}
  /\ MaxLifetime \in Nat \ {0}
  /\ AuthMax \in Nat
  /\ Requested \subseteq Nat
  /\ MaxJump \in Nat \ {0}
  /\ Mobility \in BOOLEAN
  /\ ServerRelay \in BOOLEAN
  /\ IpLists \subseteq SUBSET Host
  /\ NoPeer \notin Peer
  /\ NoChan \notin ChNum

VARIABLES
  live,     \* the session is in sessions_map
  client,   \* client_socket: "open", "dead" (to be closed) or "none"
  mobile,   \* is_mobile
  tcprelay, \* is_tcp_relay
  valid,    \* alloc.is_valid
  relay,    \* relay_sessions[].s: "none", "open" or "dead" (to be closed)
  timer,    \* relay_sessions[].lifetime_ev
  failure,  \* relay_sessions_failure
  perms,    \* the hosts with an allocated permission slot
  pttl,     \* expiration_time of each permission
  chan,     \* the peer a channel number is bound to
  cttl,     \* expiration_time of each channel
  chns,     \* the lm_map of each permission: the channel of a peer
  denied,   \* the hosts good_peer_addr refuses at this moment
  out       \* what the last handler did, as seen from outside

alloc == <<relay, timer, failure, perms, pttl, chan, cttl, chns>>
vars == <<live, client, mobile, tcprelay, valid, alloc, denied, out>>

PeersOf(S) == {p \in Peer : HostOf[p] \in S}
Relayed(p) == relay[FamilyOf[HostOf[p]]]

Outcome(op, code, p, n, d, relays, life) ==
  [op |-> op, code |-> code, peer |-> p, ch |-> n, d |-> d,
   relayed |-> relays, lifetime |-> life]
Answer(op, code) == Outcome(op, code, NoPeer, NoChan, 0, {}, FALSE)
Datagram(op, p, n) == Outcome(op, 0, p, n, 0, {}, FALSE)
Silent == Answer("none", 0)

-----------------------------------------------------------------------------
(* The session and its teardown *)

FreshAllocation ==
  /\ valid' = FALSE
  /\ relay' = [f \in Family |-> "none"]
  /\ timer' = [f \in Family |-> 0]
  /\ failure' = {}
  /\ perms' = {}
  /\ pttl' = [h \in Host |-> 0]
  /\ chan' = [n \in ChNum |-> NoPeer]
  /\ cttl' = [n \in ChNum |-> 0]
  /\ chns' = [p \in Peer |-> NoChan]

Init ==
  /\ live = FALSE
  /\ client = "none"
  /\ mobile = FALSE
  /\ tcprelay = FALSE
  /\ valid = FALSE
  /\ relay = [f \in Family |-> "none"]
  /\ timer = [f \in Family |-> 0]
  /\ failure = {}
  /\ perms = {}
  /\ pttl = [h \in Host |-> 0]
  /\ chan = [n \in ChNum |-> NoPeer]
  /\ cttl = [n \in ChNum |-> 0]
  /\ chns = [p \in Peer |-> NoChan]
  /\ denied = {}
  /\ out = Silent

(* open_client_connection_session: a new session on a client socket. *)
Open ==
  /\ ~live
  /\ live' = TRUE
  /\ client' = "open"
  /\ out' = Answer("open", 0)
  /\ UNCHANGED <<mobile, tcprelay, valid, alloc, denied>>


(* The second stage of shutdown_client_connection: every socket is closed, *)
(* the session leaves the maps, clear_allocation empties the allocation.   *)
Free ==
  /\ live' = FALSE
  /\ client' = "none"
  /\ mobile' = FALSE
  /\ tcprelay' = FALSE
  /\ FreshAllocation

(* shutdown_client_connection(server, ss, force = 0): a mobile session     *)
(* with a valid allocation only loses its client socket (first stage).     *)
(* relaysLeft and timersLeft are the relay sockets the caller leaves.      *)
Shutdown(relaysLeft, timersLeft) ==
  \/ /\ valid /\ mobile
     /\ client' = "none"
     /\ relay' = relaysLeft
     /\ timer' = timersLeft
     /\ UNCHANGED <<live, mobile, tcprelay, valid, failure, perms, pttl, chan, cttl, chns>>
  \/ ~(valid /\ mobile) /\ Free

(* A read event, an error or an end of file on the client socket, or       *)
(* turn_cancel_session.                                                    *)
ClientGone ==
  /\ live
  /\ Shutdown(relay, timer)
  /\ out' = Answer("gone", 0)
  /\ UNCHANGED denied

(* The client socket is marked to be closed: a failed write, a TLS         *)
(* shutdown, or a session that was told to close.                          *)
ClientBreaks ==
  /\ live /\ client = "open"
  /\ client' = "dead"
  /\ out' = Answer("break", 0)
  /\ UNCHANGED <<live, mobile, tcprelay, valid, alloc, denied>>

(* A relay socket is marked to be closed by a failed send or receive; when *)
(* an event finds the mark, the session is shut down.                      *)
RelayBreaks(f) ==
  /\ live /\ relay[f] = "open"
  /\ \/ /\ relay' = [relay EXCEPT ![f] = "dead"]
        /\ UNCHANGED <<live, client, mobile, tcprelay, valid, timer, failure,
                       perms, pttl, chan, cttl, chns>>
     \/ Shutdown([relay EXCEPT ![f] = "dead"], timer)
  /\ out' = Answer("break", 0)
  /\ UNCHANGED denied

(* Refresh with a mobility ticket moves another session's client socket    *)
(* here (attach_socket_to_session).                                        *)
AttachSocket ==
  /\ live /\ Mobility /\ mobile /\ client # "dead"
  /\ client' = "open"
  /\ out' = Answer("attach", 0)
  /\ UNCHANGED <<live, mobile, tcprelay, valid, alloc, denied>>

(* Mutant of Stale: the watchdog does not look at the relay sockets. *)
StaleOnlyByClient == client # "open"

(* client_to_be_allocated_timeout_handler, the persistent watchdog.        *)
Stale == client # "open" \/ \A f \in Family : relay[f] # "open"

Watchdog ==
  /\ live /\ Stale
  /\ Free
  /\ out' = Answer("watchdog", 0)
  /\ UNCHANGED denied

-----------------------------------------------------------------------------
(* Allocate and Refresh *)

(* read_client_connection drops the input of any other session. *)
Ready == live /\ client = "open"


(* stun_adjust_allocate_lifetime *)
Bounded(l) == IF l = 0 THEN DefaultLifetime
              ELSE IF l < MinLifetime THEN MinLifetime
              ELSE IF l > MaxLifetime THEN MaxLifetime ELSE l
Adjusted(l) == IF AuthMax # 0 /\ AuthMax < Bounded(l) THEN AuthMax ELSE Bounded(l)

(* stun_set_allocate_response_str stops at the first address it cannot     *)
(* encode, and the address of a family marked failed is the empty one: the *)
(* attributes that would follow, LIFETIME last, are then missing.          *)
AllocateAnswer(relays, failed) ==
  Outcome("allocate", 0, NoPeer, NoChan, 0,
          {f \in Family : /\ relays[f] # "none"
                          /\ f \notin failed
                          /\ f = "v6" => "v4" \notin failed},
          failed = {})


(* A request that fails before a relay is created: a bad attribute, a      *)
(* quota, draining.  MOBILITY-TICKET and REQUESTED-TRANSPORT were read.    *)
AllocateRefused(mob, tcp) ==
  /\ Ready /\ ~valid
  /\ mob => Mobility
  /\ mobile' = (mobile \/ mob)
  /\ tcprelay' = tcp
  /\ out' = Answer("allocate", 400)
  /\ UNCHANGED <<live, client, valid, alloc, denied>>

(* create_relay_connection succeeds for fams \ lost and fails for lost;    *)
(* the request fails when it fails for every family that was asked for.    *)
Allocate(fams, lost, mob, tcp, l) ==
  /\ Ready /\ ~valid
  /\ mob => Mobility
  /\ mobile' = (mobile \/ mob)
  /\ tcprelay' = tcp
  /\ failure' = failure \cup lost
  /\ valid' = (lost # fams)
  /\ relay' = [f \in Family |-> IF f \in fams \ lost THEN "open"
                                ELSE IF f \in fams THEN "none" ELSE relay[f]]
  /\ timer' = [f \in Family |->
                 IF f \in fams \ lost
                   THEN IF Adjusted(l) > MaxLifetime THEN MaxLifetime ELSE Adjusted(l)
                   ELSE IF f \in fams THEN 0 ELSE timer[f]]
  /\ out' = IF lost = fams THEN Answer("allocate", 508)
            ELSE AllocateAnswer(relay', failure')
  /\ UNCHANGED <<live, client, perms, pttl, chan, cttl, chns, denied>>

(* A second Allocate on a valid allocation: a retransmission (the same     *)
(* transaction) gets the answer again, any other request gets 437.         *)
AllocateAgain(same) ==
  /\ Ready /\ valid
  /\ out' = IF same /\ (failure # {} \/ \E f \in Family : relay[f] # "none")
              THEN AllocateAnswer(relay, failure)
              ELSE Answer("allocate", 437)
  /\ UNCHANGED <<live, client, mobile, tcprelay, valid, alloc, denied>>

Current == {f \in Family : relay[f] = "open"}

(* handle_turn_refresh on a valid allocation; no family asked for means    *)
(* all the current ones, lifetime 0 ("delete") arms the timers with 1.     *)
Refresh(fams, l, delete) ==
  /\ Ready
  /\ \/ /\ ~valid
        /\ out' = Answer("refresh", 437)
        /\ UNCHANGED timer
     \/ /\ valid /\ ~(fams \subseteq Current)
        /\ out' = Answer("refresh", 443)
        /\ UNCHANGED timer
     \/ /\ valid /\ fams \subseteq Current
        /\ LET targets == IF fams = {} THEN Current ELSE fams
           IN  timer' = [f \in Family |->
                           IF f \in targets THEN (IF delete THEN 1 ELSE Adjusted(l))
                           ELSE timer[f]]
        /\ out' = Answer("refresh", 0)
  /\ UNCHANGED <<live, client, mobile, tcprelay, valid, relay, failure,
                 perms, pttl, chan, cttl, chns, denied>>

(* client_ss_allocation_timeout_handler *)
RelayTimeout(f) ==
  /\ live /\ relay[f] # "none" /\ timer[f] = 0
  /\ LET left == [relay EXCEPT ![f] = "none"]
     IN  IF \A g \in Family : left[g] = "none"
           THEN Shutdown(left, timer)
           ELSE /\ relay' = left
                /\ UNCHANGED <<live, client, mobile, tcprelay, valid, timer, failure,
                               perms, pttl, chan, cttl, chns>>
  /\ out' = Answer("timeout", 0)
  /\ UNCHANGED denied

-----------------------------------------------------------------------------
(* Permissions and channels *)

(* handle_turn_create_permission: the first pass checks every peer and     *)
(* changes nothing, the second updates or adds a permission per host;      *)
(* full are the new hosts for which no slot can be had.                    *)
CreatePermission(S, full) ==
  LET hosts == {HostOf[p] : p \in S}
      granted == hosts \ full
  IN  /\ Ready
      /\ full \subseteq hosts \ perms
      /\ \/ /\ ~valid
            /\ out' = Answer("permission", 400)
            /\ UNCHANGED <<perms, pttl>>
         \/ /\ valid /\ \E p \in S : Relayed(p) = "none" \/ HostOf[p] \in denied
            /\ out' = Answer("permission", 403)
            /\ UNCHANGED <<perms, pttl>>
         \/ /\ valid /\ \A p \in S : Relayed(p) # "none" /\ HostOf[p] \notin denied
            /\ perms' = perms \cup granted
            /\ pttl' = [h \in Host |-> IF h \in granted THEN PermissionLifetime ELSE pttl[h]]
            /\ out' = Answer("permission", IF full = {} THEN 0 ELSE 500)
      /\ UNCHANGED <<live, client, mobile, tcprelay, valid, relay, timer, failure,
                     chan, cttl, chns, denied>>

(* Mutant of BindError: good_peer_addr is not asked for a new channel. *)
BindErrorAnyPeer(n, p) ==
  CASE tcprelay -> 403
    [] ~tcprelay /\ ~valid -> 400
    [] ~tcprelay /\ valid /\ Relayed(p) = "none" -> 443
    [] ~tcprelay /\ valid /\ Relayed(p) # "none" ->
         IF chan[n] \notin {p, NoPeer} \/ (chan[n] = NoPeer /\ chns[p] # NoChan)
           THEN 400 ELSE 0

(* handle_turn_channel_bind up to the first error.  A channel whose        *)
(* permission slot was cleaned or given to another host fails the owner    *)
(* check (500).                                                            *)
BindError(n, p) ==
  CASE tcprelay -> 403
    [] ~tcprelay /\ ~valid -> 400
    [] ~tcprelay /\ valid /\ Relayed(p) = "none" -> 443
    [] ~tcprelay /\ valid /\ Relayed(p) # "none" /\ chan[n] # NoPeer ->
         IF chan[n] # p THEN 400 ELSE IF HostOf[p] \notin perms THEN 500 ELSE 0
    [] ~tcprelay /\ valid /\ Relayed(p) # "none" /\ chan[n] = NoPeer ->
         IF HostOf[p] \in perms /\ chns[p] # NoChan THEN 400
         ELSE IF HostOf[p] \in denied THEN 403 ELSE 0

(* Mutant of Bind: a refresh leaves the permission's deadline alone. *)
BindKeepsPermission(n, p) ==
  /\ perms' = perms \cup {HostOf[p]}
  /\ pttl' = [pttl EXCEPT ![HostOf[p]] = IF HostOf[p] \in perms THEN @ ELSE ChannelLifetime]
  /\ chan' = [chan EXCEPT ![n] = p]
  /\ cttl' = [cttl EXCEPT ![n] = ChannelLifetime]
  /\ chns' = [chns EXCEPT ![p] = n]
  /\ out' = Answer("bind", 0)


(* allocation_get_new_ch_info (for a new channel) and                      *)
(* update_channel_lifetime.                                                *)
Bind(n, p) ==
  /\ perms' = perms \cup {HostOf[p]}
  /\ pttl' = [pttl EXCEPT ![HostOf[p]] = ChannelLifetime]
  /\ chan' = [chan EXCEPT ![n] = p]
  /\ cttl' = [cttl EXCEPT ![n] = ChannelLifetime]
  /\ chns' = [chns EXCEPT ![p] = n]
  /\ out' = Answer("bind", 0)

(* allocation_get_new_ch_info gets a permission slot but no channel slot:  *)
(* a permission it added stays, with expiration_time 0.                    *)
BindFails(p) ==
  /\ perms' = perms \cup {HostOf[p]}
  /\ pttl' = [pttl EXCEPT ![HostOf[p]] = IF HostOf[p] \in perms THEN @ ELSE -1]
  /\ out' = Answer("nochannel", 500)
  /\ UNCHANGED <<chan, cttl, chns>>

ChannelBind(n, p) ==
  /\ Ready
  /\ \/ /\ BindError(n, p) # 0
        /\ out' = Answer("bind", BindError(n, p))
        /\ UNCHANGED <<perms, pttl, chan, cttl, chns>>
     \/ BindError(n, p) = 0 /\ Bind(n, p)
     \/ BindError(n, p) = 0 /\ chan[n] = NoPeer /\ BindFails(p)
  /\ UNCHANGED <<live, client, mobile, tcprelay, valid, relay, timer, failure, denied>>

(* reload of the allowed and denied peer lists, by another thread *)
UpdateIpLists(D) ==
  /\ denied' = D
  /\ out' = Answer("lists", 0)
  /\ UNCHANGED <<live, client, mobile, tcprelay, valid, alloc>>

-----------------------------------------------------------------------------
(* The data path *)

(* handle_turn_send *)
Permitted(p) == HostOf[p] \in perms

Send(p) ==
  /\ Ready /\ ~tcprelay /\ valid
  /\ Permitted(p) \/ ServerRelay
  /\ Relayed(p) = "open"
  /\ out' = Datagram("toPeer", p, NoChan)
  /\ UNCHANGED <<live, client, mobile, tcprelay, valid, alloc, denied>>

(* write_to_peerchannel *)
ChannelData(n) ==
  /\ Ready /\ ~tcprelay /\ valid
  /\ chan[n] # NoPeer
  /\ Relayed(chan[n]) = "open"
  /\ out' = Datagram("toPeer", chan[n], n)
  /\ UNCHANGED <<live, client, mobile, tcprelay, valid, alloc, denied>>

(* peer_input_handler: ChannelData when the peer's permission has a        *)
(* channel for its port, a Data indication otherwise.                      *)
PeerData(p) ==
  /\ Ready /\ ~tcprelay /\ valid
  /\ Relayed(p) = "open"
  /\ Permitted(p) \/ ServerRelay
  /\ out' = Datagram("toClient", p, IF Permitted(p) THEN chns[p] ELSE NoChan)
  /\ UNCHANGED <<live, client, mobile, tcprelay, valid, alloc, denied>>

-----------------------------------------------------------------------------
(* The per-second timer *)


(* Mutant of CleanedChans: turn_permission_clean leaves the channels. *)
CleanedNone(d) == {}

Left(t, d) == IF t > d THEN t - d ELSE 0

(* sweep_allocation_timed_events, ctime having advanced by d.              *)
(* turn_permission_clean deletes the channels in the lm_map of an expired  *)
(* permission; turn_channel_delete then takes an expired channel out of    *)
(* the lm_map of its owner.                                                *)
ExpiredPerms(d) == {h \in perms : pttl[h] < d}
CleanedChans(d) == {chns[p] : p \in PeersOf(ExpiredPerms(d))}
ExpiredChans(d) == {n \in ChNum \ CleanedChans(d) : chan[n] # NoPeer /\ cttl[n] < d}

(* Mutant of Sweep: turn_channel_delete leaves the owner's lm_map alone. *)
SweepOneMap(d) ==
  LET gone == CleanedChans(d) \cup ExpiredChans(d)
  IN  /\ perms' = perms \ ExpiredPerms(d)
      /\ pttl' = [h \in Host |-> IF h \in perms' THEN pttl[h] - d ELSE 0]
      /\ chan' = [n \in ChNum |-> IF n \in gone THEN NoPeer ELSE chan[n]]
      /\ cttl' = [n \in ChNum |-> IF chan'[n] # NoPeer THEN cttl[n] - d ELSE 0]
      /\ chns' = [p \in Peer |-> IF HostOf[p] \in perms' THEN chns[p] ELSE NoChan]

Sweep(d) ==
  LET gone == CleanedChans(d) \cup ExpiredChans(d)
      lost == PeersOf(ExpiredPerms(d)) \cup {chan[n] : n \in ExpiredChans(d)}
  IN  /\ perms' = perms \ ExpiredPerms(d)
      /\ pttl' = [h \in Host |-> IF h \in perms' THEN pttl[h] - d ELSE 0]
      /\ chan' = [n \in ChNum |-> IF n \in gone THEN NoPeer ELSE chan[n]]
      /\ cttl' = [n \in ChNum |-> IF chan'[n] # NoPeer THEN cttl[n] - d ELSE 0]
      /\ chns' = [p \in Peer |-> IF p \in lost THEN NoChan ELSE chns[p]]

(* timer_timeout_handler *)
Tick(d) ==
  /\ timer' = [f \in Family |-> Left(timer[f], d)]
  /\ IF valid THEN Sweep(d) ELSE UNCHANGED <<perms, pttl, chan, cttl, chns>>
  /\ out' = Outcome("tick", 0, NoPeer, NoChan, d, {}, FALSE)
  /\ UNCHANGED <<live, client, mobile, tcprelay, valid, relay, failure, denied>>

-----------------------------------------------------------------------------
Request ==
  \/ Open
  \/ AttachSocket
  \/ \E mob, tcp \in BOOLEAN : AllocateRefused(mob, tcp)
  \/ \E fams \in (SUBSET Family) \ {{}}, mob, tcp \in BOOLEAN, l \in Requested :
       \E lost \in SUBSET fams : Allocate(fams, lost, mob, tcp, l)
  \/ \E same \in BOOLEAN : AllocateAgain(same)
  \/ \E fams \in SUBSET Family, l \in Requested, delete \in BOOLEAN : Refresh(fams, l, delete)
  \/ \E S \in (SUBSET Peer) \ {{}} :
       \E full \in SUBSET {HostOf[p] : p \in S} : CreatePermission(S, full)
  \/ \E n \in ChNum, p \in Peer : ChannelBind(n, p)

Data ==
  \/ \E p \in Peer : Send(p) \/ PeerData(p)
  \/ \E n \in ChNum : ChannelData(n)

Fault ==
  \/ ClientGone
  \/ ClientBreaks
  \/ \E f \in Family : RelayBreaks(f)
  \/ \E D \in IpLists : UpdateIpLists(D)

Timer ==
  \/ \E d \in 1..MaxJump : Tick(d)
  \/ \E f \in Family : RelayTimeout(f)
  \/ Watchdog

Next == Request \/ Data \/ Fault \/ Timer

Spec == Init /\ [][Next]_vars

(* The timers of the relay thread's event loop keep firing: the persistent *)
(* per-second timer, lifetime_ev of each relay socket, the watchdog.       *)
TimersFire ==
  /\ WF_vars(\E d \in 1..MaxJump : Tick(d))
  /\ \A f \in Family : WF_vars(RelayTimeout(f))
  /\ WF_vars(Watchdog)

FairSpec == Spec /\ TimersFire

-----------------------------------------------------------------------------
(* Properties *)

Op == {"none", "open", "gone", "break", "attach", "watchdog", "allocate", "refresh",
       "timeout", "permission", "bind", "nochannel", "lists", "toPeer", "toClient", "tick"}

OutType ==
  [op : Op, code : Nat, peer : Peer \cup {NoPeer}, ch : ChNum \cup {NoChan},
   d : Nat, relayed : SUBSET Family, lifetime : BOOLEAN]

(* Every variable stays in its type. *)
TypeOK ==
  /\ live \in BOOLEAN
  /\ client \in {"open", "dead", "none"}
  /\ mobile \in BOOLEAN
  /\ tcprelay \in BOOLEAN
  /\ valid \in BOOLEAN
  /\ relay \in [Family -> {"none", "open", "dead"}]
  /\ timer \in [Family -> Nat]
  /\ failure \subseteq Family
  /\ perms \subseteq Host
  /\ pttl \in [Host -> Int]
  /\ chan \in [ChNum -> Peer \cup {NoPeer}]
  /\ cttl \in [ChNum -> Nat]
  /\ chns \in [Peer -> ChNum \cup {NoChan}]
  /\ denied \subseteq Host
  /\ out \in OutType

(* The two maps that describe a channel agree: the ch_map entry of a bound *)
(* number belongs to a permission that is still allocated and whose lm_map *)
(* leads back to that number, and no lm_map entry outlives its channel.    *)
(* chn->owner therefore never points to a reused permission slot.          *)
ChannelOwnership ==
  /\ \A n \in ChNum : chan[n] # NoPeer => /\ HostOf[chan[n]] \in perms
                                          /\ chns[chan[n]] = n
  /\ \A p \in Peer : chns[p] # NoChan => chan[chns[p]] = p

(* handle_turn_channel_bind never meets a channel whose permission is gone *)
(* ("Wrong permission info", error 500).                                   *)
NoBrokenOwner == out.op = "bind" => out.code # 500

(* A relay socket, a permission or a channel exists only inside a valid    *)
(* allocation of a live session: no teardown path leaves one behind.       *)
StateNeedsAllocation ==
  (perms # {} \/ \E f \in Family : relay[f] # "none") => live /\ valid

(* A TCP allocation never has a channel: is_tcp_relay cannot change under  *)
(* an allocation that has bound one.                                       *)
NoChannelOnTcpRelay == tcprelay => \A n \in ChNum : chan[n] = NoPeer

(* Data crosses the relay, in either direction, only for a peer whose      *)
(* permission is installed at that moment (write_to_peerchannel does not   *)
(* look), unless --server-relay switches permissions off.                  *)
RelayedUnderPermission ==
  out.op \in {"toPeer", "toClient"} /\ ~ServerRelay => HostOf[out.peer] \in perms

(* Data from a peer reaches the client as ChannelData exactly when a       *)
(* channel is bound to that peer, and on that channel.                     *)
ChannelFraming ==
  out.op = "toClient" =>
    /\ out.ch # NoChan => chan[out.ch] = out.peer
    /\ \A n \in ChNum : chan[n] = out.peer => out.ch = n


(* A new permission is only installed for a host that the peer lists allow *)
(* at that moment and whose address family the allocation relays.          *)
NewPermissionAllowed ==
  [][\A h \in perms' \ perms : h \notin denied /\ relay[FamilyOf[h]] # "none"]_vars

(* The sweep does not take a channel before the lifetime that the last     *)
(* ChannelBind gave it has passed.                                         *)
ChannelKept ==
  [][out'.op = "tick" =>
       \A n \in ChNum : chan[n] # NoPeer /\ cttl[n] >= out'.d => chan'[n] = chan[n]]_vars

(* Once requests, socket hand-overs and new sessions stop, the session and *)
(* everything it holds is given back: lifetime timers close the relays,    *)
(* and the watchdog ends what the first stage of a shutdown left.          *)
SilentSessionReclaimed == <>[][~Request]_vars => <>[]~live

=============================================================================
