---------------------------- MODULE StartUclient ----------------------------
(***************************************************************************)
(* turnutils_uclient sets its sessions up (startuclient.c, and the request *)
(* exchange of uclient.c): one thread runs a fixed program of connects,    *)
(* ALLOCATE/REFRESH, CHANNEL-BIND and CREATE-PERMISSION requests.  Every   *)
(* request waits for its answer; over UDP it is sent again when nothing    *)
(* arrives, and the network may lose, delay and reorder what it carries.   *)
(* The server is external: only what its answers depend on is kept.        *)
(***************************************************************************)
EXTENDS Sequences, Integers, FiniteSets, TLC

CONSTANTS UcCommand,     \* the command lines and surroundings that are explored
          UcChannel,     \* channel numbers the client may draw
          MaxCycle,      \* MAX_LISTENING_CYCLE_NUMBER
          MaxAf          \* the bound 32 on the tries of clnet_allocate

VARIABLES uopt,   \* the options
          ucl,    \* the client: its program, the request it waits for, ...
          unet,   \* datagrams (or stream records) in flight
          usrv,   \* what the server holds per client address
          uleft   \* faults that may still happen

UcVars == <<uopt, ucl, unet, usrv, uleft>>

UcSock == {"probe", "rtp", "rtcp", "c1", "c1r", "c2", "c2r"}
UcPeer == <<"peer", 0>>
UcPeerRtcp == <<"peer_rtcp", 0>>
UcOther == <<"other", 0>>
RelayOf(s) == <<s, 0>>      \* in a program: the relayed address of session s

-----------------------------------------------------------------------------
(* The programs *)

(* main: what the flags on the command line amount to.  A load mode (-Y)   *)
(* refuses -y; TCP relaying (-T, -P) implies -t, -y, -c and -s.  redirect, *)
(* bigfd, before and the faults allowed are no flags but surroundings.     *)
Accepted(a) == ~(a.load # "none" /\ "y" \in a.flags)
main(a) ==
  LET f == a.flags
      relay == "T" \in f \/ "P" \in f
  IN [rtcp |-> ~("c" \in f \/ "Z" \in f \/ a.load # "none" \/ relay),
      c2c |-> "y" \in f \/ relay, tcp |-> "t" \in f \/ relay,
      channel |-> ~("s" \in f \/ relay), passive |-> "P" \in f,
      dos |-> "O" \in f, extra |-> "G" \in f, perms |-> "I" \notin f,
      flood |-> a.load = "alloc", before |-> a.before,
      redirect |-> a.redirect, bigfd |-> a.bigfd]

(* One call of the set-up code: on socket s, towards peer p; "must": the   *)
(* caller exits when it fails; "anew": the channel number is drawn again;  *)
(* "spare": the channel number is not the session's.                       *)
CallOf(k, s, p, must) ==
  [kind |-> k, s |-> s, p |-> p, must |-> must, anew |-> FALSE, spare |-> FALSE]
clnet_connect(s) == CallOf("connect", s, UcPeer, TRUE)
allocate(s) == CallOf("allocate", s, UcPeer, TRUE)
bind(s, p) == CallOf("bind", s, p, TRUE)
permit(s, p) == CallOf("permit", s, p, TRUE)
AllocateProbe == [allocate("probe") EXCEPT !.must = FALSE]
BindAnew(s, p) == [bind(s, p) EXCEPT !.anew = TRUE]
BindSpare(s) == [bind(s, UcOther) EXCEPT !.must = FALSE, !.anew = TRUE, !.spare = TRUE]
PermitSpare(s) == [permit(s, UcOther) EXCEPT !.must = FALSE]
rare_event == CallOf("rare", "probe", UcPeer, TRUE)
When(b, prog) == IF b THEN prog ELSE <<>>

(* start_connection once the sessions are allocated, with channels.        *)
BindChannels(o) ==
  << bind("rtp", UcPeerRtcp), rare_event, bind("rtp", UcPeerRtcp), rare_event,
     BindAnew("rtp", UcPeer), rare_event, bind("rtp", UcPeer), rare_event >>
  \o When(o.extra, <<BindSpare("rtp")>>)
  \o When(o.rtcp, <<bind("rtcp", UcPeerRtcp)>>) \o <<rare_event>>
  \o When(o.extra, <<PermitSpare("rtp")>>)

(* ... and with permissions; a coin tells if the extra ones come last.     *)
CreatePermissions(o) ==
  LET own == <<permit("rtp", UcPeer), rare_event, permit("rtp", UcPeerRtcp), rare_event>>
  IN When(o.before, own)
     \o When(o.extra, <<PermitSpare("rtp")>>)
     \o When(~o.before, own)
     \o When(o.rtcp, <<permit("rtcp", UcPeerRtcp), rare_event,
                       permit("rtcp", UcPeer), rare_event>>)

start_connection(o) ==
  << clnet_connect("probe"), AllocateProbe, clnet_connect("rtp") >>
  \o When(o.rtcp, <<clnet_connect("rtcp")>>)
  \o <<allocate("rtp"), rare_event>>
  \o When(o.rtcp, <<allocate("rtcp"), rare_event>>)
  \o When(~o.dos, IF o.channel THEN BindChannels(o) ELSE CreatePermissions(o))

(* Two clients of the tool talk to each other's relayed addresses.         *)
ConnectBoth(o) ==
  << clnet_connect("probe"), AllocateProbe, rare_event, clnet_connect("c1") >>
  \o When(o.rtcp, <<clnet_connect("c1r")>>) \o <<clnet_connect("c2")>>
  \o When(o.rtcp, <<clnet_connect("c2r")>>)
  \o <<allocate("c1"), rare_event>>
  \o When(o.rtcp, <<allocate("c1r"), rare_event>>)
  \o When(~o.passive, <<allocate("c2"), rare_event>>)
  \o When(o.rtcp, <<allocate("c2r"), rare_event>>)

BindBoth(o) ==
  <<bind("c1", RelayOf("c2"))>> \o When(o.extra, <<BindSpare("c1"), PermitSpare("c1")>>)
  \o <<rare_event>> \o When(o.rtcp, <<bind("c1r", RelayOf("c2r"))>>)
  \o <<rare_event, bind("c2", RelayOf("c1")), rare_event>>
  \o When(o.rtcp, <<bind("c2r", RelayOf("c1r"))>>) \o <<rare_event>>

PermitBoth(o) ==
  <<permit("c1", RelayOf("c2"))>> \o When(o.extra, <<PermitSpare("c1")>>)
  \o <<rare_event>> \o When(o.rtcp, <<permit("c1r", RelayOf("c2r"))>>) \o <<rare_event>>
  \o When(~o.passive, <<permit("c2", RelayOf("c1")), rare_event>>)
  \o When(o.rtcp, <<permit("c2r", RelayOf("c1r"))>>) \o <<rare_event>>

start_c2c_connection(o) ==
  ConnectBoth(o) \o IF o.channel THEN BindBoth(o) ELSE PermitBoth(o)

(* One round of start_allocation_flood: allocate, permit, release at once. *)
start_allocation_flood ==
  << clnet_connect("rtp"), allocate("rtp"), permit("rtp", UcOther),
     CallOf("release", "rtp", UcPeer, FALSE) >>

UcProgram(o) ==
  IF o.flood THEN start_allocation_flood
  ELSE IF o.c2c THEN start_c2c_connection(o) ELSE start_connection(o)

(* The sessions that start_client and start_c2c make ready.                *)
UcSessions(o) ==
  (IF o.c2c THEN {"c1", "c2"} ELSE {"rtp"})
  \union (IF o.rtcp THEN (IF o.c2c THEN {"c1r", "c2r"} ELSE {"rtcp"}) ELSE {})
-----------------------------------------------------------------------------
(* The request exchange *)

NoReq == [tid |-> 0, chn |-> 0]
UcCall == ucl.prog[ucl.pc]
FdOf(c, s) == <<s, c.gen[s], c.remote[s]>>
PeerAddress(c, p) == IF p[1] \in UcSock THEN c.relay[p[1]] ELSE p

(* add_integrity: the request is signed once the server sent a nonce.      *)
add_integrity(c, q) == q @@ [nonce |-> c.nonce[q.fd[1]]]

(* stun_init_request draws a transaction id; "even" asks for an even port  *)
(* and a reservation, "token" presents the last reservation.  Allocations  *)
(* of a run with RTCP present and ask alternately.                         *)
UcRequest(c, method, chn) ==
  LET k == c.prog[c.pc]
  IN add_integrity(c,
       [tid |-> c.tid + 1, fd |-> FdOf(c, k.s), method |-> method,
        p |-> PeerAddress(c, k.p), chn |-> chn,
        even |-> uopt.rtcp /\ ~c.allocate_rtcp,
        token |-> IF uopt.rtcp /\ c.allocate_rtcp THEN c.token ELSE 0,
        released |-> k.kind = "release"])

(* A call returns: 0, or -1, upon which most callers leave the program.    *)
UcReturned(c, good) ==
  LET k == c.prog[c.pc]
  IN IF ~good /\ k.must THEN [c EXCEPT !.state = "exit", !.wait = FALSE]
     ELSE [c EXCEPT !.pc = @ + 1, !.wait = FALSE, !.af = 0, !.req = NoReq,
                    !.released = IF k.kind = "release" THEN good ELSE @]
UcExited(c) == [c EXCEPT !.state = "exit", !.wait = FALSE]

(* send_buffer: the request goes out, then its answer is awaited; with -O  *)
(* (dos) the answer may be left unread.  A step yields the client after it *)
(* and what it sent.                                                       *)
Packet(to, m) == [to |-> to, m |-> m]
Quiet(c) == {[c |-> c, out |-> {}]}
send_buffer(c, q) ==
  LET sent == [c EXCEPT !.req = q, !.tid = q.tid, !.cycle = 0, !.wait = TRUE]
      ends == IF uopt.dos /\ ~q.released THEN {sent, UcReturned(sent, TRUE)} ELSE {sent}
  IN {[c |-> e, out |-> {Packet("server", q)}] : e \in ends}
Again(c, method) == send_buffer(c, UcRequest(c, method, c.req.chn))

(* turn_channel_bind draws a channel number unless it has one.             *)
turn_channel_bind(c, k) ==
  UNION {send_buffer(IF k.spare THEN c ELSE [c EXCEPT !.chn[k.s] = n],
                     UcRequest(c, "bind", n)) :
           n \in IF k.anew \/ c.chn[k.s] = 0 THEN UcChannel ELSE {c.chn[k.s]}}
turn_create_permission(c) ==
  IF uopt.perms THEN send_buffer(c, UcRequest(c, "permit", 0)) ELSE Quiet(UcReturned(c, TRUE))
clnet_allocate(c) == send_buffer([c EXCEPT !.af = 1], UcRequest(c, "allocate", 0))
turn_refresh_allocation(c) == send_buffer(c, UcRequest(c, "refresh", 0))

MayCall == ucl.state = "run" /\ ~ucl.wait /\ ucl.pc <= Len(ucl.prog)
UcBegin ==
  /\ MayCall
  /\ \E r \in CASE UcCall.kind = "allocate" -> clnet_allocate(ucl)
              [] UcCall.kind = "bind" -> turn_channel_bind(ucl, UcCall)
              [] UcCall.kind = "permit" -> turn_create_permission(ucl)
              [] UcCall.kind = "release" -> turn_refresh_allocation(ucl)
              [] OTHER -> {} :
       ucl' = r.c /\ unet' = unet \union r.out
  /\ UNCHANGED <<uopt, usrv, uleft>>

(* Opening a socket may fail; the connection is retried while the local    *)
(* address is in use, which leaves nothing behind that is modelled here.   *)
UcConnect ==
  /\ MayCall /\ UcCall.kind = "connect"
  /\ \/ /\ ucl' = [UcReturned(ucl, TRUE) EXCEPT
                     !.gen[UcCall.s] = @ + 1, !.remote[UcCall.s] = ucl.server,
                     !.relay[UcCall.s] = IF UcCall.s = "c2" /\ uopt.passive
                                      THEN <<"c2", 1>> ELSE @]
        /\ UNCHANGED uleft
     \/ /\ uleft.broken > 0
        /\ uleft' = [uleft EXCEPT !.broken = @ - 1]
        /\ ucl' = UcReturned(ucl, FALSE)
  /\ UNCHANGED <<uopt, unet, usrv>>

RareEvent ==
  /\ MayCall /\ UcCall.kind = "rare"
  /\ \/ ucl' = [ucl EXCEPT !.pc = @ + 1]
     \/ uopt.dos /\ ucl' = [ucl EXCEPT !.pc = Len(ucl.prog) + 1]
  /\ UNCHANGED <<uopt, unet, usrv, uleft>>

(* start_client, start_c2c: the sessions become ready.                     *)
SetUpDone ==
  /\ ucl.state = "run" /\ ucl.pc > Len(ucl.prog)
  /\ ucl' = [ucl EXCEPT !.state = "ready"]
  /\ UNCHANGED <<uopt, unet, usrv, uleft>>
-----------------------------------------------------------------------------
(* Answers *)

(* clnet_allocate, an answer to ALLOCATE: success goes on to REFRESH; a    *)
(* challenge asks again; 437 asks again from another socket (UDP); 300     *)
(* names the server that the sessions use when the probe gets it.          *)
AllocateAnswer(c, m) ==
  LET s == m.fd[1]
      got == [c EXCEPT !.token = m.token, !.relay[s] = m.relay]
      next == [c EXCEPT !.af = @ + 1]
  IN CASE m.code = "ok" ->
            Again([got EXCEPT !.allocate_rtcp = ~@, !.af = 1], "refresh")
            \union (IF uopt.dos THEN Quiet(UcReturned(got, TRUE)) ELSE {})
       [] m.code \in {"challenge", "437"} /\ c.af >= MaxAf ->
            Quiet(UcExited(c)) \union (IF uopt.dos THEN Quiet(UcReturned(c, TRUE)) ELSE {})
       [] m.code = "challenge" ->
            Again([next EXCEPT !.nonce[s] = m.nonce], "allocate")
       [] m.code = "437" ->
            Again(IF uopt.tcp THEN next ELSE [next EXCEPT !.gen[s] = @ + 1], "allocate")
       [] OTHER ->
            Quiet(UcReturned([c EXCEPT !.token = 0,
                              !.server = IF m.code = "300" /\ s = "probe"
                                         THEN "s2" ELSE @], FALSE))

(* ... an answer to the REFRESH that follows.                              *)
RefreshAnswer(c, m) ==
  CASE m.code = "challenge" /\ c.af > MaxAf -> Quiet(UcExited(c))
    [] m.code = "challenge" ->
         Again([c EXCEPT !.af = @ + 1, !.nonce[m.fd[1]] = m.nonce], "refresh")
    [] OTHER -> Quiet(UcReturned(c, m.code = "ok"))

(* turn_channel_bind, turn_create_permission, turn_refresh_allocation.     *)
OtherAnswer(c, m) ==
  IF m.code = "challenge"
  THEN Again([c EXCEPT !.nonce[m.fd[1]] = m.nonce], m.method)
  ELSE Quiet(UcReturned(c, m.code = "ok"))

Answer(c, m) ==
  IF m.method = "allocate" THEN AllocateAnswer(c, m)
  ELSE IF m.method = "refresh" /\ ~c.req.released
  THEN RefreshAnswer(c, m) ELSE OtherAnswer(c, m)

(* recv_buffer compares method and transaction with the request's, and     *)
(* waits on, from the first cycle, after anything else.                    *)
AnswersAny(q, m) == q.method = m.method
AnswersRequest(q, m) == q.method = m.method /\ q.tid = m.tid
UcReceive ==
  /\ ucl.wait
  /\ \E p \in unet :
       /\ p.to = "client" /\ p.m.fd = ucl.req.fd
       /\ \E r \in IF AnswersRequest(ucl.req, p.m) THEN Answer(ucl, p.m)
                   ELSE Quiet([ucl EXCEPT !.cycle = 0]) :
            ucl' = r.c /\ unet' = (unet \ {p}) \union r.out
  /\ UNCHANGED <<uopt, usrv, uleft>>

(* wait_fd ran out: over UDP the same request is sent again, up to         *)
(* MAX_LISTENING_CYCLE_NUMBER times, after which recv blocks.  A socket    *)
(* number beyond FD_SETSIZE is not waited for.  "early": an answer is      *)
(* still on its way.                                                       *)
OnItsWay == \E p \in unet : p.m.tid = ucl.req.tid
NeverResend == FALSE
MayResend == ~uopt.tcp /\ ~uopt.bigfd /\ ucl.cycle < MaxCycle
UcTimeout ==
  /\ ucl.wait /\ MayResend
  /\ IF OnItsWay
     THEN uleft.early > 0 /\ uleft' = [uleft EXCEPT !.early = @ - 1]
     ELSE UNCHANGED uleft
  /\ unet' = unet \union {Packet("server", ucl.req)}
  /\ ucl' = [ucl EXCEPT !.cycle = @ + 1]
  /\ UNCHANGED <<uopt, usrv>>

(* recv or send fails: the tool exits, except where it releases.           *)
UcSocketError ==
  /\ ucl.wait /\ uleft.broken > 0
  /\ ucl' = IF ucl.req.released THEN UcReturned(ucl, FALSE) ELSE UcExited(ucl)
  /\ uleft' = [uleft EXCEPT !.broken = @ - 1]
  /\ UNCHANGED <<uopt, unet, usrv>>
-----------------------------------------------------------------------------
(* The network and the server *)

UcLose ==
  /\ ~uopt.tcp /\ uleft.lost > 0
  /\ \E p \in unet : unet' = unet \ {p}
  /\ uleft' = [uleft EXCEPT !.lost = @ - 1]
  /\ UNCHANGED <<uopt, ucl, usrv>>

NewSession(fd) == [alloc |-> 0, nonce |-> 10 * fd[2] + 1, token |-> 0, chan |-> {}, perm |-> {}]
HeldAt(fd) == IF fd \in DOMAIN usrv.ses THEN usrv.ses[fd] ELSE NewSession(fd)
ChannelTaken(s, q) == \E b \in s.chan : (b[1] = q.chn) # (b[2] = q.p)

ServerCode(s, q) ==
  CASE q.method = "allocate" /\ uopt.redirect /\ q.fd[3] = "s1" -> "300"
    [] q.method = "allocate" /\ s.alloc \notin {0, q.tid} -> "437"
    [] q.nonce # s.nonce -> "challenge"
    [] q.method # "allocate" /\ s.alloc = 0 -> "437"
    [] q.method = "allocate" /\ s.alloc = 0
         /\ q.token # 0 /\ q.token \notin usrv.reserved -> "508"
    [] q.method = "bind" /\ ChannelTaken(s, q) -> "400"
    [] OTHER -> "ok"

ServerState(s, q) ==
  CASE q.method = "allocate" /\ s.alloc = 0 ->
         [s EXCEPT !.alloc = q.tid, !.token = IF q.even THEN usrv.last + 1 ELSE 0]
    [] q.released -> [NewSession(q.fd) EXCEPT !.nonce = s.nonce + 1]
    [] q.method = "bind" ->
         [s EXCEPT !.chan = @ \union {<<q.chn, q.p>>}, !.perm = @ \union {q.p}]
    [] q.method = "permit" -> [s EXCEPT !.perm = @ \union {q.p}]
    [] OTHER -> s

UcServe ==
  \E p \in unet :
    /\ p.to = "server"
    /\ LET q == p.m
           s == HeldAt(q.fd)
           code == ServerCode(s, q)
           s1 == IF code = "ok" THEN ServerState(s, q) ELSE s
           made == s1.alloc # s.alloc /\ s1.alloc # 0
       IN /\ unet' = (unet \ {p}) \union
                {Packet("client", [fd |-> q.fd, tid |-> q.tid, method |-> q.method,
                                   code |-> code, nonce |-> s.nonce,
                                   token |-> s1.token, relay |-> <<q.fd[1], q.fd[2]>>])}
          /\ usrv' = [ses |-> (q.fd :> s1) @@ usrv.ses,
                      last |-> IF made /\ q.even THEN usrv.last + 1 ELSE usrv.last,
                      reserved |-> IF made
                                   THEN (usrv.reserved \ {q.token})
                                        \union (IF q.even THEN {usrv.last + 1} ELSE {})
                                   ELSE usrv.reserved]
    /\ UNCHANGED <<uopt, ucl, uleft>>

UcNonceExpires ==
  /\ uleft.stale > 0
  /\ \E fd \in DOMAIN usrv.ses : usrv' = [usrv EXCEPT !.ses[fd].nonce = @ + 1]
  /\ uleft' = [uleft EXCEPT !.stale = @ - 1]
  /\ UNCHANGED <<uopt, ucl, unet>>
-----------------------------------------------------------------------------
UcInit ==
  /\ \E a \in UcCommand : Accepted(a) /\ uopt = main(a) /\ uleft = a.faults
  /\ ucl = [prog |-> UcProgram(uopt), pc |-> 1, state |-> "run", wait |-> FALSE,
            req |-> NoReq, tid |-> 0, cycle |-> 0, af |-> 0,
            gen |-> [s \in UcSock |-> 0], remote |-> [s \in UcSock |-> "s1"],
            nonce |-> [s \in UcSock |-> 0], chn |-> [s \in UcSock |-> 0],
            relay |-> [s \in UcSock |-> RelayOf(s)], server |-> "s1",
            token |-> 0, allocate_rtcp |-> FALSE, released |-> FALSE]
  /\ unet = {}
  /\ usrv = [ses |-> [fd \in {} |-> {}], last |-> 0, reserved |-> {}]

UcClient == UcBegin \/ UcConnect \/ RareEvent \/ SetUpDone \/ UcReceive \/ UcTimeout
UcNext ==
  UcClient \/ UcSocketError \/ UcLose \/ UcServe \/ UcNonceExpires
UcFairness == WF_UcVars(UcClient) /\ WF_UcVars(UcServe)
UcSpec == UcInit /\ [][UcNext]_UcVars /\ UcFairness
-----------------------------------------------------------------------------
(* When the set-up code made its sessions ready, the server holds what the *)
(* client will use: the allocation of every session's own socket and the   *)
(* channel (or the permission) to that session's peer; and a release that  *)
(* turn_refresh_allocation reports as done left no allocation behind.      *)
PeerOf(s) ==
  CASE s = "rtp" -> UcPeer [] s = "rtcp" -> UcPeerRtcp
    [] s = "c1" -> ucl.relay["c2"] [] s = "c2" -> ucl.relay["c1"]
    [] s = "c1r" -> ucl.relay["c2r"] [] s = "c2r" -> ucl.relay["c1r"]
SetUpAtServer ==
  ucl.state = "ready" /\ ~uopt.dos =>
    IF uopt.flood
    THEN ucl.released => HeldAt(FdOf(ucl, "rtp")).alloc = 0
    ELSE \A s \in UcSessions(uopt) \ (IF uopt.passive THEN {"c2"} ELSE {}) :
           LET held == HeldAt(FdOf(ucl, s))
           IN /\ held.alloc # 0
              /\ uopt.channel => <<ucl.chn[s], PeerOf(s)>> \in held.chan
              /\ uopt.perms => PeerOf(s) \in held.perm

(* Losses fewer than the retransmissions of recv_buffer do not hang the    *)
(* set-up: it ends, with ready sessions or with the exit of the tool.      *)
SetUpEnds == ucl.pc > 1 \/ ucl.tid > 0 ~> ucl.state # "run"
=============================================================================
