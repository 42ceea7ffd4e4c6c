---------------------------- MODULE NatDiscovery ----------------------------
(***************************************************************************)
(* NAT behaviour discovery (RFC 5780): the binding handler of the server   *)
(* (ns_turn_server.c, netengine.c), the programs turnutils_natdiscovery    *)
(* and turnutils_stunclient, and between them a NAT and a network that     *)
(* loses and delays datagrams.                                             *)
(*                                                                         *)
(* The programs never compare transaction ids, so an answer that comes     *)
(* after its timeout is taken for the answer to the next request.          *)
(***************************************************************************)
EXTENDS Integers, Sequences, FiniteSets

CONSTANTS
  NatKind,      \* NATs: [mapping, filtering, hairpin]
  StunService,  \* servers: [rfc5780, addrs: sequence of [ip, fam]]
  Probe         \* single requests of other clients

VARIABLES
  nat,      \* the NAT in front of the program
  srv,      \* the server
  tool,     \* the running program: its variables and the test it is at
  wire,     \* datagrams on the public side of the NAT
  inbox,    \* datagrams received by the sockets of the program, by local port
  mapped,   \* the NAT's mappings: mapping key -> public port
  reached,  \* <<key, address>>: destinations each mapping has sent to
  fault     \* the network has lost or delayed a datagram

NatVars == <<nat, srv, tool, wire, inbox, mapped, reached, fault>>

Addr(ip, port) == [ip |-> ip, port |-> port]
AddrAny == Addr("any", 0)

-----------------------------------------------------------------------------
(* The server.  Listener addresses are enumerated by srv.addrs; every one  *)
(* has a service on the listener port 1 and on the alternative port 2.     *)

SameFamily(ip) ==
  LET fam == (CHOOSE a \in {srv.addrs[i] : i \in DOMAIN srv.addrs} : a.ip = ip).fam
  IN  {i \in DOMAIN srv.addrs : srv.addrs[i].fam = fam}

(* Mutant: the alternative address keeps the port. *)
AltKeepsPort(a) == Addr("S1", a.port)

(* get_alt_addr: the search starts after the first address of the family,  *)
(* whichever address the request came to.                                  *)
get_alt_addr(a) ==
  LET n     == Len(srv.addrs)
      index == CHOOSE i \in SameFamily(a.ip) : \A j \in SameFamily(a.ip) : i <= j
      At(i) == ((index + i - 1) % n) + 1
      next  == CHOOSE i \in 1..n : At(i) \in SameFamily(a.ip)
                                     /\ \A j \in 1..(i - 1) : At(j) \notin SameFamily(a.ip)
  IN  Addr(srv.addrs[At(next)].ip, 3 - a.port)

(* handle_turn_binding, the attributes: RESPONSE-PORT comes before PADDING *)
(* in every request, so the pair is refused when PADDING is read.          *)
BindingError(q) ==
  IF q.unknown THEN "420"
  ELSE IF q.st # "udp" /\ q.rport # 0 THEN "400"
  ELSE IF (q.cip \/ q.cport) /\ ~srv.rfc5780 THEN "420"
  ELSE IF (q.cip \/ q.cport) /\ q.st # "udp" THEN "400"
  ELSE IF q.padding /\ (q.rport # 0 \/ q.st \notin {"udp", "dtls"}) THEN "400"
  ELSE "none"

ResponseOrigin(q, at) ==
  LET other == get_alt_addr(at)
  IN  Addr(IF q.cip THEN other.ip ELSE at.ip, IF q.cport THEN other.port ELSE at.port)

(* The answer to request q that came from address "from" to address "at".  *)
handle_turn_binding(q, from, at) ==
  IF BindingError(q) # "none"
  THEN {[from |-> at, to |-> from, kind |-> "error", mapped |-> AddrAny, other |-> AddrAny]}
  ELSE IF ~srv.rfc5780
  THEN {[from |-> at, to |-> from, kind |-> "success", mapped |-> from, other |-> AddrAny]}
  ELSE {[from |-> ResponseOrigin(q, at),
         to |-> IF q.rport # 0 THEN Addr(from.ip, q.rport) ELSE from,
         kind |-> "success", mapped |-> from, other |-> get_alt_addr(at)]}

(* handle_old_stun_command: a request without the magic cookie. *)
handle_old_stun_command(q, from, at) ==
  IF q.method # "binding" THEN {} ELSE handle_turn_binding(q, from, at)

(* listener_receive_message: an answer whose origin is not the address     *)
(* the request came to is sent by the listener that owns the origin.       *)
Services == {Addr(srv.addrs[i].ip, p) : i \in DOMAIN srv.addrs,
                                        p \in (IF srv.rfc5780 THEN {1, 2} ELSE {1})}
listener_receive_message(r) == {x \in r : x.from \in Services}

ServerAnswer(q, from, at) ==
  listener_receive_message(IF q.old THEN handle_old_stun_command(q, from, at)
                                    ELSE handle_turn_binding(q, from, at))

-----------------------------------------------------------------------------
(* The NAT (external): what it translates and what it lets in.             *)

MapKey(src, dst) ==
  [src |-> src, ip |-> IF nat.mapping \in {"ad", "apd"} THEN dst.ip ELSE "",
   port |-> IF nat.mapping = "apd" THEN dst.port ELSE 0]

PublicPort(map, k) == IF k \in DOMAIN map THEN map[k] ELSE 10 + Cardinality(DOMAIN map)
Public(src, dst) ==
  IF nat.mapping = "none" THEN Addr("L", src) ELSE Addr("N", PublicPort(mapped, MapKey(src, dst)))

LetsIn(k, src) ==
  \/ nat.filtering = "ei"
  \/ nat.filtering = "ad" /\ \E r \in reached : r[1] = k /\ r[2].ip = src.ip
  \/ nat.filtering = "apd" /\ <<k, src>> \in reached

(* The local ports datagram x reaches. *)
Inbound(x) ==
  IF nat.mapping = "none" THEN {x.to.port}
  ELSE {k.src : k \in {k \in DOMAIN mapped : mapped[k] = x.to.port /\ LetsIn(k, x.from)}}

-----------------------------------------------------------------------------
(* The programs.  tool.test names the request that runs; tool.sock is the  *)
(* local port of the socket (udp_fd is 1, udp_fd2 is 2, an alternative     *)
(* address of the collision test is 3).                                    *)

Plain == [cip |-> FALSE, cport |-> FALSE, padding |-> FALSE, rport |-> 0,
          st |-> "udp", unknown |-> FALSE, old |-> FALSE, method |-> "binding"]

Programs == {"mapping", "filtering", "hairpinning", "lifetime", "collision", "stunclient", "probe"}

NatInit ==
  /\ nat \in NatKind /\ srv \in StunService
  /\ \E p \in Programs, i \in DOMAIN srv.addrs, pr \in Probe, force \in BOOLEAN :
       tool = [prog |-> p, force |-> force /\ p = "stunclient", test |-> 1, at |-> "send", sock |-> 1, q |-> IF p = "probe" THEN pr ELSE Plain,
               remote |-> Addr(srv.addrs[i].ip, 1), first |-> srv.addrs[i].ip,
               reflexive |-> AddrAny, other |-> AddrAny, tmp |-> AddrAny,
               rfc |-> FALSE, verdict |-> "none"]
  /\ wire = {} /\ inbox = [s \in 1..3 |-> <<>>] /\ mapped = <<>> /\ reached = {} /\ fault = FALSE

(* The socket on which the answer is awaited: the first one of a two-socket *)
(* run, the one bound to the response port of stunclient.                  *)
AwaitedOn(t) ==
  IF t.test = 2 /\ t.prog \in {"hairpinning", "lifetime"} THEN 1
  ELSE IF t.test = 2 /\ t.prog = "stunclient" THEN 2 ELSE t.sock

(* stunclient_send *)
NatSend ==
  LET k    == MapKey(tool.sock, tool.remote)
      from == Public(tool.sock, tool.remote)
  IN  /\ tool.at = "send"
      /\ wire' = wire \cup {[from |-> from, to |-> tool.remote, kind |-> "request", q |-> tool.q]}
      /\ mapped' = [j \in DOMAIN mapped \cup {k} |-> PublicPort(mapped, j)]
      /\ reached' = reached \cup {<<k, tool.remote>>}
      /\ tool' = [tool EXCEPT !.at = "receive", !.sock = AwaitedOn(tool)]
      /\ UNCHANGED <<nat, srv, inbox, fault>>

(* The sockets that outlive a test: those of a two-socket run, and the     *)
(* static socket of stunclient.                                            *)
Keeps(t) == t.prog \in {"hairpinning", "lifetime", "stunclient"}

(* What stunclient_receive leaves in the variables, message x read; the    *)
(* request of a hairpin leaves them alone.                                 *)
stunclient_receive(t, x) ==
  IF x.kind # "success" THEN t
  ELSE [t EXCEPT !.reflexive = x.mapped, !.rfc = @ \/ x.other # AddrAny,
                 !.other = IF x.other # AddrAny THEN x.other ELSE @]

StopWith(t, v)  == [t EXCEPT !.at = "done", !.verdict = v]
TestWith(t, n, q) == [t EXCEPT !.at = "send", !.test = n, !.q = q]

(* main, mapping *)
MappingStep(t) ==
  IF t.test = 1 THEN
    IF t.rfc /\ t.other # AddrAny
    THEN TestWith([t EXCEPT !.tmp = t.reflexive, !.remote = Addr(t.other.ip, 1)], 2, Plain)
    ELSE StopWith(t, "none")
  ELSE IF t.test = 2 THEN
    IF t.tmp = t.reflexive THEN StopWith(t, "ei")
    ELSE TestWith([t EXCEPT !.tmp = t.reflexive, !.remote = t.other], 3, Plain)
  ELSE StopWith(t, IF t.tmp = t.reflexive THEN "ad" ELSE "apd")

(* main, filtering *)
FilteringStep(t, res) ==
  IF t.test = 1 THEN
    IF t.rfc /\ t.other # AddrAny
    THEN TestWith(t, 2, [Plain EXCEPT !.cip = TRUE, !.cport = TRUE])
    ELSE StopWith(t, "none")
  ELSE IF res = 0 THEN StopWith(t, IF t.test = 2 THEN "ei" ELSE "ad")
  ELSE IF t.test = 2 THEN TestWith(t, 3, [Plain EXCEPT !.cport = TRUE])
  ELSE StopWith(t, "apd")

(* run_stunclient_hairpinning: the second request goes to the own          *)
(* reflexive address and is awaited on the first socket, then on its own.  *)
HairpinStep(t, res) ==
  IF t.test = 1 THEN
    IF t.reflexive = AddrAny THEN StopWith(t, "none")
    ELSE TestWith([t EXCEPT !.sock = 2, !.remote = t.reflexive], 2, Plain)
  ELSE IF t.test = 2 /\ res # 0 THEN [t EXCEPT !.test = 3, !.sock = 2]
  ELSE StopWith(t, IF res = 0 THEN "back" ELSE "lost")

(* run_stunclient_lifetime: after the sleep another socket asks for an     *)
(* answer to the port the first one had.                                   *)
LifetimeStep(t, res) ==
  IF t.test = 1 THEN [TestWith([t EXCEPT !.sock = 2], 2, [Plain EXCEPT !.rport = t.reflexive.port]) EXCEPT !.at = "sleep"]
  ELSE StopWith(t, IF res = 0 THEN "alive" ELSE "lost")

(* main, collision *)
CollisionStep(t) ==
  IF t.test = 1 THEN TestWith([t EXCEPT !.sock = 3], 2, Plain) ELSE StopWith(t, "none")

(* main of stunclient *)
StunclientStep(t, res) ==
  IF t.test = 1 /\ res = 0 /\ (t.rfc \/ t.force)
  THEN TestWith(t, 2, [Plain EXCEPT !.cip = TRUE, !.cport = TRUE, !.rport = 2])
  ELSE IF t.test = 2 THEN TestWith(t, 3, [Plain EXCEPT !.cip = TRUE, !.cport = TRUE, !.padding = TRUE])
  ELSE StopWith(t, "none")

AfterTest(t, res) ==
  IF t.prog = "mapping" THEN MappingStep(t)
  ELSE IF t.prog = "filtering" THEN FilteringStep(t, res)
  ELSE IF t.prog = "hairpinning" THEN HairpinStep(t, res)
  ELSE IF t.prog = "lifetime" THEN LifetimeStep(t, res)
  ELSE IF t.prog = "collision" THEN CollisionStep(t)
  ELSE IF t.prog = "stunclient" THEN StunclientStep(t, res)
  ELSE StopWith(t, "none")

NatReceive ==
  /\ tool.at = "receive" /\ inbox[tool.sock] # <<>>
  /\ tool' = AfterTest(stunclient_receive(tool, Head(inbox[tool.sock])), 0)
  /\ inbox' = IF Keeps(tool) THEN [inbox EXCEPT ![tool.sock] = Tail(@)] ELSE [s \in 1..3 |-> <<>>]
  /\ UNCHANGED <<nat, srv, wire, mapped, reached, fault>>

(* The three seconds of SO_RCVTIMEO; a datagram still on the wire is late. *)
NatTimeout ==
  /\ tool.at = "receive" /\ inbox[tool.sock] = <<>>
  /\ tool' = AfterTest(tool, 1)
  /\ fault' = (fault \/ wire # {})
  /\ UNCHANGED <<nat, srv, wire, inbox, mapped, reached>>

(* sleep(timer) of the lifetime test: the NAT may drop its mappings. *)
NatSleep ==
  /\ tool.at = "sleep"
  /\ tool' = [tool EXCEPT !.at = "send"]
  /\ \/ UNCHANGED <<mapped, reached>>
     \/ /\ nat.mapping # "none"
        /\ mapped' = [k \in {[src |-> 0, ip |-> "", port |-> 0]} |-> 9] /\ reached' = {}
  /\ UNCHANGED <<nat, srv, wire, inbox, fault>>

-----------------------------------------------------------------------------
(* The network (external) *)

(* A request reaches the server, which answers it. *)
NatServe ==
  \E x \in wire :
    /\ x.kind = "request" /\ x.to \in Services
    /\ wire' = (wire \ {x}) \cup ServerAnswer(x.q, x.from, x.to)
    /\ UNCHANGED <<nat, srv, tool, inbox, mapped, reached, fault>>

(* A datagram reaches the NAT from outside, or from inside when it goes    *)
(* to the NAT's own address; it is delivered or dropped.                   *)
NatDeliver ==
  \E x \in wire :
    LET hairpin == x.kind = "request"
        to == IF hairpin /\ ~nat.hairpin THEN {} ELSE Inbound(x)
    IN  /\ x.to \notin Services
        /\ wire' = wire \ {x}
        /\ inbox' = [s \in 1..3 |-> IF s \in to /\ (tool.at = "receive" \/ Keeps(tool)) THEN Append(inbox[s], x) ELSE inbox[s]]
        /\ UNCHANGED <<nat, srv, tool, mapped, reached, fault>>

NatLose ==
  \E x \in wire :
    /\ wire' = wire \ {x} /\ fault' = TRUE
    /\ UNCHANGED <<nat, srv, tool, inbox, mapped, reached>>

NatDone == tool.at = "done" /\ UNCHANGED NatVars

NatNext == NatSend \/ NatReceive \/ NatTimeout \/ NatSleep \/ NatServe \/ NatDeliver \/ NatLose \/ NatDone
NatSpec == NatInit /\ [][NatNext]_NatVars

-----------------------------------------------------------------------------
Rank(b) == IF b = "ei" THEN 0 ELSE IF b = "ad" THEN 1 ELSE 2

(* The server has two addresses of the family and the program was given    *)
(* the first of them: get_alt_addr then names a different address.         *)
TwoAddresses == get_alt_addr(Addr(tool.first, 1)).ip # tool.first

(* Property: a verdict of the filtering discovery is never more permissive *)
(* than the NAT, whatever is lost or late, and it is exactly the NAT's     *)
(* behaviour when nothing was; so is the verdict of the mapping discovery. *)
(* "Alive" and "back" are only reported while the mapping exists and the   *)
(* NAT hairpins.                                                           *)
VerdictTrue ==
  (tool.verdict # "none" /\ nat.mapping # "none" /\ TwoAddresses) =>
    CASE tool.prog = "filtering" ->
           /\ Rank(tool.verdict) >= Rank(nat.filtering)
           /\ ~fault => tool.verdict = nat.filtering
      [] tool.prog = "mapping" -> ~fault => tool.verdict = nat.mapping
      [] tool.prog = "hairpinning" -> ~fault => (tool.verdict = "back" => nat.hairpin)
      [] tool.prog = "lifetime" -> ~fault => (tool.verdict = "alive" => \E k \in DOMAIN mapped : k.src = 1)
      [] OTHER -> TRUE
=============================================================================
