---------------------------- MODULE RelaySockets ----------------------------
(***************************************************************************)
(* The UDP relay sockets of one relay address: how an Allocate request     *)
(* gets its socket (create_relay_ioa_sockets), how EVEN-PORT reserves the  *)
(* next port for a later RESERVATION-TOKEN (ns_turn_maps_rtcp.c), and how  *)
(* the ports go back to the pool.                                          *)
(*                                                                         *)
(* Requests run in different relay threads.  They share the port pool and  *)
(* the reservation map, each behind its mutex; every step between two of   *)
(* those locked calls is an action here.  The pool is the abstract one of  *)
(* PortPool, which TurnPorts implements: taken is the set of held ports.   *)
(* The request's answer carries no reservation when token[r] = NoToken.    *)
(***************************************************************************)
EXTENDS Integers, FiniteSets

CONSTANTS
  Request,    \* the sessions that ask for a relay socket
  Port,       \* the ports between --min-port and --max-port
  EvenPort,   \* the EVEN-PORT values clients send: -1 (none), 0, 1
  Token,      \* reservation tokens: positive numbers, given out in order
  MaxDel      \* MAX_TOKEN_DEL

NoPort == -1
NoToken == 0

ASSUME RelayAssumption ==
  /\ Port \subseteq Nat
  /\ EvenPort \subseteq {-1, 0, 1}
  /\ Token \subseteq Nat \ {0}
  /\ MaxDel \in Nat \ {0}

VARIABLES
  taken,    \* the ports the pool has handed out
  pc,       \* where the request is in create_relay_ioa_sockets
  even,     \* its even_port argument
  port,     \* the port it is working with, or that of its relay socket
  todo,     \* the ports its error path has still to release
  after,    \* where the error path leads: "choose" (next port) or "idle" (508)
  token,    \* the RESERVATION-TOKEN of its answer
  used,     \* the tokens made up so far
  resv,     \* the reservation map: the port of the socket of each token
  old,      \* the tokens whose RTCP_TIMEOUT has passed
  doomed    \* the tokens rtcp_map_timeout_handler has still to delete

request == <<pc, even, port, todo, after, token>>
token_map == <<used, resv, old, doomed>>
RsVars == <<taken, request, token_map>>

RsInit ==
  /\ taken = {}
  /\ pc = [r \in Request |-> "idle"]
  /\ even = [r \in Request |-> -1]
  /\ port = [r \in Request |-> NoPort]
  /\ todo = [r \in Request |-> {}]
  /\ after = [r \in Request |-> "idle"]
  /\ token = [r \in Request |-> NoToken]
  /\ used = {}
  /\ resv = [t \in Token |-> NoPort]
  /\ old = {}
  /\ doomed = {}

Goto(r, l) == pc' = [pc EXCEPT ![r] = l]

-----------------------------------------------------------------------------
(* create_relay_ioa_sockets *)

(* create_relay_connection without a reservation token *)
Start(r, e) ==
  /\ pc[r] = "idle"
  /\ Goto(r, "choose")
  /\ even' = [even EXCEPT ![r] = e]
  /\ UNCHANGED <<taken, port, todo, after, token, token_map>>

(* turnipports_allocate *)
ChoosePort(r, p) ==
  /\ pc[r] = "choose" /\ even[r] = -1
  /\ p \notin taken
  /\ taken' = taken \cup {p}
  /\ port' = [port EXCEPT ![r] = p]
  /\ Goto(r, "rtp")
  /\ UNCHANGED <<even, todo, after, token, token_map>>

Pair(p) == p % 2 = 0 /\ p + 1 \in Port /\ {p, p + 1} \cap taken = {}

(* turnipports_allocate_even; only even_port > 0 opens the second socket *)
ChoosePair(r, p) ==
  /\ pc[r] = "choose" /\ even[r] >= 0
  /\ Pair(p)
  /\ taken' = taken \cup {p, p + 1}
  /\ port' = [port EXCEPT ![r] = p]
  /\ Goto(r, IF even[r] = 1 THEN "rtcp" ELSE "rtp")
  /\ UNCHANGED <<even, todo, after, token, token_map>>

(* No port is left: 508. *)
ChooseNone(r) ==
  /\ pc[r] = "choose"
  /\ IF even[r] = -1 THEN Port \subseteq taken ELSE \A p \in Port : ~Pair(p)
  /\ Goto(r, "idle")
  /\ even' = [even EXCEPT ![r] = -1]
  /\ UNCHANGED <<taken, port, todo, after, token, token_map>>

(* The numbers and sockets the error paths give back: the odd port only if *)
(* there is an RTCP socket or a number for one (even_port > 0).            *)
Sockets(r) == IF even[r] = 1 THEN {port[r], port[r] + 1} ELSE {port[r]}

(* socket(2) fails: the request is refused (508).  bind(2) fails: the next *)
(* port is tried.                                                          *)
Fails(r, l, where) ==
  /\ pc[r] = l
  /\ todo' = [todo EXCEPT ![r] = Sockets(r)]
  /\ after' = [after EXCEPT ![r] = where]
  /\ port' = [port EXCEPT ![r] = NoPort]
  /\ Goto(r, "free")
  /\ UNCHANGED <<taken, even, token, token_map>>

SocketFails(r) == Fails(r, "rtcp", "idle") \/ Fails(r, "rtp", "idle")
BindFails(r) == Fails(r, "rtcp", "choose") \/ Fails(r, "rtp", "choose")

(* Mutant of ReleaseOne: the port is released by close_ioa_socket and once *)
(* more by its number.                                                     *)
ReleaseTwice(r, p) ==
  /\ pc[r] = "free" /\ p \in todo[r]
  /\ taken' = taken \ {p}
  /\ \/ todo' = todo
     \/ todo' = [todo EXCEPT ![r] = @ \ {p}]
  /\ UNCHANGED <<pc, even, port, after, token, token_map>>

(* turnipports_release, through close_ioa_socket for a bound socket and    *)
(* directly for a number without one                                       *)
ReleaseOne(r, p) ==
  /\ pc[r] = "free" /\ p \in todo[r]
  /\ taken' = taken \ {p}
  /\ todo' = [todo EXCEPT ![r] = @ \ {p}]
  /\ UNCHANGED <<pc, even, port, after, token, token_map>>

Released(r) ==
  /\ pc[r] = "free" /\ todo[r] = {}
  /\ Goto(r, after[r])
  /\ even' = IF after[r] = "idle" THEN [even EXCEPT ![r] = -1] ELSE even
  /\ after' = [after EXCEPT ![r] = "idle"]
  /\ UNCHANGED <<taken, port, todo, token, token_map>>

RtcpBound(r) ==
  /\ pc[r] = "rtcp"
  /\ Goto(r, "rtp")
  /\ UNCHANGED <<taken, even, port, todo, after, token, token_map>>

(* The relay socket is bound; the second one goes into the reservation map *)
(* with its token (rtcp_map_put).  turnports_allocate_even makes up a      *)
(* token for every even request, so the answer also carries one when       *)
(* even_port is 0, where nothing enters the map.                           *)
RtpBound(r) ==
  /\ pc[r] = "rtp"
  /\ Goto(r, "up")
  /\ IF even[r] = -1
       THEN UNCHANGED <<token, token_map>>
       ELSE \E t \in Token \ used :
              /\ \A s \in Token \ used : t <= s
              /\ used' = used \cup {t}
              /\ token' = [token EXCEPT ![r] = t]
              /\ resv' = IF even[r] = 1 THEN [resv EXCEPT ![t] = port[r] + 1] ELSE resv
              /\ UNCHANGED <<old, doomed>>
  /\ UNCHANGED <<taken, even, port, todo, after>>

(* rtcp_map_put has no memory: both sockets are closed. *)
PutFails(r) == even[r] = 1 /\ Fails(r, "rtp", "idle")

(* The session ends: close_ioa_socket of the relay socket. *)
CloseRelay(r) ==
  /\ pc[r] = "up"
  /\ taken' = taken \ {port[r]}
  /\ Goto(r, "idle")
  /\ even' = [even EXCEPT ![r] = -1]
  /\ port' = [port EXCEPT ![r] = NoPort]
  /\ token' = [token EXCEPT ![r] = NoToken]
  /\ UNCHANGED <<todo, after, token_map>>

-----------------------------------------------------------------------------
(* The reservation map *)

Reserved == {t \in Token : resv[t] # NoPort}

(* create_relay_connection with a token (get_ioa_socket_from_reservation): *)
(* the socket leaves the map and becomes the relay socket.  A token that   *)
(* is not in the map is answered with 508.                                 *)
Redeem(r, t) ==
  /\ pc[r] = "idle"
  /\ t \in Reserved
  /\ port' = [port EXCEPT ![r] = resv[t]]
  /\ Goto(r, "up")
  /\ resv' = [resv EXCEPT ![t] = NoPort]
  /\ old' = old \ {t}
  /\ UNCHANGED <<taken, even, todo, after, token, used, doomed>>

(* RTCP_TIMEOUT seconds pass. *)
Age(t) ==
  /\ t \in Reserved \ old
  /\ old' = old \cup {t}
  /\ UNCHANGED <<taken, request, used, resv, doomed>>

(* Mutants of Collect: every entry, and only if there are too many.      *)
CollectAll ==
  /\ doomed = {}
  /\ \E D \in SUBSET Reserved : D # {} /\ Cardinality(D) <= MaxDel /\ doomed' = D
  /\ UNCHANGED <<taken, request, used, resv, old>>

CollectMore ==
  /\ doomed = {}
  /\ Cardinality(Reserved \cap old) > MaxDel
  /\ \E D \in SUBSET (Reserved \cap old) : Cardinality(D) = MaxDel /\ doomed' = D
  /\ UNCHANGED <<taken, request, used, resv, old>>

(* rtcp_map_timeout_handler looks through the map under the lock and       *)
(* remembers at most MAX_TOKEN_DEL tokens of entries that timed out ...    *)
Collect ==
  /\ doomed = {}
  /\ \E D \in SUBSET (Reserved \cap old) :
       /\ D # {}
       /\ \/ Cardinality(D) = MaxDel
          \/ Cardinality(D) < MaxDel /\ D = Reserved \cap old
       /\ doomed' = D
  /\ UNCHANGED <<taken, request, used, resv, old>>

(* Mutant of DeleteToken: the entry is freed as rtcp_alloc_free_savefd does. *)
DeleteKeepsSocket(t) ==
  /\ t \in doomed
  /\ doomed' = doomed \ {t}
  /\ resv' = [resv EXCEPT ![t] = NoPort]
  /\ old' = old \ {t}
  /\ UNCHANGED <<taken, request, used>>

(* ... and then deletes them one by one, taking the lock for each: the     *)
(* socket of a token somebody redeemed meanwhile is left alone.            *)
DeleteToken(t) ==
  /\ t \in doomed
  /\ doomed' = doomed \ {t}
  /\ IF t \in Reserved
       THEN /\ taken' = taken \ {resv[t]}
            /\ resv' = [resv EXCEPT ![t] = NoPort]
       ELSE UNCHANGED <<taken, resv>>
  /\ old' = old \ {t}
  /\ UNCHANGED <<request, used>>

-----------------------------------------------------------------------------
RsNext ==
  \/ \E r \in Request :
       \/ \E e \in EvenPort : Start(r, e)
       \/ \E p \in Port : ChoosePort(r, p) \/ ChoosePair(r, p) \/ ReleaseOne(r, p)
       \/ ChooseNone(r)
       \/ SocketFails(r)
       \/ BindFails(r)
       \/ Released(r)
       \/ RtcpBound(r)
       \/ RtpBound(r)
       \/ PutFails(r)
       \/ CloseRelay(r)
       \/ \E t \in Token : Redeem(r, t)
  \/ \E t \in Token : Age(t) \/ DeleteToken(t)
  \/ Collect

RsSpec == RsInit /\ [][RsNext]_RsVars

(* Time passes, and the persistent 3-second timer of the map runs. *)
RsFairSpec ==
  /\ RsSpec
  /\ \A t \in Token : WF_RsVars(Age(t)) /\ WF_RsVars(DeleteToken(t))
  /\ WF_RsVars(Collect)

-----------------------------------------------------------------------------
(* Properties *)

(* Every variable stays in its type. *)
RsTypeOK ==
  /\ taken \subseteq Port
  /\ pc \in [Request -> {"idle", "choose", "rtcp", "rtp", "free", "up"}]
  /\ even \in [Request -> {-1, 0, 1}]
  /\ port \in [Request -> Port \cup {NoPort}]
  /\ todo \in [Request -> SUBSET Port]
  /\ after \in [Request -> {"choose", "idle"}]
  /\ token \in [Request -> Token \cup {NoToken}]
  /\ used \subseteq Token
  /\ resv \in [Token -> Port \cup {NoPort}]
  /\ old \subseteq Token
  /\ doomed \subseteq Token

(* The ports a request answers for, as sockets or as numbers. *)
Owned(r) ==
  IF pc[r] \in {"rtcp", "rtp"}
    THEN IF even[r] >= 0 THEN {port[r], port[r] + 1} ELSE {port[r]}
    ELSE IF pc[r] = "up" THEN {port[r]} ELSE todo[r]

(* No port belongs to two requests, to two reservations, or to a request   *)
(* and a reservation, and the pool knows each of them as taken: error      *)
(* paths that release by number and by socket never give away a port that  *)
(* another thread has meanwhile been given.                                *)
OneOwner ==
  /\ \A r \in Request : Owned(r) \subseteq taken
  /\ \A t \in Reserved : resv[t] \in taken
  /\ \A r, s \in Request : r # s => Owned(r) \cap Owned(s) = {}
  /\ \A r \in Request, t \in Reserved : resv[t] \notin Owned(r)
  /\ \A t, u \in Reserved : t # u => resv[t] # resv[u]

(* Every taken port has an owner, so it returns to the pool when its       *)
(* owner ends.                                                             *)
NoPortLost ==
  \A p \in taken : (\E r \in Request : p \in Owned(r)) \/ (\E t \in Reserved : resv[t] = p)

(* A reservation leaves the map by being redeemed, or by the timer after   *)
(* RTCP_TIMEOUT: the timer never drops one a client may still use.         *)
KeptUntilTimeout ==
  [][\A t \in Reserved :
       t \notin Reserved' => t \in old \/ \E r \in Request : port'[r] = resv[t] /\ pc'[r] = "up"]_RsVars

(* A reserved port does not stay reserved: it is redeemed or goes back to  *)
(* the pool.                                                               *)
ReservationEnds == \A t \in Token : t \in Reserved ~> t \notin Reserved

=============================================================================
