-------------------------- MODULE AllocationProofs --------------------------
(***************************************************************************)
(* Proofs about what an allocation holds: its port, for every range that   *)
(* does not end at the last port, every ring size and counter width; and its *)
(* mobility ticket and client socket, for any number of threads, sessions  *)
(* and connections.                                                        *)
(***************************************************************************)
EXTENDS Mobility, TurnPorts, TLAPS

(* A leaf that names no prover goes to the SMT solver, for up to 30 seconds. *)
USE SMTT(30)

-----------------------------------------------------------------------------
(* Mobility tickets and client sockets: Mobility *)

MobRecord ==
  [st : {"none", "live", "gone"}, thr : MThread \cup {0}, sock : MSock \cup {NoSock},
   shut : BOOLEAN, valid : BOOLEAN, relay : BOOLEAN, mobile : BOOLEAN,
   mid : Ticket \cup {NoTicket}, old : Ticket \cup {NoTicket}]
MobMessage == [sock : MSock, ticket : Ticket]
(* What a session that is not live does not have, and where messages go.   *)
MobShape(M, Q, W, n) ==
  /\ W \subseteq [ses : MSess, ticket : Ticket]
  /\ n \in 0 .. MaxTicket
  /\ \A s \in MSess : M[s].st # "live" =>
       M[s].sock = NoSock /\ ~M[s].relay /\ M[s].mid = NoTicket
  /\ \A s \in MSess : M[s].st = "live" => M[s].thr \in MThread
  /\ \A t \in MThread : \A i \in 1 .. Len(Q[t]) : Q[t][i].ticket[1] = t

(* The map and the sessions agree, and a ticket that is given out next is  *)
(* new.                                                                    *)
MobTickets(M, map, n) ==
  /\ \A t \in MThread, k \in Ticket, s \in MSess :
       map[t][k] = s <=> M[s].st = "live" /\ M[s].thr = t /\ M[s].mid = k
  /\ \A s \in MSess : M[s].mid # NoTicket =>
       M[s].st = "live" /\ M[s].mid[1] = M[s].thr /\ M[s].mid[2] <= n

MobTicketed(M, map, n) ==
  /\ M \in [MSess -> MobRecord] /\ map \in [MThread -> [Ticket -> MSess \cup {NoSess}]]
  /\ n \in Nat /\ MobTickets(M, map, n)

(* Who holds the connections, with the sockets K of the sessions and the   *)
(* messages Q under way.                                                   *)
Sockets(M) == [s \in MSess |-> M[s].sock]
Carried(Q, t, i, c) == i \in 1 .. Len(Q[t]) /\ Q[t][i].sock = c
HeldOnceOne(K, Q, F, c) ==
  /\ F[c] = "open" => \/ \E s \in MSess : K[s] = c
                      \/ \E t \in MThread : \E i \in Nat : Carried(Q, t, i, c)
  /\ F[c] # "open" => /\ \A s \in MSess : K[s] # c
                      /\ \A t \in MThread : \A i \in Nat : ~Carried(Q, t, i, c)
  /\ \A s, o \in MSess : K[s] = c /\ K[o] = c => s = o
  /\ \A s \in MSess, t \in MThread, i \in Nat : ~(K[s] = c /\ Carried(Q, t, i, c))
  /\ \A t, u \in MThread, i, j \in Nat :
       Carried(Q, t, i, c) /\ Carried(Q, u, j, c) => t = u /\ i = j
HeldOnce(K, Q, F) == \A c \in MSock : HeldOnceOne(K, Q, F, c)

MobHolding(K, Q, F) ==
  /\ K \in [MSess -> MSock \cup {NoSock}] /\ Q \in [MThread -> Seq(MobMessage)]
  /\ F \in [MSock -> {"new", "open", "closed"}]
  /\ HeldOnce(K, Q, F)

MobState(M, P, F, Q, W, n) ==
  [mob |-> M, mmap |-> P, fd |-> F, mq |-> Q, mwait |-> W, issued |-> n]
MobFacts(M, P, F, Q, W, n) ==
  /\ MobShape(M, Q, W, n)
  /\ MobTicketed(M, P, n)
  /\ MobHolding(Sockets(M), Q, F)
MobGood(x) ==
  /\ x = MobState(x.mob, x.mmap, x.fd, x.mq, x.mwait, x.issued)
  /\ MobFacts(x.mob, x.mmap, x.fd, x.mq, x.mwait, x.issued)
MobInv == MobFacts(mob, mmap, fd, mq, mwait, issued)

-----------------------------------------------------------------------------
(* Sockets *)

(* IOA_CLOSE_SOCKET by the session that holds it.                          *)
LEMMA HeldClosed ==
  ASSUME NEW K, NEW Q, NEW F, MobHolding(K, Q, F), NEW s \in MSess
  PROVE  MobHolding([K EXCEPT ![s] = NoSock], Q, Closed(F, K[s]))
  <1> DEFINE K2 == [K EXCEPT ![s] = NoSock]
             F2 == Closed(F, K[s])
  <1>1. /\ K2 \in [MSess -> MSock \cup {NoSock}] /\ K2[s] = NoSock
        /\ \A o \in MSess : o # s => K2[o] = K[o]
    BY DEF MobHolding
  <1>2. /\ F2 \in [MSock -> {"new", "open", "closed"}]
        /\ \A c \in MSock : F2[c] = IF c = K[s] THEN "closed" ELSE F[c]
    BY MobAssumption DEF MobHolding, Closed
  <1> HIDE DEF K2, F2
  <1>3. HeldOnce(K2, Q, F2)
    BY <1>1, <1>2, MobAssumption DEF MobHolding, HeldOnce, HeldOnceOne
  <1> QED
    BY <1>2, <1>3 DEF MobHolding, K2, F2

(* A socket that changes its session.                                      *)
LEMMA HeldMoved ==
  ASSUME NEW K, NEW Q, NEW F, MobHolding(K, Q, F), NEW s \in MSess, NEW o \in MSess,
         s # o, K[o] = NoSock
  PROVE  MobHolding([K EXCEPT ![s] = NoSock, ![o] = K[s]], Q, F)
  <1> DEFINE K2 == [K EXCEPT ![s] = NoSock, ![o] = K[s]]
  <1>1. /\ K2 \in [MSess -> MSock \cup {NoSock}] /\ K2[s] = NoSock /\ K2[o] = K[s]
        /\ \A r \in MSess : r # s /\ r # o => K2[r] = K[r]
    BY DEF MobHolding
  <1> HIDE DEF K2
  <1>2. HeldOnce(K2, Q, F)
    BY <1>1 DEF MobHolding, HeldOnce, HeldOnceOne
  <1> QED
    BY <1>2 DEF MobHolding, K2

(* A new connection.                                                       *)
LEMMA HeldConnected ==
  ASSUME NEW K, NEW Q, NEW F, MobHolding(K, Q, F), NEW s \in MSess, NEW c \in MSock,
         F[c] = "new", K[s] = NoSock
  PROVE  MobHolding([K EXCEPT ![s] = c], Q, [F EXCEPT ![c] = "open"])
  <1> DEFINE K2 == [K EXCEPT ![s] = c]
             F2 == [F EXCEPT ![c] = "open"]
  <1>1. /\ K2 \in [MSess -> MSock \cup {NoSock}] /\ K2[s] = c
        /\ \A o \in MSess : o # s => K2[o] = K[o]
    BY DEF MobHolding
  <1>2. /\ F2 \in [MSock -> {"new", "open", "closed"}]
        /\ \A d \in MSock : F2[d] = IF d = c THEN "open" ELSE F[d]
    BY DEF MobHolding
  <1> HIDE DEF K2, F2
  <1>3. HeldOnce(K2, Q, F2)
    BY <1>1, <1>2, MobAssumption DEF MobHolding, HeldOnce, HeldOnceOne
  <1> QED
    BY <1>3 DEF MobHolding, K2, F2

(* A socket that leaves its session in a message.                          *)
LEMMA HeldSent ==
  ASSUME NEW K, NEW Q, NEW F, MobHolding(K, Q, F), NEW s \in MSess, NEW t \in MThread,
         NEW m \in MobMessage, m.sock = K[s]
  PROVE  MobHolding([K EXCEPT ![s] = NoSock], [Q EXCEPT ![t] = Append(@, m)], F)
  <1> DEFINE K2 == [K EXCEPT ![s] = NoSock]
             Q2 == [Q EXCEPT ![t] = Append(@, m)]
             c == K[s]
             n == Len(Q[t]) + 1
  <1>1. /\ K2 \in [MSess -> MSock \cup {NoSock}] /\ K2[s] = NoSock
        /\ \A o \in MSess : o # s => K2[o] = K[o]
    BY DEF MobHolding
  <1>2. /\ Q2 \in [MThread -> Seq(MobMessage)] /\ c \in MSock /\ n \in Nat
        /\ \A d : \A u \in MThread, i \in Nat :
             Carried(Q2, u, i, d) <=> Carried(Q, u, i, d) \/ (u = t /\ i = n /\ d = c)
    <2>0. Q[t] \in Seq(MobMessage) /\ c \in MSock
      BY ZenonT(30) DEF MobHolding, MobMessage
    <2>1. Q2 \in [MThread -> Seq(MobMessage)] /\ n \in Nat
      BY DEF MobHolding
    <2>2. Q2[t] = Append(Q[t], m) /\ \A u \in MThread : u # t => Q2[u] = Q[u]
      BY DEF MobHolding
    <2>3. /\ Len(Q2[t]) = n /\ Q2[t][n] = m /\ Len(Q[t]) \in Nat
          /\ \A i \in 1 .. Len(Q[t]) : Q2[t][i] = Q[t][i]
      BY <2>2
    <2> HIDE DEF Q2
    <2> QED
      BY <2>0, <2>1, <2>2 DEF Carried
  <1> HIDE DEF K2, Q2, n
  <1>3. ASSUME NEW d \in MSock, d # c PROVE HeldOnceOne(K2, Q2, F, d)
    <2>1. HeldOnceOne(K, Q, F, d)
      BY DEF MobHolding, HeldOnce
    <2>2. \A o \in MSess : K2[o] = d <=> K[o] = d
      BY <1>1, <1>3, MobAssumption
    <2>3. \A u \in MThread, i \in Nat : Carried(Q2, u, i, d) <=> Carried(Q, u, i, d)
      BY <1>2, <1>3
    <2> QED
      BY <2>1, <2>2, <2>3 DEF HeldOnceOne
  <1>4. HeldOnceOne(K2, Q2, F, c)
    <2>1. HeldOnceOne(K, Q, F, c)
      BY <1>2 DEF MobHolding, HeldOnce
    <2>2. /\ F[c] = "open" /\ \A u \in MThread, i \in Nat : ~Carried(Q, u, i, c)
      BY <2>1 DEF HeldOnceOne
    <2>3. \A o \in MSess : K2[o] # c
      BY <1>1, <1>2, <2>1, MobAssumption DEF HeldOnceOne
    <2>4. \A u \in MThread, i \in Nat : Carried(Q2, u, i, c) <=> u = t /\ i = n
      BY ZenonT(30), <1>2, <2>2
    <2> HIDE DEF c
    <2> QED
      BY <1>2, <2>2, <2>3, <2>4 DEF HeldOnceOne
  <1>5. HeldOnce(K2, Q2, F)
    BY <1>3, <1>4 DEF HeldOnce
  <1> QED
    BY <1>1, <1>5 DEF MobHolding, K2, Q2

LEMMA QueueFront ==
  ASSUME NEW S, NEW q \in Seq(S), q # <<>>
  PROVE  /\ Len(q) \in Nat /\ 1 \in 1 .. Len(q) /\ Head(q) = q[1] /\ q[1] \in S
         /\ Tail(q) \in Seq(S) /\ Len(Tail(q)) = Len(q) - 1
         /\ \A i \in 1 .. Len(q) - 1 : Tail(q)[i] = q[i + 1]
  <1>1. Len(q) \in Nat /\ Len(q) # 0
    OBVIOUS
  <1>2. 1 \in 1 .. Len(q)
    OBVIOUS
  <1>3. Head(q) = q[1] /\ q[1] \in S
    OBVIOUS
  <1>4. Tail(q) \in Seq(S) /\ Len(Tail(q)) = Len(q) - 1
    OBVIOUS
  <1>5. \A i \in 1 .. Len(q) - 1 : Tail(q)[i] = q[i + 1]
    OBVIOUS
  <1> QED
    OBVIOUS

(* A socket that a message brings to a new session.                        *)
LEMMA HeldReceived ==
  ASSUME NEW K, NEW Q, NEW F, MobHolding(K, Q, F), NEW s \in MSess, NEW t \in MThread,
         Q[t] # <<>>, K[s] = NoSock
  PROVE  MobHolding([K EXCEPT ![s] = Head(Q[t]).sock], [Q EXCEPT ![t] = Tail(@)], F)
  <1> DEFINE c == Head(Q[t]).sock
             K2 == [K EXCEPT ![s] = c]
             Q2 == [Q EXCEPT ![t] = Tail(@)]
  <1>0. /\ Q[t] \in Seq(MobMessage) /\ Head(Q[t]) \in MobMessage /\ c \in MSock
        /\ Head(Q[t]) = Q[t][1] /\ Tail(Q[t]) \in Seq(MobMessage) /\ 1 \in 1 .. Len(Q[t])
    <2>1. Q[t] \in Seq(MobMessage)
      BY DEF MobHolding
    <2>2. /\ Head(Q[t]) = Q[t][1] /\ Tail(Q[t]) \in Seq(MobMessage) /\ 1 \in 1 .. Len(Q[t])
          /\ Q[t][1] \in MobMessage
      BY <2>1
    <2> QED
      BY <2>2 DEF MobMessage
  <1>1. /\ K2 \in [MSess -> MSock \cup {NoSock}] /\ K2[s] = c
        /\ \A o \in MSess : o # s => K2[o] = K[o]
    BY <1>0 DEF MobHolding
  <1>2. Q2 \in [MThread -> Seq(MobMessage)]
    BY DEF MobHolding
  <1>3. \A d : \A u \in MThread, i \in Nat :
          Carried(Q2, u, i, d) <=> Carried(Q, u, IF u = t THEN i + 1 ELSE i, d) /\ i >= 1
    <2>1. Q2[t] = Tail(Q[t]) /\ \A u \in MThread : u # t => Q2[u] = Q[u]
      BY DEF MobHolding
    <2>2. /\ Len(Q2[t]) = Len(Q[t]) - 1 /\ Len(Q[t]) \in Nat
          /\ \A i \in 1 .. Len(Q2[t]) : Q2[t][i] = Q[t][i + 1]
      <3>1. /\ Len(Tail(Q[t])) = Len(Q[t]) - 1 /\ Len(Q[t]) \in Nat
            /\ \A i \in 1 .. Len(Q[t]) - 1 : Tail(Q[t])[i] = Q[t][i + 1]
        OBVIOUS
      <3> HIDE DEF Q2
      <3> QED
        BY <2>1
    <2> HIDE DEF Q2
    <2>3. ASSUME NEW d, NEW i \in Nat PROVE Carried(Q2, t, i, d) <=> Carried(Q, t, i + 1, d) /\ i >= 1
      BY <2>2 DEF Carried
    <2>4. ASSUME NEW d, NEW u \in MThread, u # t, NEW i \in Nat
          PROVE Carried(Q2, u, i, d) <=> Carried(Q, u, i, d) /\ i >= 1
      <3>1. Q[u] \in Seq(MobMessage)
        BY DEF MobHolding
      <3> QED
        BY <2>1, <2>4 DEF Carried
    <2> QED
      BY <2>3, <2>4
  <1>4. Carried(Q, t, 1, c) /\ \A d : Carried(Q, t, 1, d) => d = c
    BY DEF Carried
  <1> HIDE DEF c, K2, Q2
  <1>5. ASSUME NEW d \in MSock, d # c PROVE HeldOnceOne(K2, Q2, F, d)
    <2>1. HeldOnceOne(K, Q, F, d)
      BY DEF MobHolding, HeldOnce
    <2>2. \A o \in MSess : K2[o] = d <=> K[o] = d
      BY <1>1, <1>5, MobAssumption
    <2>3. \A u \in MThread, i \in Nat : Carried(Q, u, i, d) =>
            i >= 1 /\ (u = t => i - 1 >= 1)
      <3>1. \A u \in MThread, i \in Nat : Carried(Q, u, i, d) => i >= 1
        BY DEF Carried
      <3>2. ~Carried(Q, t, 1, d)
        BY <1>4, <1>5
      <3> QED
        BY <3>1, <3>2
    <2>4. \A u \in MThread, i \in Nat :
            Carried(Q, u, i, d) => \E j \in Nat : Carried(Q2, u, j, d)
      <3>1. ASSUME NEW i \in Nat, Carried(Q, t, i, d) PROVE Carried(Q2, t, i - 1, d) /\ i - 1 \in Nat
        <4>1. i - 1 \in Nat /\ i - 1 >= 1 /\ (i - 1) + 1 = i
          BY <2>3, <3>1
        <4> QED
          BY <1>3, <3>1, <4>1
      <3>2. ASSUME NEW u \in MThread, u # t, NEW i \in Nat, Carried(Q, u, i, d)
            PROVE  Carried(Q2, u, i, d)
        BY <1>3, <2>3, <3>2
      <3> QED
        BY <3>1, <3>2
    <2>5. \A u \in MThread, i \in Nat :
            Carried(Q2, u, i, d) => Carried(Q, u, IF u = t THEN i + 1 ELSE i, d)
      BY <1>3
    <2>6. \A u, v \in MThread, i, j \in Nat :
            Carried(Q2, u, i, d) /\ Carried(Q2, v, j, d) => u = v /\ i = j
      <3>1. ASSUME NEW u \in MThread, NEW v \in MThread, NEW i \in Nat, NEW j \in Nat,
                   Carried(Q2, u, i, d), Carried(Q2, v, j, d)
            PROVE  u = v /\ i = j
        <4>1. /\ Carried(Q, u, IF u = t THEN i + 1 ELSE i, d)
              /\ Carried(Q, v, IF v = t THEN j + 1 ELSE j, d)
          BY <2>5, <3>1
        <4>2. u = v /\ (IF u = t THEN i + 1 ELSE i) = (IF v = t THEN j + 1 ELSE j)
          BY <2>1, <4>1 DEF HeldOnceOne
        <4> QED
          BY <4>2
      <3> QED
        BY <3>1
    <2>7. \A u \in MThread, i \in Nat :
            Carried(Q2, u, i, d) => \E j \in Nat : Carried(Q, u, j, d)
      BY <2>5
    <2> QED
      BY <2>1, <2>2, <2>4, <2>6, <2>7 DEF HeldOnceOne
  <1>6. HeldOnceOne(K2, Q2, F, c)
    <2>1. HeldOnceOne(K, Q, F, c)
      BY <1>0 DEF MobHolding, HeldOnce
    <2>2. F[c] = "open" /\ \A o \in MSess : K[o] # c
      BY <1>4, <2>1 DEF HeldOnceOne
    <2>3. \A u \in MThread, i \in Nat : Carried(Q, u, i, c) => u = t /\ i = 1
      BY <1>4, <2>1 DEF HeldOnceOne
    <2>4. \A u \in MThread, i \in Nat : ~Carried(Q2, u, i, c)
      BY <1>3, <2>3
    <2>5. \A o \in MSess : K2[o] = c <=> o = s
      BY <1>1, <2>2
    <2> QED
      BY <2>2, <2>4, <2>5 DEF HeldOnceOne
  <1>7. HeldOnce(K2, Q2, F)
    BY <1>5, <1>6 DEF HeldOnce
  <1> QED
    BY <1>1, <1>7 DEF MobHolding, K2, Q2, c

-----------------------------------------------------------------------------
(* Tickets *)

SameTicket(m, o) == m.st = o.st /\ m.thr = o.thr /\ m.mid = o.mid

LEMMA TicketFields ==
  ASSUME NEW M \in [MSess -> MobRecord], NEW s \in MSess
  PROVE  /\ M[s].mid \in Ticket \cup {NoTicket}
         /\ M[s].mid # NoTicket => M[s].mid[1] \in MThread /\ M[s].mid[2] \in 1 .. MaxTicket
  BY DEF MobRecord, Ticket

LEMMA TicketsSame ==
  ASSUME NEW M, NEW map, NEW n, MobTicketed(M, map, n), NEW M2 \in [MSess -> MobRecord],
         \A s \in MSess : SameTicket(M2[s], M[s])
  PROVE  MobTicketed(M2, map, n)
  BY DEF MobTicketed, MobTickets, SameTicket

(* delete_session_from_mobile_map                                          *)
LEMMA TicketDropped ==
  ASSUME NEW M, NEW map, NEW n, MobTicketed(M, map, n), NEW M2 \in [MSess -> MobRecord],
         NEW s \in MSess, M2[s].mid = NoTicket,
         \A o \in MSess : o # s => SameTicket(M2[o], M[o])
  PROVE  MobTicketed(M2, Without(map, M[s]), n)
  <1> DEFINE map2 == Without(map, M[s])
  <1>0. M[s].mid \in Ticket \cup {NoTicket}
    BY TicketFields DEF MobTicketed
  <1>1. CASE M[s].mid = NoTicket
    <2>1. map2 = map
      BY <1>1 DEF Without
    <2>2. \A t \in MThread, k \in Ticket : map[t][k] # s
      BY <1>1, MobAssumption DEF MobTicketed, MobTickets
    <2>3. \A k \in Ticket : M2[s].mid # k
      BY MobAssumption
    <2>4. ASSUME NEW t \in MThread, NEW k \in Ticket, NEW o \in MSess
          PROVE  map[t][k] = o <=> M2[o].st = "live" /\ M2[o].thr = t /\ M2[o].mid = k
      BY <2>2, <2>3 DEF MobTicketed, MobTickets, SameTicket
    <2>5. MobTicketed(M2, map, n)
      BY <2>4 DEF MobTicketed, MobTickets, SameTicket
    <2> QED
      BY <2>1, <2>5
  <1>2. CASE M[s].mid # NoTicket
    <2> DEFINE k == M[s].mid
               t == M[s].thr
    <2>1. k \in Ticket /\ t \in MThread /\ M[s].st = "live" /\ map[t][k] = s
      BY <1>2, TicketFields DEF MobTicketed, MobTickets
    <2>2. /\ map2 \in [MThread -> [Ticket -> MSess \cup {NoSess}]]
          /\ map2[t][k] = NoSess
          /\ \A u \in MThread, j \in Ticket : (u # t \/ j # k) => map2[u][j] = map[u][j]
      BY <1>2, <2>1 DEF MobTicketed, Without
    <2> HIDE DEF map2
    <2>3. ASSUME NEW u \in MThread, NEW j \in Ticket, NEW o \in MSess
          PROVE  map2[u][j] = o <=> M2[o].st = "live" /\ M2[o].thr = u /\ M2[o].mid = j
      <3>1. map[u][j] = o <=> M[o].st = "live" /\ M[o].thr = u /\ M[o].mid = j
        BY DEF MobTicketed, MobTickets
      <3>2. CASE o = s
        <4>1. map2[u][j] # s
          BY <2>2, <3>1, <3>2, MobAssumption
        <4> QED
          BY <3>2, <4>1, MobAssumption
      <3>3. CASE o # s
        <4>1. M2[o].st = M[o].st /\ M2[o].thr = M[o].thr /\ M2[o].mid = M[o].mid
          BY <3>3 DEF SameTicket
        <4>2. CASE u = t /\ j = k
          BY <2>1, <2>2, <3>1, <4>1, MobAssumption
        <4>3. CASE u # t \/ j # k
          BY <2>2, <3>1, <4>1, <4>3
        <4> QED
          BY <4>2, <4>3
      <3> QED
        BY <3>2, <3>3
    <2>4. ASSUME NEW o \in MSess, M2[o].mid # NoTicket
          PROVE  M2[o].st = "live" /\ M2[o].mid[1] = M2[o].thr /\ M2[o].mid[2] <= n
      BY <2>4 DEF MobTicketed, MobTickets, SameTicket
    <2> QED
      BY <2>2, <2>3, <2>4 DEF MobTicketed, MobTickets, map2
  <1> QED
    BY <1>1, <1>2

(* put_session_into_mobile_map with an id that is not in use               *)
LEMMA TicketGiven ==
  ASSUME NEW M, NEW map, NEW n, MobTicketed(M, map, n), n < MaxTicket,
         NEW M2 \in [MSess -> MobRecord], NEW s \in MSess, NEW t \in MThread,
         M[s].mid = NoTicket, M2[s].st = "live", M2[s].thr = t, M2[s].mid = <<t, n + 1>>,
         \A o \in MSess : o # s => SameTicket(M2[o], M[o])
  PROVE  MobTicketed(M2, With(map, s, <<t, n + 1>>), n + 1)
  <1> DEFINE k == <<t, n + 1>>
             map2 == With(map, s, k)
  <1>1. n \in Nat /\ k \in Ticket /\ k[1] = t /\ k[2] = n + 1
    BY MobAssumption DEF MobTicketed, Ticket
  <1>2. /\ map2 \in [MThread -> [Ticket -> MSess \cup {NoSess}]]
        /\ map2[t][k] = s
        /\ \A u \in MThread, j \in Ticket : (u # t \/ j # k) => map2[u][j] = map[u][j]
    BY <1>1 DEF MobTicketed, With
  <1> HIDE DEF map2
  <1>3. \A o \in MSess : M[o].mid # k
    <2>1. ASSUME NEW o \in MSess, M[o].mid = k PROVE FALSE
      <3>1. k # NoTicket
        BY <1>1, MobAssumption
      <3>2. k[2] <= n
        BY ZenonT(30), <2>1, <3>1 DEF MobTicketed, MobTickets
      <3> QED
        BY <1>1, <3>2
    <2> QED
      BY <2>1
  <1> HIDE DEF k
  <1>4. ASSUME NEW u \in MThread, NEW j \in Ticket, NEW o \in MSess
        PROVE  map2[u][j] = o <=> M2[o].st = "live" /\ M2[o].thr = u /\ M2[o].mid = j
    <2>1. map[u][j] = o <=> M[o].st = "live" /\ M[o].thr = u /\ M[o].mid = j
      BY DEF MobTicketed, MobTickets
    <2>2. CASE u = t /\ j = k
      BY <1>2, <1>3, <2>2 DEF SameTicket, k
    <2>3. CASE u # t \/ j # k
      <3>1. map2[u][j] = map[u][j]
        BY <1>2, <2>3
      <3>2. CASE o = s
        BY ZenonT(30), <2>1, <2>3, <3>1, <3>2, MobAssumption DEF k
      <3>3. CASE o # s
        BY <2>1, <3>1, <3>3 DEF SameTicket
      <3> QED
        BY <3>2, <3>3
    <2> QED
      BY <2>2, <2>3
  <1>5. ASSUME NEW o \in MSess, M2[o].mid # NoTicket
        PROVE  M2[o].st = "live" /\ M2[o].mid[1] = M2[o].thr /\ M2[o].mid[2] <= n + 1
    <2>1. CASE o = s
      BY <1>1, <2>1 DEF k
    <2>2. CASE o # s
      <3>1. /\ M2[o].st = M[o].st /\ M2[o].thr = M[o].thr /\ M2[o].mid = M[o].mid
            /\ M[o].mid[2] \in 1 .. MaxTicket
        BY <1>5, <2>2, TicketFields DEF SameTicket, MobTicketed
      <3>2. M[o].st = "live" /\ M[o].mid[1] = M[o].thr /\ M[o].mid[2] <= n
        BY <1>5, <3>1 DEF MobTicketed, MobTickets
      <3> QED
        BY <1>1, <3>1, <3>2
    <2> QED
      BY <2>1, <2>2
  <1>6. n + 1 \in Nat
    BY <1>1
  <1> QED
    BY ZenonT(30), <1>2, <1>4, <1>5, <1>6 DEF MobTicketed, MobTickets, map2, k

-----------------------------------------------------------------------------
(* Requests with a ticket *)

LEMMA SocketsExcept ==
  ASSUME NEW M \in [MSess -> MobRecord], NEW M2 \in [MSess -> MobRecord], NEW s \in MSess,
         \A o \in MSess : o # s => M2[o].sock = M[o].sock
  PROVE  /\ Sockets(M) \in [MSess -> MSock \cup {NoSock}] /\ Sockets(M)[s] = M[s].sock
         /\ Sockets(M2) = [Sockets(M) EXCEPT ![s] = M2[s].sock]
  BY ZenonT(30) DEF Sockets, MobRecord

LEMMA MobFields ==
  ASSUME NEW M, NEW P, NEW F, NEW Q, NEW W, NEW n, MobFacts(M, P, F, Q, W, n), NEW s \in MSess
  PROVE  /\ M \in [MSess -> MobRecord] /\ M[s] \in MobRecord
         /\ M[s].sock \in MSock \cup {NoSock} /\ Sockets(M)[s] = M[s].sock
         /\ M[s].mid \in Ticket \cup {NoTicket}
         /\ P \in [MThread -> [Ticket -> MSess \cup {NoSess}]]
         /\ F \in [MSock -> {"new", "open", "closed"}]
         /\ Q \in [MThread -> Seq(MobMessage)]
         /\ n \in Nat /\ n <= MaxTicket
         /\ W \subseteq [ses : MSess, ticket : Ticket]
  BY DEF MobFacts, MobShape, MobTicketed, MobHolding, Sockets, MobRecord

LEMMA MobGoodOf ==
  ASSUME NEW M, NEW P, NEW F, NEW Q, NEW W, NEW n, MobFacts(M, P, F, Q, W, n),
         NEW y, y = MobState(M, P, F, Q, W, n)
  PROVE  MobGood(y)
  BY DEF MobGood, MobState

(* What Shut and Detached do to the sessions.                              *)
ShutIn(M, s) == [M EXCEPT ![s].shut = TRUE]
DetachedIn(M, s) == [M EXCEPT ![s].sock = NoSock, ![s].shut = TRUE]

LEMMA ShutSessions ==
  ASSUME NEW M \in [MSess -> MobRecord], NEW s \in MSess, NEW N, N = ShutIn(M, s)
  PROVE  /\ N \in [MSess -> MobRecord] /\ \A r \in MSess : r # s => N[r] = M[r]
         /\ SameTicket(N[s], M[s]) /\ N[s].sock = M[s].sock /\ N[s].relay = M[s].relay
  BY ZenonT(30) DEF MobRecord, SameTicket, ShutIn

LEMMA DetachedSessions ==
  ASSUME NEW M \in [MSess -> MobRecord], NEW s \in MSess, NEW N, N = DetachedIn(M, s)
  PROVE  /\ N \in [MSess -> MobRecord] /\ \A r \in MSess : r # s => N[r] = M[r]
         /\ SameTicket(N[s], M[s]) /\ N[s].sock = NoSock /\ N[s].relay = M[s].relay
         /\ N[s].mobile = M[s].mobile
  BY ZenonT(30) DEF MobRecord, SameTicket, DetachedIn

(* A step that changes of the sessions only the socket of one.             *)
LEMMA SocketChanged ==
  ASSUME NEW M, NEW P, NEW F, NEW Q, NEW W, NEW n, MobFacts(M, P, F, Q, W, n), NEW s \in MSess,
         NEW N \in [MSess -> MobRecord], \A r \in MSess : r # s => N[r] = M[r],
         SameTicket(N[s], M[s]), N[s].relay = M[s].relay,
         NEW F2, NEW Q2, \A t \in MThread : \A i \in 1 .. Len(Q2[t]) : Q2[t][i].ticket[1] = t,
         MobHolding([Sockets(M) EXCEPT ![s] = N[s].sock], Q2, F2),
         M[s].st = "live" \/ N[s].sock = NoSock
  PROVE  MobFacts(N, P, F2, Q2, W, n)
  <1>1. M \in [MSess -> MobRecord]
    BY MobFields
  <1>2. Sockets(N) = [Sockets(M) EXCEPT ![s] = N[s].sock]
    BY <1>1, SocketsExcept
  <1>3. MobTicketed(N, P, n)
    BY TicketsSame DEF MobFacts, SameTicket
  <1>4. MobShape(N, Q2, W, n)
    BY DEF MobFacts, MobShape, SameTicket
  <1> QED
    BY <1>2, <1>3, <1>4 DEF MobFacts

LEMMA ShutGood ==
  ASSUME NEW M, NEW P, NEW F, NEW Q, NEW W, NEW n, MobFacts(M, P, F, Q, W, n), NEW s \in MSess,
         NEW x, x = MobState(M, P, F, Q, W, n), NEW y, y = Shut(x, s)
  PROVE  MobGood(y)
  <1> DEFINE N == ShutIn(M, s)
  <1>1. y = MobState(N, P, F, Q, W, n)
    BY ZenonT(30) DEF Shut, MobState, ShutIn
  <1>2. /\ N \in [MSess -> MobRecord] /\ \A r \in MSess : r # s => N[r] = M[r]
        /\ SameTicket(N[s], M[s]) /\ N[s].sock = M[s].sock /\ N[s].relay = M[s].relay
    <2>1. M \in [MSess -> MobRecord]
      BY MobFields
    <2> QED
      BY <2>1, ShutSessions
  <1> HIDE DEF N
  <1>3. [Sockets(M) EXCEPT ![s] = N[s].sock] = Sockets(M)
    BY <1>2 DEF Sockets
  <1>4. MobShape(M, Q, W, n) /\ MobHolding(Sockets(M), Q, F)
    BY DEF MobFacts
  <1>5. M[s].st = "live" \/ N[s].sock = NoSock
    BY <1>2, <1>4 DEF MobShape
  <1>6. MobFacts(N, P, F, Q, W, n)
    BY ZenonT(30), <1>2, <1>3, <1>4, <1>5, SocketChanged DEF MobShape
  <1> QED
    BY <1>1, <1>6, MobGoodOf

(* The socket leaves the session: sent on, or closed.                      *)
LEMMA HandOverGood ==
  ASSUME NEW M, NEW P, NEW F, NEW Q, NEW W, NEW n, MobFacts(M, P, F, Q, W, n), NEW s \in MSess,
         NEW k \in Ticket, M[s].sock # NoSock,
         NEW x, x = MobState(M, P, F, Q, W, n), NEW y \in HandOver(x, s, k)
  PROVE  MobGood(y)
  <1> DEFINE N == DetachedIn(M, s)
             c == M[s].sock
             m == [sock |-> c, ticket |-> k]
             K == Sockets(M)
             Q2 == [Q EXCEPT ![k[1]] = Append(@, m)]
             F2 == Closed(F, c)
  <1>0. /\ M \in [MSess -> MobRecord] /\ c \in MSock /\ K[s] = c /\ k[1] \in MThread
        /\ m \in MobMessage /\ m.sock = c /\ m.ticket = k /\ Q \in [MThread -> Seq(MobMessage)]
    BY ZenonT(30), MobFields DEF Ticket, MobMessage
  <1>1. \/ y = MobState(N, P, F, Q2, W, n)
        \/ y = MobState(N, P, F2, Q, W, n)
        \/ y = Shut(x, s)
    <2>1. x.mob[s].sock = c
      BY DEF MobState
    <2>2. ASSUME NEW d, d = Detached(x, s) PROVE d = MobState(N, P, F, Q, W, n)
      BY ZenonT(30), <2>2 DEF MobState, Detached, DetachedIn
    <2>3. Detached(x, s) = MobState(N, P, F, Q, W, n)
      BY <2>2
    <2>4. ASSUME NEW d, d = MobState(N, P, F, Q, W, n),
                 NEW e, e = [d EXCEPT !.mq[k[1]] = Append(@, m)]
          PROVE  e = MobState(N, P, F, Q2, W, n)
      <3> HIDE DEF N, m
      <3> QED
        BY ZenonT(30), <2>4 DEF MobState
    <2>5. ASSUME NEW d, d = MobState(N, P, F, Q, W, n), NEW e, e = [d EXCEPT !.fd = Closed(@, c)]
          PROVE  e = MobState(N, P, F2, Q, W, n)
      <3> HIDE DEF N
      <3> QED
        BY <2>5 DEF MobState
    <2>6. \/ y = [Detached(x, s) EXCEPT !.mq[k[1]] = Append(@, m)]
          \/ y = [Detached(x, s) EXCEPT !.fd = Closed(@, c)]
          \/ y = Shut(x, s)
      BY <2>1 DEF HandOver
    <2> HIDE DEF N, m, Q2, F2, c
    <2> QED
      BY <2>3, <2>4, <2>5, <2>6, Zenon
  <1>2. /\ N \in [MSess -> MobRecord] /\ \A r \in MSess : r # s => N[r] = M[r]
        /\ SameTicket(N[s], M[s]) /\ N[s].sock = NoSock /\ N[s].relay = M[s].relay
    BY <1>0, DetachedSessions
  <1>3. MobShape(M, Q, W, n) /\ MobHolding(K, Q, F)
    BY DEF MobFacts
  <1>4. MobHolding([K EXCEPT ![s] = NoSock], Q2, F) /\ MobHolding([K EXCEPT ![s] = NoSock], Q, F2)
    <2> HIDE DEF m, K, c
    <2>1. MobHolding([K EXCEPT ![s] = NoSock], Q2, F)
      BY ZenonT(30), <1>0, <1>3, HeldSent
    <2>2. MobHolding([K EXCEPT ![s] = NoSock], Q, F2)
      BY ZenonT(30), <1>0, <1>3, HeldClosed
    <2> QED
      BY <2>1, <2>2
  <1>5. /\ \A t \in MThread : \A i \in 1 .. Len(Q[t]) : Q[t][i].ticket[1] = t
        /\ \A t \in MThread : \A i \in 1 .. Len(Q2[t]) : Q2[t][i].ticket[1] = t
    <2>1. \A t \in MThread : \A i \in 1 .. Len(Q[t]) : Q[t][i].ticket[1] = t
      BY <1>3 DEF MobShape
    <2> HIDE DEF m
    <2>2. Q2[k[1]] = Append(Q[k[1]], m) /\ \A t \in MThread : t # k[1] => Q2[t] = Q[t]
      BY <1>0
    <2>3. \A i \in 1 .. Len(Q2[k[1]])  :
            \/ i \in 1 .. Len(Q[k[1]]) /\ Q2[k[1]][i] = Q[k[1]][i]
            \/ Q2[k[1]][i] = m
      OBVIOUS
    <2> HIDE DEF Q2
    <2> QED
      BY <1>0, <2>1, <2>2, <2>3
  <1> HIDE DEF N, Q2, F2, K
  <1>6. MobFacts(N, P, F, Q2, W, n) /\ MobFacts(N, P, F2, Q, W, n)
    BY ZenonT(30), <1>2, <1>4, <1>5, SocketChanged DEF K
  <1> QED
    BY <1>1, <1>6, MobGoodOf, ShutGood

(* The sessions after attach_socket_to_session.                            *)
WithSocket(M, o, c) == [M EXCEPT ![o].sock = c]
AttachedIn(M, s, o) == WithSocket(DetachedIn(M, s), o, M[s].sock)

LEMMA SocketSessions ==
  ASSUME NEW M \in [MSess -> MobRecord], NEW o \in MSess, NEW c \in MSock \cup {NoSock},
         NEW N, N = WithSocket(M, o, c)
  PROVE  /\ N \in [MSess -> MobRecord] /\ \A r \in MSess : r # o => N[r] = M[r]
         /\ SameTicket(N[o], M[o]) /\ N[o].sock = c /\ N[o].relay = M[o].relay
         /\ N[o].mobile = M[o].mobile
  BY DEF MobRecord, SameTicket, WithSocket

LEMMA AttachedSessions ==
  ASSUME NEW M \in [MSess -> MobRecord], NEW s \in MSess, NEW o \in MSess, s # o,
         NEW N, N = AttachedIn(M, s, o)
  PROVE  /\ N \in [MSess -> MobRecord] /\ \A r \in MSess : r # s /\ r # o => N[r] = M[r]
         /\ SameTicket(N[s], M[s]) /\ N[s].sock = NoSock /\ N[s].relay = M[s].relay
         /\ SameTicket(N[o], M[o]) /\ N[o].sock = M[s].sock /\ N[o].relay = M[o].relay
         /\ N[o].mobile = M[o].mobile
  <1> DEFINE D == DetachedIn(M, s)
             c == M[s].sock
  <1>2. /\ D \in [MSess -> MobRecord] /\ \A r \in MSess : r # s => D[r] = M[r]
        /\ SameTicket(D[s], M[s]) /\ D[s].sock = NoSock /\ D[s].relay = M[s].relay
        /\ D[s].mobile = M[s].mobile
    BY DetachedSessions
  <1>4. N = WithSocket(D, o, c) /\ c \in MSock \cup {NoSock}
    BY DEF AttachedIn, MobRecord
  <1> HIDE DEF D, c
  <1>6. /\ N \in [MSess -> MobRecord] /\ \A r \in MSess : r # o => N[r] = D[r]
        /\ SameTicket(N[o], D[o]) /\ N[o].sock = c /\ N[o].relay = D[o].relay
        /\ N[o].mobile = D[o].mobile
    BY <1>2, <1>4, SocketSessions
  <1> QED
    BY <1>2, <1>6 DEF c

(* The old session's own socket is closed, then the socket of the new one  *)
(* goes over to it.                                                        *)
LEMMA AttachedFacts ==
  ASSUME NEW M, NEW P, NEW F, NEW Q, NEW W, NEW n, MobFacts(M, P, F, Q, W, n), NEW s \in MSess,
         NEW o \in MSess, s # o, M[o].st = "live",
         NEW x, x = MobState(M, P, F, Q, W, n), NEW y, y = Attached(x, s, o)
  PROVE  /\ y = MobState(AttachedIn(M, s, o), P, Closed(F, M[o].sock), Q, W, n)
         /\ MobFacts(AttachedIn(M, s, o), P, Closed(F, M[o].sock), Q, W, n)
  <1> DEFINE N == AttachedIn(M, s, o)
             D == DetachedIn(M, s)
             c == M[s].sock
             F2 == Closed(F, M[o].sock)
             K == Sockets(M)
  <1>0. /\ M \in [MSess -> MobRecord] /\ K[s] = c /\ K[o] = M[o].sock
        /\ K \in [MSess -> MSock \cup {NoSock}]
    BY MobFields DEF Sockets
  <1>1. y = MobState(N, P, F2, Q, W, n)
    BY ZenonT(30) DEF MobState, Attached, Detached, AttachedIn, DetachedIn, WithSocket
  <1>2. /\ N \in [MSess -> MobRecord] /\ \A r \in MSess : r # s /\ r # o => N[r] = M[r]
        /\ SameTicket(N[s], M[s]) /\ N[s].sock = NoSock /\ N[s].relay = M[s].relay
        /\ SameTicket(N[o], M[o]) /\ N[o].sock = c /\ N[o].relay = M[o].relay
    BY <1>0, AttachedSessions
  <1>3. MobHolding([[K EXCEPT ![o] = NoSock] EXCEPT ![s] = NoSock, ![o] = c], Q, F2)
    <2> DEFINE K2 == [K EXCEPT ![o] = NoSock]
    <2>1. MobHolding(K2, Q, F2)
      BY ZenonT(30), <1>0, HeldClosed DEF MobFacts
    <2>2. K2[o] = NoSock /\ K2[s] = c
      BY <1>0
    <2> HIDE DEF K2, F2, c
    <2>3. MobHolding([K2 EXCEPT ![s] = NoSock, ![o] = K2[s]], Q, F2)
      BY <2>1, <2>2, HeldMoved
    <2> QED
      BY ZenonT(30), <2>2, <2>3 DEF K2
  <1>4. Sockets(N) = [[K EXCEPT ![o] = NoSock] EXCEPT ![s] = NoSock, ![o] = c]
    <2> HIDE DEF N
    <2> QED
      BY ZenonT(30), <1>2 DEF Sockets
  <1> HIDE DEF N, K, c, F2
  <1>5. MobTicketed(N, P, n)
    BY <1>2, TicketsSame DEF MobFacts, SameTicket
  <1>6. MobShape(N, Q, W, n)
    BY <1>2 DEF MobFacts, MobShape, SameTicket
  <1>7. MobFacts(N, P, F2, Q, W, n)
    BY <1>3, <1>4, <1>5, <1>6 DEF MobFacts
  <1> QED
    BY <1>1, <1>7 DEF N, F2

(* The tickets of both sessions go, and the moved one gets a new one.      *)
NoTicketIn(M, s) == [M EXCEPT ![s].mid = NoTicket]
TicketIn(M, o, k, old) == [M EXCEPT ![o].mid = k, ![o].old = old]

LEMMA NoTicketSessions ==
  ASSUME NEW M \in [MSess -> MobRecord], NEW s \in MSess, NEW N, N = NoTicketIn(M, s)
  PROVE  /\ N \in [MSess -> MobRecord] /\ \A r \in MSess : r # s => N[r] = M[r]
         /\ N[s].mid = NoTicket /\ N[s].sock = M[s].sock /\ N[s].relay = M[s].relay
         /\ N[s].st = M[s].st /\ N[s].thr = M[s].thr
  BY DEF MobRecord, NoTicketIn

LEMMA TicketSessions ==
  ASSUME NEW M \in [MSess -> MobRecord], NEW o \in MSess, NEW k \in Ticket, NEW old \in Ticket,
         NEW N, N = TicketIn(M, o, k, old)
  PROVE  /\ N \in [MSess -> MobRecord] /\ \A r \in MSess : r # o => N[r] = M[r]
         /\ N[o].mid = k /\ N[o].sock = M[o].sock /\ N[o].relay = M[o].relay
         /\ N[o].st = M[o].st /\ N[o].thr = M[o].thr
  BY ZenonT(30) DEF MobRecord, TicketIn

NextId(k, n) == <<k[1], n + 1>>

LEMMA TransferFacts ==
  ASSUME NEW M, NEW P, NEW F, NEW Q, NEW W, NEW n, MobFacts(M, P, F, Q, W, n), NEW s \in MSess,
         NEW o \in MSess, s # o, NEW k \in Ticket, M[o].st = "live", M[o].thr = k[1],
         n < MaxTicket, NEW M2, M2 \in [MSess -> MobRecord],
         \A r \in MSess : SameTicket(M2[r], M[r]),
         NEW G, MobFacts(M2, P, G, Q, W, n)
  PROVE  MobFacts(TicketIn(NoTicketIn(M2, s), o, NextId(k, n), k),
                  With(Without(Without(P, M[s]), M[o]), o, NextId(k, n)), G, Q, W, n + 1)
  <1> SUFFICES ASSUME NEW t, t = NextId(k, n),
                      NEW A, A = NoTicketIn(M2, s), NEW N, N = TicketIn(A, o, t, k),
                      NEW P2, P2 = With(Without(Without(P, M[s]), M[o]), o, t)
               PROVE  MobFacts(N, P2, G, Q, W, n + 1)
    OBVIOUS
  <1> DEFINE B == NoTicketIn(A, o)
             PA == Without(P, M[s])
             PB == Without(PA, M[o])
  <1>0. /\ t \in Ticket /\ t # NoTicket /\ k[1] \in MThread /\ n \in Nat /\ n + 1 \in 0 .. MaxTicket
        /\ M2[o].st = "live" /\ M2[o].thr = k[1]
    BY MobFields, MobAssumption DEF Ticket, SameTicket, NextId
  <1>1. /\ A \in [MSess -> MobRecord] /\ \A r \in MSess : r # s => A[r] = M2[r]
        /\ A[s].mid = NoTicket /\ A[s].sock = M2[s].sock /\ A[s].relay = M2[s].relay
        /\ A[s].st = M2[s].st /\ A[s].thr = M2[s].thr
    BY NoTicketSessions
  <1>2. /\ B \in [MSess -> MobRecord] /\ \A r \in MSess : r # o => B[r] = A[r]
        /\ B[o].mid = NoTicket /\ B[o].sock = A[o].sock /\ B[o].relay = A[o].relay
        /\ B[o].st = A[o].st /\ B[o].thr = A[o].thr
    BY NoTicketSessions
  <1> HIDE DEF B
  <1>3. /\ N \in [MSess -> MobRecord] /\ \A r \in MSess : r # o => N[r] = A[r]
        /\ N[o].mid = t /\ N[o].sock = A[o].sock /\ N[o].relay = A[o].relay
        /\ N[o].st = A[o].st /\ N[o].thr = A[o].thr
    BY <1>0, <1>1, TicketSessions
  <1>4. MobTicketed(A, PA, n)
    <2>1. MobTicketed(M, P, n)
      BY DEF MobFacts
    <2>2. \A r \in MSess : r # s => SameTicket(A[r], M[r])
      BY <1>1 DEF SameTicket
    <2> QED
      BY <1>1, <2>1, TicketDropped
  <1>5. MobTicketed(B, PB, n)
    <2>1. Without(PA, M[o]) = Without(PA, A[o])
      BY ZenonT(30), <1>1 DEF Without, SameTicket
    <2>2. \A r \in MSess : r # o => SameTicket(B[r], A[r])
      BY <1>2 DEF SameTicket
    <2> HIDE DEF PA
    <2>3. MobTicketed(B, Without(PA, A[o]), n)
      BY <1>2, <1>4, <2>2, TicketDropped
    <2> QED
      BY <2>1, <2>3
  <1>6. MobTicketed(N, P2, n + 1)
    <2>1. \A r \in MSess : r # o => SameTicket(N[r], B[r])
      BY <1>2, <1>3 DEF SameTicket
    <2>2. N[o].st = "live" /\ N[o].thr = k[1] /\ B[o].mid = NoTicket /\ N[o].mid = <<k[1], n + 1>>
      BY <1>0, <1>1, <1>2, <1>3 DEF NextId
    <2> HIDE DEF PB
    <2>3. MobTicketed(N, With(PB, o, <<k[1], n + 1>>), n + 1)
      BY ZenonT(30), <1>0, <1>3, <1>5, <2>1, <2>2, TicketGiven
    <2> QED
      BY <2>3 DEF PB, NextId
  <1>7. Sockets(N) = Sockets(M2)
    BY ZenonT(30), <1>1, <1>3 DEF Sockets
  <1>8. MobShape(N, Q, W, n + 1)
    BY <1>0, <1>1, <1>3 DEF MobFacts, MobShape
  <1> QED
    BY <1>6, <1>7, <1>8 DEF MobFacts

(* A ticket that can be moved names a live session of its thread.          *)
LEMMA MovableSession ==
  ASSUME NEW M, NEW P, NEW F, NEW Q, NEW W, NEW n, MobFacts(M, P, F, Q, W, n), NEW s \in MSess,
         NEW k \in Ticket, NEW x, x = MobState(M, P, F, Q, W, n), Movable(x, s, k)
  PROVE  /\ P[k[1]][k] \in MSess /\ P[k[1]][k] # s
         /\ M[P[k[1]][k]].st = "live" /\ M[P[k[1]][k]].thr = k[1]
  <1> DEFINE o == P[k[1]][k]
  <1>1. k[1] \in MThread
    BY DEF Ticket
  <1>2. o \in MSess \cup {NoSess} /\ o \notin {NoSess, s}
    BY <1>1, MobFields DEF Movable, MobState
  <1> HIDE DEF o
  <1>3. M[o].st = "live" /\ M[o].thr = k[1]
    BY <1>1, <1>2 DEF MobFacts, MobTicketed, MobTickets, o
  <1> QED
    BY ZenonT(30), <1>2, <1>3 DEF o

LEMMA TransferGood ==
  ASSUME NEW M, NEW P, NEW F, NEW Q, NEW W, NEW n, MobFacts(M, P, F, Q, W, n), NEW s \in MSess,
         NEW k \in Ticket, NEW x, x = MobState(M, P, F, Q, W, n), Movable(x, s, k),
         n < MaxTicket, NEW y, y = MobileTransfer(x, s, k)
  PROVE  MobGood(y)
  <1> DEFINE o == P[k[1]][k]
             t == NextId(k, n)
             M2 == AttachedIn(M, s, o)
             A == NoTicketIn(M2, s)
             N == TicketIn(A, o, t, k)
             F2 == Closed(F, M[o].sock)
             P2 == With(Without(Without(P, M[s]), M[o]), o, t)
  <1>1. o \in MSess /\ o # s /\ M[o].st = "live" /\ M[o].thr = k[1]
    BY MovableSession
  <1>2. y = MobState(N, P2, F2, Q, W, n + 1)
    <2>1. x.mmap[k[1]][k] = o /\ NewTicket(x, k[1]) = t /\ x.mob[s] = M[s] /\ x.mob[o] = M[o]
      BY DEF MobState, NewTicket, NextId
    <2>2. PICK d : d = Attached(x, s, o)
      OBVIOUS
    <2>3. d = MobState(M2, P, F2, Q, W, n)
      <3> HIDE DEF o
      <3> QED
        BY <1>1, <2>2, AttachedFacts
    <2>4. d.mob = M2 /\ d.mmap = P /\ d.issued = n
      BY <2>3 DEF MobState
    <2>5. y = [d EXCEPT !.mob[s].mid = NoTicket, !.mob[o].mid = t, !.mob[o].old = k,
                 !.mmap = With(Without(Without(@, M[s]), M[o]), o, t), !.issued = @ + 1]
      BY <2>1, <2>2 DEF MobileTransfer
    <2>6. y = [d EXCEPT !.mob = N, !.mmap = P2, !.issued = n + 1]
      <3> HIDE DEF o, t, M2
      <3> QED
        BY ZenonT(30), <2>4, <2>5 DEF NoTicketIn, TicketIn
    <2> HIDE DEF o, t, M2, F2, N, P2
    <2> QED
      BY ZenonT(30), <2>3, <2>6 DEF MobState
  <1> HIDE DEF o
  <1>3. MobFacts(M2, P, F2, Q, W, n)
    BY <1>1, AttachedFacts
  <1>4. M2 \in [MSess -> MobRecord] /\ \A r \in MSess : SameTicket(M2[r], M[r])
    <2>1. M \in [MSess -> MobRecord]
      BY MobFields
    <2>2. /\ M2 \in [MSess -> MobRecord] /\ \A r \in MSess : r # s /\ r # o => M2[r] = M[r]
          /\ SameTicket(M2[s], M[s]) /\ SameTicket(M2[o], M[o])
      BY <1>1, <2>1, AttachedSessions
    <2> HIDE DEF M2
    <2> QED
      BY <2>2 DEF SameTicket
  <1> HIDE DEF t, M2, A, N, P2, F2
  <1>5. MobFacts(N, P2, F2, Q, W, n + 1)
    <2>1. MobFacts(TicketIn(NoTicketIn(M2, s), o, NextId(k, n), k),
                   With(Without(Without(P, M[s]), M[o]), o, NextId(k, n)), F2, Q, W, n + 1)
      BY ZenonT(30), <1>1, <1>3, <1>4, TransferFacts
    <2> QED
      BY <2>1 DEF t, A, N, P2
  <1> QED
    BY ZenonT(30), <1>2, <1>5, MobGoodOf

LEMMA MoveGood ==
  ASSUME NEW M, NEW P, NEW F, NEW Q, NEW W, NEW n, MobFacts(M, P, F, Q, W, n), NEW s \in MSess,
         NEW k \in Ticket, NEW x, x = MobState(M, P, F, Q, W, n), NEW c,
         NEW y \in Move(x, s, k, c)
  PROVE  MobGood(y)
  <1>1. MobGood(x)
    BY MobGoodOf
  <1>2. x.mmap[k[1]][k] = P[k[1]][k] /\ x.issued = n
    BY DEF MobState
  <1>3. \/ y = x
        \/ Movable(x, s, k) /\ y = Shut(x, s)
        \/ Movable(x, s, k) /\ y = Attached(x, s, P[k[1]][k])
        \/ Movable(x, s, k) /\ n < MaxTicket /\ y = MobileTransfer(x, s, k)
        \/ y = [x EXCEPT !.mwait = @ \cup {[ses |-> s, ticket |-> k]}]
    BY <1>2 DEF Move
  <1>4. CASE Movable(x, s, k) /\ y = Attached(x, s, P[k[1]][k])
    <2> DEFINE o == P[k[1]][k]
    <2>1. o \in MSess /\ o # s /\ M[o].st = "live"
      BY <1>4, MovableSession
    <2> HIDE DEF o
    <2>2. /\ y = MobState(AttachedIn(M, s, o), P, Closed(F, M[o].sock), Q, W, n)
          /\ MobFacts(AttachedIn(M, s, o), P, Closed(F, M[o].sock), Q, W, n)
      BY <1>4, <2>1, AttachedFacts DEF o
    <2> QED
      BY ZenonT(30), <2>2, MobGoodOf
  <1>5. CASE y = [x EXCEPT !.mwait = @ \cup {[ses |-> s, ticket |-> k]}]
    <2> DEFINE W2 == W \cup {[ses |-> s, ticket |-> k]}
    <2>1. y = MobState(M, P, F, Q, W2, n)
      BY <1>5 DEF MobState
    <2>2. MobFacts(M, P, F, Q, W2, n)
      BY DEF MobFacts, MobShape
    <2> HIDE DEF W2
    <2> QED
      BY <2>1, <2>2, MobGoodOf
  <1> QED
    BY <1>1, <1>3, <1>4, <1>5, ShutGood, TransferGood

LEMMA RefreshedGood ==
  ASSUME NEW M, NEW P, NEW F, NEW Q, NEW W, NEW n, MobFacts(M, P, F, Q, W, n), NEW s \in MSess,
         NEW k \in Ticket, NEW x, x = MobState(M, P, F, Q, W, n), NEW c,
         NEW y \in Refreshed(x, s, k, c)
  PROVE  MobGood(y)
  <1>1. MobGood(x)
    BY MobGoodOf
  <1>2. x.mob[s] = M[s]
    BY DEF MobState
  <1>3. \/ y = x
        \/ M[s].sock # NoSock /\ y \in HandOver(x, s, k)
        \/ y \in Move(x, s, k, c)
    BY <1>2 DEF Refreshed, Reads
  <1> QED
    BY <1>1, <1>3, HandOverGood, MoveGood

-----------------------------------------------------------------------------
(* The handlers *)

LEMMA BecomeInv ==
  ASSUME NEW y, MobGood(y), Become(y)
  PROVE  MobInv'
  BY DEF MobGood, Become, MobInv

(* open_client_connection_session *)
Fresh(t, c, k) == [Unused EXCEPT !.st = "live", !.thr = t, !.sock = c, !.mid = k]
FreshIn(M, s, t, c, k) == [M EXCEPT ![s] = Fresh(t, c, k)]

LEMMA FreshSessions ==
  ASSUME NEW M \in [MSess -> MobRecord], NEW s \in MSess, NEW t \in MThread, NEW c \in MSock,
         NEW k \in Ticket
  PROVE  LET N == FreshIn(M, s, t, c, k)
         IN /\ N \in [MSess -> MobRecord] /\ \A r \in MSess : r # s => N[r] = M[r]
            /\ N[s].st = "live" /\ N[s].thr = t /\ N[s].sock = c /\ N[s].mid = k
            /\ ~N[s].relay
  <1> SUFFICES ASSUME NEW N, N = FreshIn(M, s, t, c, k)
               PROVE  /\ N \in [MSess -> MobRecord] /\ \A r \in MSess : r # s => N[r] = M[r]
                      /\ N[s].st = "live" /\ N[s].thr = t /\ N[s].sock = c /\ N[s].mid = k
                      /\ ~N[s].relay
    OBVIOUS
  <1>1. ASSUME NEW m, m = Fresh(t, c, k)
        PROVE  /\ m \in MobRecord /\ m.st = "live" /\ m.thr = t /\ m.sock = c /\ m.mid = k
               /\ ~m.relay
    BY ZenonT(30), <1>1 DEF Fresh, Unused, MobRecord
  <1>2. PICK m : m = Fresh(t, c, k)
    OBVIOUS
  <1>3. /\ m \in MobRecord /\ m.st = "live" /\ m.thr = t /\ m.sock = c /\ m.mid = k
        /\ ~m.relay
    BY <1>1, <1>2
  <1>4. N = [M EXCEPT ![s] = m]
    BY <1>2 DEF FreshIn
  <1> QED
    BY <1>3, <1>4

LEMMA FreshTicket ==
  ASSUME NEW M \in [MSess -> MobRecord], NEW s \in MSess, NEW t \in MThread, NEW c \in MSock,
         NEW n \in Nat, n < MaxTicket
  PROVE  LET N == FreshIn(M, s, t, c, <<t, n + 1>>)
         IN /\ N \in [MSess -> MobRecord] /\ \A r \in MSess : r # s => N[r] = M[r]
            /\ N[s].st = "live" /\ N[s].thr = t /\ N[s].sock = c /\ N[s].mid = <<t, n + 1>>
            /\ ~N[s].relay
  <1> DEFINE k == <<t, n + 1>>
  <1>1. k \in Ticket
    BY MobAssumption DEF Ticket
  <1> HIDE DEF k
  <1>2. LET N == FreshIn(M, s, t, c, k)
        IN /\ N \in [MSess -> MobRecord] /\ \A r \in MSess : r # s => N[r] = M[r]
           /\ N[s].st = "live" /\ N[s].thr = t /\ N[s].sock = c /\ N[s].mid = k
           /\ ~N[s].relay
    BY <1>1, FreshSessions
  <1> QED
    BY <1>2 DEF k

LEMMA OpenedState ==
  ASSUME NEW M, NEW P, NEW F, NEW Q, NEW W, NEW n, NEW s \in MSess, NEW t, NEW c,
         NEW z, z = MobState(M, P, F, Q, W, n), NEW x, x = Opened(z, t, s, c)
  PROVE  x = MobState(FreshIn(M, s, t, c, <<t, n + 1>>), With(P, s, <<t, n + 1>>), F, Q, W, n + 1)
  <1>1. PICK k : k = <<t, n + 1>>
    BY ZenonT(30)
  <1>2. NewTicket(z, t) = k
    BY <1>1 DEF NewTicket, MobState
  <1>3. PICK m : m = Fresh(t, c, k)
    OBVIOUS
  <1>4. x = [z EXCEPT !.mob[s] = m, !.mmap = With(@, s, k), !.issued = @ + 1]
    BY <1>2, <1>3 DEF Opened, Fresh
  <1>5. x = MobState([M EXCEPT ![s] = m], With(P, s, k), F, Q, W, n + 1)
    BY ZenonT(30), <1>4 DEF MobState
  <1> QED
    BY <1>1, <1>3, <1>5 DEF FreshIn

LEMMA OpenedFacts ==
  ASSUME NEW M, NEW P, NEW Q, NEW W, NEW n, MobShape(M, Q, W, n), MobTicketed(M, P, n),
         NEW s \in MSess, M[s].st = "none", NEW t \in MThread, NEW c \in MSock, n < MaxTicket,
         NEW N \in [MSess -> MobRecord], \A r \in MSess : r # s => N[r] = M[r],
         N[s].st = "live", N[s].thr = t, N[s].sock = c, N[s].mid = <<t, n + 1>>,
         ~N[s].relay,
         NEW Q2, \A u \in MThread : \A i \in 1 .. Len(Q2[u]) : Q2[u][i].ticket[1] = u,
         NEW F2, MobHolding([Sockets(M) EXCEPT ![s] = c], Q2, F2)
  PROVE  MobFacts(N, With(P, s, <<t, n + 1>>), F2, Q2, W, n + 1)
  <1> DEFINE k == <<t, n + 1>>
  <1>0. /\ n \in Nat /\ k \in Ticket /\ n + 1 \in 0 .. MaxTicket /\ M \in [MSess -> MobRecord]
    BY MobAssumption DEF MobTicketed, Ticket
  <1>3. Sockets(N) = [Sockets(M) EXCEPT ![s] = c]
    BY <1>0, SocketsExcept
  <1>4. M[s].mid = NoTicket
    BY DEF MobShape
  <1>5. MobTicketed(N, With(P, s, k), n + 1)
    <2>1. \A r \in MSess : r # s => SameTicket(N[r], M[r])
      BY DEF SameTicket
    <2> QED
      BY <1>4, <2>1, TicketGiven
  <1>6. MobShape(N, Q2, W, n + 1)
    BY <1>0 DEF MobShape
  <1> QED
    BY <1>3, <1>5, <1>6 DEF MobFacts

LEMMA ConnectInv ==
  ASSUME MobInv, NEW t \in MThread, NEW s \in MSess, NEW c \in MSock, Connect(t, s, c)
  PROVE  MobInv'
  <1> DEFINE k == <<t, issued + 1>>
             N == FreshIn(mob, s, t, c, k)
             F2 == [fd EXCEPT ![c] = "open"]
  <1>1. /\ mob' = N /\ mmap' = With(mmap, s, k) /\ fd' = F2
        /\ mq' = mq /\ mwait' = mwait /\ issued' = issued + 1
    <2>1. Become([Opened(MobNow, t, s, c) EXCEPT !.fd[c] = "open"])
      BY DEF Connect
    <2>2. MobNow = MobState(mob, mmap, fd, mq, mwait, issued)
      BY DEF MobNow, MobState
    <2>3. PICK x : x = Opened(MobNow, t, s, c)
      OBVIOUS
    <2>4. x = MobState(N, With(mmap, s, k), fd, mq, mwait, issued + 1)
      BY <2>2, <2>3, OpenedState
    <2>5. PICK z : z = [x EXCEPT !.fd[c] = "open"]
      BY ZenonT(30)
    <2> HIDE DEF N, k
    <2>6. z = MobState(N, With(mmap, s, k), F2, mq, mwait, issued + 1)
      BY <2>4, <2>5 DEF MobState
    <2> HIDE DEF F2
    <2> QED
      BY <2>1, <2>3, <2>5, <2>6 DEF Become, MobState
  <1>2. fd[c] = "new" /\ mob[s].st = "none" /\ issued < MaxTicket
    BY DEF Connect
  <1>3. /\ MobShape(mob, mq, mwait, issued) /\ MobTicketed(mob, mmap, issued)
        /\ MobHolding(Sockets(mob), mq, fd)
    BY DEF MobInv, MobFacts
  <1>4. Sockets(mob)[s] = NoSock
    BY <1>2, <1>3 DEF MobShape, Sockets
  <1>5. MobHolding([Sockets(mob) EXCEPT ![s] = c], mq, F2)
    BY <1>2, <1>3, <1>4, HeldConnected
  <1>6. \A u \in MThread : \A i \in 1 .. Len(mq[u]) : mq[u][i].ticket[1] = u
    BY <1>3 DEF MobShape
  <1>8. /\ N \in [MSess -> MobRecord] /\ \A r \in MSess : r # s => N[r] = mob[r]
        /\ N[s].st = "live" /\ N[s].thr = t /\ N[s].sock = c /\ N[s].mid = <<t, issued + 1>>
        /\ ~N[s].relay
    <2>1. mob \in [MSess -> MobRecord] /\ issued \in Nat
      BY <1>3 DEF MobTicketed
    <2> QED
      BY ZenonT(30), <1>2, <2>1, FreshTicket
  <1> HIDE DEF F2, N
  <1>7. MobFacts(N, With(mmap, s, k), F2, mq, mwait, issued + 1)
    BY ZenonT(30), <1>2, <1>3, <1>5, <1>6, <1>8, OpenedFacts
  <1> QED
    BY <1>1, <1>7 DEF MobInv

LEMMA NowState == MobNow = MobState(mob, mmap, fd, mq, mwait, issued)
  BY DEF MobNow, MobState

LEMMA RefreshTicketInv ==
  ASSUME MobInv, NEW s \in MSess, NEW k \in Ticket, RefreshTicket(s, k)
  PROVE  MobInv'
  <1>1. PICK y \in Refreshed(MobNow, s, k, TRUE) : Become(y)
    BY ZenonT(30) DEF RefreshTicket
  <1>2. MobGood(y)
    BY ZenonT(30), NowState, RefreshedGood DEF MobInv
  <1> QED
    BY <1>1, <1>2, BecomeInv

LEMMA MobResumeInv ==
  ASSUME MobInv, NEW w \in mwait, MobResume(w)
  PROVE  MobInv'
  <1> DEFINE W == mwait \ {w}
             x == [MobNow EXCEPT !.mwait = @ \ {w}]
  <1>1. PICK y \in Refreshed(x, w.ses, w.ticket, FALSE) : Become(y)
    BY ZenonT(30) DEF MobResume
  <1>2. w.ses \in MSess /\ w.ticket \in Ticket
    BY DEF MobInv, MobFacts, MobShape
  <1>3. MobFacts(mob, mmap, fd, mq, W, issued)
    BY DEF MobInv, MobFacts, MobShape
  <1>4. x = MobState(mob, mmap, fd, mq, W, issued)
    BY DEF MobNow, MobState
  <1> HIDE DEF x, W
  <1>5. MobGood(y)
    BY ZenonT(30), <1>2, <1>3, <1>4, RefreshedGood
  <1> QED
    BY <1>1, <1>5, BecomeInv

LEMMA ReceiveMobileInv ==
  ASSUME MobInv, NEW t \in MThread, NEW s \in MSess, ReceiveMobile(t, s)
  PROVE  MobInv'
  <1> DEFINE m == Head(mq[t])
             c == m.sock
             k == <<t, issued + 1>>
             N == FreshIn(mob, s, t, c, k)
             Q2 == [mq EXCEPT ![t] = Tail(@)]
             z == [MobNow EXCEPT !.mq[t] = Tail(@)]
             x == Opened(z, t, s, c)
  <1>1. PICK y \in Refreshed(x, s, m.ticket, TRUE) : Become(y)
    BY ZenonT(30) DEF ReceiveMobile
  <1>2. mq[t] # <<>> /\ mob[s].st = "none" /\ issued < MaxTicket
    BY DEF ReceiveMobile
  <1>3. /\ MobShape(mob, mq, mwait, issued) /\ MobTicketed(mob, mmap, issued)
        /\ MobHolding(Sockets(mob), mq, fd)
    BY DEF MobInv, MobFacts
  <1>4. mq \in [MThread -> Seq(MobMessage)] /\ mq[t] \in Seq(MobMessage)
    BY <1>3 DEF MobHolding
  <1>5. m \in MobMessage /\ c \in MSock /\ m.ticket \in Ticket
    <2>1. m \in MobMessage
      BY <1>2, <1>4
    <2> QED
      BY <2>1 DEF MobMessage
  <1>6. \A u \in MThread : \A i \in 1 .. Len(Q2[u]) : Q2[u][i].ticket[1] = u
    <2>1. Q2[t] = Tail(mq[t]) /\ \A u \in MThread : u # t => Q2[u] = mq[u]
      BY <1>4
    <2>2. /\ Len(Tail(mq[t])) = Len(mq[t]) - 1 /\ Len(mq[t]) \in Nat
          /\ \A i \in 1 .. Len(mq[t]) - 1 : Tail(mq[t])[i] = mq[t][i + 1]
      BY <1>2
    <2>3. \A u \in MThread : \A i \in 1 .. Len(mq[u]) : mq[u][i].ticket[1] = u
      BY <1>3 DEF MobShape
    <2> HIDE DEF Q2
    <2>4. \A i \in 1 .. Len(Q2[t]) : Q2[t][i].ticket[1] = t
      BY <2>1, <2>3
    <2> QED
      BY ZenonT(30), <2>1, <2>3, <2>4
  <1>7. MobHolding([Sockets(mob) EXCEPT ![s] = c], Q2, fd)
    <2>1. Sockets(mob)[s] = NoSock
      BY <1>2, <1>3 DEF MobShape, Sockets
    <2> QED
      BY <1>2, <1>3, <2>1, HeldReceived
  <1> HIDE DEF m, c, Q2
  <1>8. /\ N \in [MSess -> MobRecord] /\ \A r \in MSess : r # s => N[r] = mob[r]
        /\ N[s].st = "live" /\ N[s].thr = t /\ N[s].sock = c /\ N[s].mid = <<t, issued + 1>>
        /\ ~N[s].relay
    <2>1. mob \in [MSess -> MobRecord] /\ issued \in Nat
      BY <1>3 DEF MobTicketed
    <2> QED
      BY <1>2, <1>5, <2>1, FreshTicket
  <1>9. x = MobState(N, With(mmap, s, k), fd, Q2, mwait, issued + 1)
    <2>1. z = MobState(mob, mmap, fd, Q2, mwait, issued)
      <3>1. ASSUME NEW now, now = MobNow, NEW q PROVE [now EXCEPT !.mq = q] = MobState(mob, mmap, fd, q, mwait, issued)
        BY <3>1 DEF MobNow, MobState
      <3>2. z = [MobNow EXCEPT !.mq = Q2]
        BY DEF MobNow, Q2
      <3> QED
        BY <3>1, <3>2
    <2> HIDE DEF z
    <2> QED
      BY <2>1, OpenedState
  <1> HIDE DEF N, x
  <1>10. MobFacts(N, With(mmap, s, k), fd, Q2, mwait, issued + 1)
    BY ZenonT(30), <1>2, <1>3, <1>5, <1>6, <1>7, <1>8, OpenedFacts
  <1>11. MobGood(y)
    BY ZenonT(30), <1>5, <1>9, <1>10, RefreshedGood
  <1> QED
    BY <1>1, <1>11, BecomeInv

(* handle_turn_allocate *)
Granted(m, mobile, k) == [m EXCEPT !.valid = TRUE, !.relay = TRUE, !.mobile = mobile, !.mid = k]
GrantedIn(M, s, mobile, k) == [M EXCEPT ![s] = Granted(@, mobile, k)]
AllocatedIn(M, s, mobile) == GrantedIn(M, s, mobile, IF mobile THEN M[s].mid ELSE NoTicket)

LEMMA GrantedSessions ==
  ASSUME NEW M \in [MSess -> MobRecord], NEW s \in MSess, NEW mobile \in BOOLEAN,
         NEW k \in Ticket \cup {NoTicket}, NEW N, N = GrantedIn(M, s, mobile, k)
  PROVE  /\ N \in [MSess -> MobRecord] /\ \A r \in MSess : r # s => N[r] = M[r]
         /\ N[s].st = M[s].st /\ N[s].thr = M[s].thr /\ N[s].sock = M[s].sock
         /\ N[s].mid = k
  <1>1. ASSUME NEW m \in MobRecord, NEW g, g = Granted(m, mobile, k)
        PROVE  g \in MobRecord /\ g.st = m.st /\ g.thr = m.thr /\ g.sock = m.sock /\ g.mid = k
    BY ZenonT(30), <1>1 DEF Granted, MobRecord
  <1>2. PICK g : g = Granted(M[s], mobile, k)
    OBVIOUS
  <1>3. M[s] \in MobRecord
    OBVIOUS
  <1>4. /\ g \in MobRecord /\ g.st = M[s].st /\ g.thr = M[s].thr /\ g.sock = M[s].sock
        /\ g.mid = k
    BY <1>1, <1>2
  <1>5. N = [M EXCEPT ![s] = g]
    BY <1>2 DEF GrantedIn
  <1> QED
    BY <1>4, <1>5

LEMMA AllocatedSessions ==
  ASSUME NEW M \in [MSess -> MobRecord], NEW s \in MSess, NEW mobile \in BOOLEAN,
         NEW N, N = AllocatedIn(M, s, mobile)
  PROVE  /\ N \in [MSess -> MobRecord] /\ \A r \in MSess : r # s => N[r] = M[r]
         /\ N[s].st = M[s].st /\ N[s].thr = M[s].thr /\ N[s].sock = M[s].sock
         /\ N[s].mid = IF mobile THEN M[s].mid ELSE NoTicket
  <1> DEFINE k == IF mobile THEN M[s].mid ELSE NoTicket
  <1>1. k \in Ticket \cup {NoTicket} /\ N = GrantedIn(M, s, mobile, k)
    BY TicketFields DEF AllocatedIn
  <1> HIDE DEF k
  <1>2. /\ N \in [MSess -> MobRecord] /\ \A r \in MSess : r # s => N[r] = M[r]
        /\ N[s].st = M[s].st /\ N[s].thr = M[s].thr /\ N[s].sock = M[s].sock
        /\ N[s].mid = k
    BY <1>1, GrantedSessions
  <1> QED
    BY <1>2 DEF k

LEMMA MobAllocateInv ==
  ASSUME MobInv, NEW s \in MSess, NEW mobile \in BOOLEAN, MobAllocate(s, mobile)
  PROVE  MobInv'
  <1> DEFINE N == AllocatedIn(mob, s, mobile)
  <1>1. /\ mob' = N /\ mmap' = IF mobile THEN mmap ELSE Without(mmap, mob[s])
        /\ fd' = fd /\ mq' = mq /\ mwait' = mwait /\ issued' = issued /\ mob[s].st = "live"
    BY ZenonT(30) DEF MobAllocate, AllocatedIn, GrantedIn, Granted, Reads, MobNow
  <1>2. /\ MobShape(mob, mq, mwait, issued) /\ MobTicketed(mob, mmap, issued)
        /\ MobHolding(Sockets(mob), mq, fd)
    BY DEF MobInv, MobFacts
  <1>3. /\ N \in [MSess -> MobRecord] /\ \A r \in MSess : r # s => N[r] = mob[r]
        /\ N[s].st = mob[s].st /\ N[s].thr = mob[s].thr /\ N[s].sock = mob[s].sock
        /\ N[s].mid = IF mobile THEN mob[s].mid ELSE NoTicket
    <2>1. mob \in [MSess -> MobRecord]
      BY <1>2 DEF MobTicketed
    <2> QED
      BY <2>1, AllocatedSessions
  <1> HIDE DEF N
  <1>4. Sockets(N) = Sockets(mob)
    BY <1>3 DEF Sockets
  <1>5. MobTicketed(N, mmap', issued)
    <2>1. \A r \in MSess : r # s => SameTicket(N[r], mob[r])
      BY <1>3 DEF SameTicket
    <2>2. CASE mobile
      <3>1. \A r \in MSess : SameTicket(N[r], mob[r])
        BY <1>3, <2>2 DEF SameTicket
      <3>2. MobTicketed(N, mmap, issued)
        BY <1>2, <1>3, <3>1, TicketsSame
      <3> QED
        BY <1>1, <2>2, <3>2
    <2>3. CASE ~mobile
      <3>1. N[s].mid = NoTicket
        BY <1>3, <2>3
      <3>2. MobTicketed(N, Without(mmap, mob[s]), issued)
        BY ZenonT(30), <1>2, <1>3, <2>1, <3>1, TicketDropped
      <3> QED
        BY <1>1, <2>3, <3>2
    <2> QED
      BY <2>2, <2>3
  <1>6. MobShape(N, mq, mwait, issued)
    BY <1>1, <1>2, <1>3 DEF MobShape
  <1> QED
    BY <1>1, <1>4, <1>5, <1>6 DEF MobInv, MobFacts

(* delete_ur_map_ss *)
EndedIn(M, s) == [M EXCEPT ![s] = [Unused EXCEPT !.st = "gone"]]

LEMMA EndedSessions ==
  ASSUME NEW M \in [MSess -> MobRecord], NEW s \in MSess, NEW N, N = EndedIn(M, s)
  PROVE  /\ N \in [MSess -> MobRecord] /\ \A r \in MSess : r # s => N[r] = M[r]
         /\ N[s].st = "gone" /\ N[s].sock = NoSock /\ ~N[s].relay /\ N[s].mid = NoTicket
  BY ZenonT(30) DEF EndedIn, Unused, MobRecord

LEMMA EndInv ==
  ASSUME MobInv, NEW s \in MSess, End(s)
  PROVE  MobInv'
  <1> DEFINE N == EndedIn(mob, s)
             K == Sockets(mob)
  <1>1. /\ mob' = N /\ mmap' = Without(mmap, mob[s]) /\ fd' = Closed(fd, mob[s].sock)
        /\ mq' = mq /\ mwait' = mwait /\ issued' = issued
    BY DEF End, EndedIn
  <1>2. /\ MobShape(mob, mq, mwait, issued) /\ MobTicketed(mob, mmap, issued)
        /\ MobHolding(K, mq, fd) /\ mob \in [MSess -> MobRecord]
    BY DEF MobInv, MobFacts, MobTicketed
  <1>3. /\ N \in [MSess -> MobRecord] /\ \A r \in MSess : r # s => N[r] = mob[r]
        /\ N[s].st = "gone" /\ N[s].sock = NoSock /\ ~N[s].relay /\ N[s].mid = NoTicket
    BY ZenonT(30), <1>2, EndedSessions
  <1> HIDE DEF N
  <1>4. Sockets(N) = [K EXCEPT ![s] = NoSock] /\ K[s] = mob[s].sock
    BY <1>2, <1>3, SocketsExcept
  <1> HIDE DEF K
  <1>5. MobHolding(Sockets(N), mq, Closed(fd, mob[s].sock))
    <2>1. MobHolding([K EXCEPT ![s] = NoSock], mq, Closed(fd, K[s]))
      BY <1>2, HeldClosed
    <2> QED
      BY <1>4, <2>1
  <1>6. MobTicketed(N, Without(mmap, mob[s]), issued)
    <2>1. \A r \in MSess : r # s => SameTicket(N[r], mob[r])
      BY <1>3 DEF SameTicket
    <2> QED
      BY <1>2, <1>3, <2>1, TicketDropped
  <1>7. MobShape(N, mq, mwait, issued)
    BY <1>2, <1>3 DEF MobShape
  <1> QED
    BY <1>1, <1>5, <1>6, <1>7 DEF MobInv, MobFacts

(* shutdown_client_connection without force                                *)
IdleIn(M, s, relay) == [M EXCEPT ![s].sock = NoSock, ![s].relay = relay]

LEMMA IdleSessions ==
  ASSUME NEW M \in [MSess -> MobRecord], NEW s \in MSess, NEW relay \in BOOLEAN,
         NEW N, N = IdleIn(M, s, relay)
  PROVE  /\ N \in [MSess -> MobRecord] /\ \A r \in MSess : r # s => N[r] = M[r]
         /\ SameTicket(N[s], M[s]) /\ N[s].sock = NoSock /\ N[s].relay = relay
  BY ZenonT(30) DEF IdleIn, MobRecord, SameTicket

LEMMA ShutdownMobileInv ==
  ASSUME MobInv, NEW s \in MSess, NEW relay \in BOOLEAN, relay => mob[s].st = "live",
         ShutdownMobile(s, relay)
  PROVE  MobInv'
  <1>1. CASE ~(mob[s].valid /\ mob[s].mobile)
    BY <1>1, EndInv DEF ShutdownMobile
  <1>2. CASE mob[s].valid /\ mob[s].mobile
    <2> DEFINE N == IdleIn(mob, s, relay)
               K == Sockets(mob)
    <2>1. /\ mob' = N /\ mmap' = mmap /\ fd' = Closed(fd, mob[s].sock)
          /\ mq' = mq /\ mwait' = mwait /\ issued' = issued
      BY <1>2 DEF ShutdownMobile, IdleIn
    <2>2. /\ MobShape(mob, mq, mwait, issued) /\ MobTicketed(mob, mmap, issued)
          /\ MobHolding(K, mq, fd) /\ mob \in [MSess -> MobRecord]
      BY ZenonT(30) DEF MobInv, MobFacts, MobTicketed
    <2>3. /\ N \in [MSess -> MobRecord] /\ \A r \in MSess : r # s => N[r] = mob[r]
          /\ SameTicket(N[s], mob[s]) /\ N[s].sock = NoSock /\ N[s].relay = relay
      BY <2>2, IdleSessions
    <2> HIDE DEF N
    <2>4. Sockets(N) = [K EXCEPT ![s] = NoSock] /\ K[s] = mob[s].sock
      BY <2>2, <2>3, SocketsExcept
    <2> HIDE DEF K
    <2>5. MobHolding(Sockets(N), mq, Closed(fd, mob[s].sock))
      <3>1. MobHolding([K EXCEPT ![s] = NoSock], mq, Closed(fd, K[s]))
        BY <2>2, HeldClosed
      <3> QED
        BY <2>4, <3>1
    <2>6. MobTicketed(N, mmap, issued)
      <3>1. \A r \in MSess : SameTicket(N[r], mob[r])
        BY ZenonT(30), <2>3 DEF SameTicket
      <3> QED
        BY <2>2, <2>3, <3>1, TicketsSame
    <2>7. MobShape(N, mq, mwait, issued)
      BY <2>2, <2>3 DEF MobShape, SameTicket
    <2> QED
      BY <2>1, <2>5, <2>6, <2>7 DEF MobInv, MobFacts
  <1> QED
    BY <1>1, <1>2

LEMMA MobInitInv == MobInit => MobInv
  <1> SUFFICES ASSUME MobInit PROVE MobInv
    OBVIOUS
  <1>1. Unused \in MobRecord
    BY DEF Unused, MobRecord
  <1>2. mob \in [MSess -> MobRecord] /\ \A s \in MSess : mob[s] = Unused
    BY <1>1 DEF MobInit
  <1>3. MobShape(mob, mq, mwait, issued)
    BY MobAssumption DEF MobInit, MobShape, Unused
  <1>4. MobTicketed(mob, mmap, issued)
    <2>1. mmap \in [MThread -> [Ticket -> MSess \cup {NoSess}]] /\ issued \in Nat
      BY DEF MobInit
    <2>2. \A t \in MThread, k \in Ticket : mmap[t][k] = NoSess
      BY DEF MobInit
    <2>3. \A s \in MSess : mob[s].mid = NoTicket /\ mob[s].st # "live"
      BY <1>2 DEF Unused
    <2> QED
      BY <1>2, <2>1, <2>2, <2>3, MobAssumption DEF MobTicketed, MobTickets
  <1>5. MobHolding(Sockets(mob), mq, fd)
    <2>1. Sockets(mob) \in [MSess -> MSock \cup {NoSock}] /\ \A s \in MSess : Sockets(mob)[s] = NoSock
      BY <1>2 DEF Sockets, Unused
    <2>2. mq \in [MThread -> Seq(MobMessage)] /\ \A t \in MThread : mq[t] = <<>>
      BY DEF MobInit
    <2>3. fd \in [MSock -> {"new", "open", "closed"}] /\ \A c \in MSock : fd[c] = "new"
      BY DEF MobInit
    <2>4. \A c, i : \A t \in MThread : ~Carried(mq, t, i, c)
      BY <2>2 DEF Carried
    <2> QED
      BY <2>1, <2>2, <2>3, <2>4, MobAssumption DEF MobHolding, HeldOnce, HeldOnceOne
  <1> QED
    BY <1>3, <1>4, <1>5 DEF MobInv, MobFacts

LEMMA MobNextInv ==
  ASSUME MobInv, [MobNext]_MobVars
  PROVE  MobInv'
  <1>1. ASSUME NEW s \in MSess, LoseClient(s) PROVE MobInv'
    <2>1. mob[s].st = "live" /\ ShutdownMobile(s, mob[s].relay)
      BY <1>1 DEF LoseClient
    <2>2. mob[s].relay \in BOOLEAN
      BY DEF MobInv, MobFacts, MobTicketed, MobRecord
    <2> QED
      BY <2>1, <2>2, ShutdownMobileInv
  <1>2. ASSUME NEW s \in MSess, AllocationTimeout(s) PROVE MobInv'
    BY ZenonT(30), <1>2, ShutdownMobileInv DEF AllocationTimeout
  <1>3. ASSUME NEW s \in MSess, MobWatchdog(s) PROVE MobInv'
    BY <1>3, EndInv DEF MobWatchdog
  <1>4. CASE UNCHANGED MobVars
    BY <1>4 DEF MobVars, MobInv
  <1>5. CASE MobNext
    BY <1>1, <1>2, <1>3, <1>5, ConnectInv, MobAllocateInv, RefreshTicketInv, MobResumeInv,
       ReceiveMobileInv DEF MobNext
  <1> QED
    BY <1>4, <1>5

LEMMA MobInvImplies == MobInv => TicketsExact /\ SocketHeldOnce
  <1> SUFFICES ASSUME MobInv PROVE TicketsExact /\ SocketHeldOnce
    OBVIOUS
  <1>1. TicketsExact
    BY DEF MobInv, MobFacts, MobTicketed, MobTickets, TicketsExact
  <1>2. ASSUME NEW c \in MSock
        PROVE  LET sessions == {s \in MSess : mob[s].sock = c}
                   messages == UNION {{t} \X {i \in DOMAIN mq[t] : mq[t][i].sock = c} : t \in MThread}
               IN IF fd[c] = "open"
                  THEN \/ messages = {} /\ \E s \in sessions : sessions = {s}
                       \/ sessions = {} /\ \E m \in messages : messages = {m}
                  ELSE sessions = {} /\ messages = {}
    <2> DEFINE sessions == {s \in MSess : mob[s].sock = c}
               messages == UNION {{t} \X {i \in DOMAIN mq[t] : mq[t][i].sock = c} : t \in MThread}
    <2>1. MobHolding(Sockets(mob), mq, fd)
      BY DEF MobInv, MobFacts
    <2>2. HeldOnceOne(Sockets(mob), mq, fd, c)
      BY <2>1 DEF MobHolding, HeldOnce
    <2>3. \A s \in MSess : Sockets(mob)[s] = c <=> s \in sessions
      BY DEF Sockets
    <2>4. \A m : m \in messages <=> \E t \in MThread : \E i \in Nat :
                                       m = <<t, i>> /\ Carried(mq, t, i, c)
      <3>1. \A t \in MThread : DOMAIN mq[t] = 1 .. Len(mq[t]) /\ Len(mq[t]) \in Nat
        BY DEF MobHolding
      <3>2. \A t \in MThread : \A i : i \in DOMAIN mq[t] /\ mq[t][i].sock = c
                                       <=> i \in Nat /\ Carried(mq, t, i, c)
        BY <3>1 DEF Carried
      <3> QED
        BY <3>2
    <2> HIDE DEF sessions, messages
    <2>5. sessions \subseteq MSess
      BY DEF sessions
    <2>6. \A s, o \in sessions : s = o
      BY <2>2, <2>3, <2>5 DEF HeldOnceOne
    <2>7. \A m, o \in messages : m = o
      BY <2>2, <2>4 DEF HeldOnceOne
    <2>8. sessions = {} \/ messages = {}
      BY <2>2, <2>3, <2>4, <2>5 DEF HeldOnceOne
    <2>9. IF fd[c] = "open" THEN sessions # {} \/ messages # {} ELSE sessions = {} /\ messages = {}
      BY ZenonT(30), <2>2, <2>3, <2>4, <2>5 DEF HeldOnceOne
    <2>10. IF fd[c] = "open"
           THEN \/ messages = {} /\ \E s \in sessions : sessions = {s}
                \/ sessions = {} /\ \E m \in messages : messages = {m}
           ELSE sessions = {} /\ messages = {}
      <3>1. sessions # {} => \E s \in sessions : sessions = {s}
        BY <2>6
      <3>2. messages # {} => \E m \in messages : messages = {m}
        BY <2>7
      <3> QED
        BY <2>8, <2>9, <3>1, <3>2
    <2> QED
      BY ZenonT(30), <2>10 DEF sessions, messages
  <1>3. SocketHeldOnce
    BY <1>2 DEF SocketHeldOnce
  <1> QED
    BY <1>1, <1>3

(* Whatever hand-overs, transfers, closures and postponed requests cross,  *)
(* the mobile map of a thread names exactly the live sessions of the       *)
(* thread that hold the ticket, for any number of threads, sessions and    *)
(* tickets (put_session_into_mobile_map, delete_session_from_mobile_map).  *)
THEOREM AlwaysTicketsExact == MobSpec => []TicketsExact
  <1>1. MobInv /\ [MobNext]_MobVars => MobInv'
    BY MobNextInv
  <1>2. MobInv => TicketsExact
    BY MobInvImplies
  <1> QED
    BY MobInitInv, <1>1, <1>2, PTL DEF MobSpec

(* An open client connection has exactly one holder, a session or a        *)
(* message between threads, and a closed one none: no socket leaks and     *)
(* none is closed twice or shared, for any number of connections           *)
(* (detach_ioa_socket, attach_socket_to_session, RMT_MOBILE_SOCKET).       *)
THEOREM AlwaysSocketHeldOnce == MobSpec => []SocketHeldOnce
  <1>1. MobInv /\ [MobNext]_MobVars => MobInv'
    BY MobNextInv
  <1>2. MobInv => SocketHeldOnce
    BY MobInvImplies
  <1> QED
    BY MobInitInv, <1>1, <1>2, PTL DEF MobSpec

-----------------------------------------------------------------------------
(* The pool of ports: TurnPorts *)

(* A remainder lies below its positive divisor: ring indices are ports and *)
(* wrapped counters are counters.                                          *)
LEMMA RemainderBounds ==
  ASSUME NEW a \in Int, NEW b \in Nat \ {0}
  PROVE  a % b \in 0..b - 1
  OBVIOUS

(* The constants' sets, as the steps below use them. *)
LEMMA Ranges ==
  /\ Range \subseteq Port
  /\ Port \subseteq Counter
  /\ {TPS_OUT_OF_RANGE, TPS_TAKEN_SINGLE, TPS_TAKEN_EVEN, TPS_TAKEN_ODD} \subseteq Counter
  /\ \A c \in Counter : Index(c) \in Port
  /\ \A n \in Int : Wrap(n) \in Counter
  <1>1. Range \subseteq Port /\ Port \subseteq Counter
    BY PortsAssumption DEF Range, Port, Counter
  <1>2. {TPS_OUT_OF_RANGE, TPS_TAKEN_SINGLE, TPS_TAKEN_EVEN, TPS_TAKEN_ODD} \subseteq Counter
    BY PortsAssumption DEF Counter, TPS_OUT_OF_RANGE, TPS_TAKEN_SINGLE, TPS_TAKEN_EVEN, TPS_TAKEN_ODD
  <1>3. \A c \in Counter : Index(c) \in Port
    BY PortsAssumption, RemainderBounds DEF Index, Port, Counter
  <1>4. \A n \in Int : Wrap(n) \in Counter
    <2>1. CounterSize \in Nat \ {0}
      BY PortsAssumption
    <2>2. QED
      BY <2>1, RemainderBounds DEF Wrap, Counter
  <1>5. QED
    BY <1>1, <1>2, <1>3, <1>4

(* No port is held twice. *)
PortHeldOnce == \A p \in Range : held[p] <= 1

PortsInv == TypeOK /\ HeldIsTaken /\ PortHeldOnce

(* What turnports_allocate finds is a port of the range that is not taken. *)
LEMMA FoundIsFree ==
  ASSUME TypeOK, NEW c \in Counter, Found(c)
  PROVE  /\ Entry(c) \in Range
         /\ ~IsTaken(status[Entry(c)])
         /\ c + 1 \in Counter
  BY PortsAssumption DEF Found, Skipped, Reached, Window, TypeOK, Counter

(* Initially the ring holds the ports of the range in some order.          *)
LEMMA PortsInitInv == Init => PortsInv
  <1> SUFFICES ASSUME Init PROVE PortsInv
    OBVIOUS
  <1>1. low \in Counter /\ high \in Counter /\ left \in Port /\ held \in [Range -> Nat]
    BY PortsAssumption, Ranges DEF Init, Port, Counter, Range
  <1>2. PICK order \in [Range -> Range] :
          /\ \A p \in Range : \E i \in Range : order[i] = p
          /\ ports = [i \in Port |-> IF i \in Range THEN order[i] ELSE i]
          /\ status = [p \in Port |->
                         IF p \in Range THEN CHOOSE i \in Range : order[i] = p
                         ELSE TPS_OUT_OF_RANGE]
    BY ZenonT(30) DEF Init
  <1>3. ports \in [Port -> Port]
    BY <1>2, Ranges
  <1>4. \A p \in Range : (CHOOSE i \in Range : order[i] = p) \in Range
    BY <1>2
  <1>5. status \in [Port -> Counter]
    BY <1>2, <1>4, Ranges
  <1>6. HeldIsTaken /\ PortHeldOnce
    BY DEF Init, HeldIsTaken, PortHeldOnce
  <1>7. QED
    BY <1>1, <1>3, <1>5, <1>6 DEF PortsInv, TypeOK

(* The range ends before the last port, so turnports_release(tp, -1) finds *)
(* nothing to release.                                                     *)
NotLast == Stop < LastPort

(* What turnports_allocate does to the invariant and to the pool.          *)
LEMMA AllocateStep ==
  ASSUME PortsInv, Allocate
  PROVE  PortsInv' /\ (Pool!Next \/ UNCHANGED held)
  <1>1. PICK c \in Counter :
          \/ /\ Found(c)
             /\ status' = [status EXCEPT ![Entry(c)] = TPS_TAKEN_SINGLE]
             /\ low' = c + 1
             /\ held' = [held EXCEPT ![Entry(c)] = @ + 1]
          \/ /\ Exhausted(c)
             /\ low' = c
             /\ UNCHANGED <<status, held>>
    BY DEF Allocate
  <1>2. CASE Found(c) /\ status' = [status EXCEPT ![Entry(c)] = TPS_TAKEN_SINGLE]
             /\ low' = c + 1 /\ held' = [held EXCEPT ![Entry(c)] = @ + 1]
    <2>1. Entry(c) \in Range /\ ~IsTaken(status[Entry(c)]) /\ c + 1 \in Counter
      BY <1>2, FoundIsFree DEF PortsInv
    <2>2. held[Entry(c)] = 0
      BY <2>1 DEF PortsInv, TypeOK, HeldIsTaken
    <2>3. TypeOK'
      <3>1. TPS_TAKEN_SINGLE \in Counter /\ Entry(c) \in Port
        BY <2>1, Ranges
      <3>2. status' \in [Port -> Counter] /\ held' \in [Range -> Nat]
        BY <1>2, <2>1, <3>1 DEF PortsInv, TypeOK
      <3>3. low' \in Counter
        BY <1>2, <2>1
      <3>4. QED
        BY <3>2, <3>3 DEF PortsInv, TypeOK, Allocate
    <2>4. HeldIsTaken' /\ PortHeldOnce'
      BY <1>2, <2>1, <2>2, Ranges DEF PortsInv, TypeOK, HeldIsTaken, PortHeldOnce, IsTaken
    <2>5. Pool!Take(Entry(c))
      BY <1>2, <2>1, <2>2 DEF Pool!Take, PortsInv, TypeOK
    <2>6. QED
      BY <2>1, <2>3, <2>4, <2>5 DEF PortsInv, Pool!Next
  <1>3. CASE Exhausted(c) /\ low' = c /\ UNCHANGED <<status, held>>
    BY <1>3 DEF PortsInv, TypeOK, HeldIsTaken, PortHeldOnce, Allocate
  <1>4. QED
    BY <1>1, <1>2, <1>3

(* turnports_release gives back what its caller holds.                     *)
LEMMA ReleaseStep ==
  ASSUME PortsInv, NEW p \in Range, Release(p)
  PROVE  PortsInv' /\ Pool!Next
  <1>1. IsTaken(status[p]) /\ held[p] = 1 /\ p \in Port
    BY Ranges DEF PortsInv, TypeOK, HeldIsTaken, PortHeldOnce, Release
  <1>2. /\ status' = [status EXCEPT ![p] = high]
        /\ ports' = [ports EXCEPT ![Index(high)] = p]
        /\ high' = Wrap(high + 1)
        /\ held' = [held EXCEPT ![p] = 0]
        /\ UNCHANGED <<low, left>>
    BY <1>1 DEF Release, PortsInv, TypeOK
  <1>3. Wrap(high + 1) \in Counter
    BY Ranges, PortsAssumption DEF PortsInv, TypeOK, Counter
  <1>4. TypeOK'
    BY <1>1, <1>2, <1>3, Ranges DEF PortsInv, TypeOK
  <1>5. HeldIsTaken' /\ PortHeldOnce'
    BY <1>1, <1>2, Ranges DEF PortsInv, TypeOK, HeldIsTaken, PortHeldOnce
  <1>6. Pool!Give(p)
    BY <1>1, <1>2 DEF Pool!Give
  <1>7. QED
    BY <1>4, <1>5, <1>6 DEF PortsInv, Pool!Next

(* A successful iteration of turnports_allocate_even takes a free pair.    *)
LEMMA EvenTakeStep ==
  ASSUME PortsInv, EvenTake
  PROVE  PortsInv' /\ Pool!Next
  <1>1. PICK c \in Counter :
          /\ Found(c)
          /\ Entry(c) % 2 = 0 /\ Entry(c) + 1 <= Stop /\ IsAvailable(Entry(c) + 1)
          /\ status' = [status EXCEPT ![Entry(c)] = TPS_TAKEN_EVEN,
                                      ![Entry(c) + 1] = TPS_TAKEN_ODD]
          /\ low' = c + 1
          /\ held' = [held EXCEPT ![Entry(c)] = @ + 1, ![Entry(c) + 1] = @ + 1]
    BY ZenonT(30) DEF EvenTake
  <1> DEFINE p == Entry(c)
             q == Entry(c) + 1
  <1>2. p \in Range /\ ~IsTaken(status[p]) /\ c + 1 \in Counter
    BY <1>1, FoundIsFree DEF PortsInv
  <1>3. q \in Range /\ p # q /\ p \in Port /\ q \in Port
    <2>1. p \in Int /\ Start <= p /\ p <= Stop
      BY <1>2, PortsAssumption DEF Range, Port
    <2>2. q \in Range /\ p # q
      BY <1>1, <2>1, PortsAssumption DEF Range, Port
    <2>3. QED
      BY <1>2, <2>2, Ranges
  <1>4. ~IsTaken(status[q])
    BY <1>1 DEF IsAvailable
  <1>5. held[p] = 0 /\ held[q] = 0
    BY <1>2, <1>3, <1>4 DEF PortsInv, TypeOK, HeldIsTaken
  <1>6. TPS_TAKEN_EVEN \in Counter /\ TPS_TAKEN_ODD \in Counter /\ 0 \in Port
    BY Ranges, PortsAssumption DEF Port
  <1>7. /\ status' \in [Port -> Counter]
        /\ status'[p] = TPS_TAKEN_EVEN
        /\ status'[q] = TPS_TAKEN_ODD
        /\ \A r \in Port \ {p, q} : status'[r] = status[r]
    <2> HIDE DEF p
    <2>1. status' = [status EXCEPT ![p] = TPS_TAKEN_EVEN, ![q] = TPS_TAKEN_ODD]
      BY <1>1 DEF p
    <2>2. QED
      BY <2>1, <1>3, <1>6 DEF PortsInv, TypeOK
  <1>8. /\ held' = [held EXCEPT ![p] = 1, ![q] = 1]
        /\ held' \in [Range -> Nat]
        /\ \A r \in Range : held'[r] = IF r \in {p, q} THEN 1 ELSE held[r]
    <2> HIDE DEF p
    <2>1. held' = [held EXCEPT ![p] = @ + 1, ![q] = @ + 1]
      BY <1>1 DEF p
    <2>2. QED
      BY <2>1, <1>3, <1>5 DEF PortsInv, TypeOK
  <1>9. TypeOK'
    BY <1>1, <1>2, <1>6, <1>7, <1>8 DEF PortsInv, TypeOK, EvenTake
  <1>10. HeldIsTaken' /\ PortHeldOnce'
    <2> HIDE DEF p, q
    <2> QED
      BY <1>3, <1>7, <1>8, Ranges DEF PortsInv, HeldIsTaken, PortHeldOnce, IsTaken
  <1>11. Pool!TakePair(p)
    BY <1>1, <1>2, <1>3, <1>5, <1>8 DEF Pool!TakePair
  <1>12. QED
    BY <1>2, <1>9, <1>10, <1>11 DEF PortsInv, Pool!Next

(* An iteration that rejects its port puts it back.                        *)
LEMMA EvenSkipStep ==
  ASSUME PortsInv, EvenSkip
  PROVE  PortsInv' /\ UNCHANGED held
  <1>1. PICK c \in Counter :
          /\ Found(c)
          /\ status' = [status EXCEPT ![Entry(c)] = high]
          /\ ports' = [ports EXCEPT ![Index(high)] = Entry(c)]
          /\ low' = c + 1
    BY ZenonT(30) DEF EvenSkip
  <1>2. Entry(c) \in Range /\ ~IsTaken(status[Entry(c)]) /\ c + 1 \in Counter /\ Entry(c) \in Port
    BY <1>1, FoundIsFree, Ranges DEF PortsInv
  <1>3. held[Entry(c)] = 0
    BY <1>2 DEF PortsInv, TypeOK, HeldIsTaken
  <1>4. high' \in Counter /\ left' \in Port
    <2>1. high + 1 \in Int /\ high' = Wrap(high + 1)
      BY PortsAssumption DEF PortsInv, TypeOK, EvenSkip, Counter
    <2>2. left' \in Port
      BY PortsAssumption DEF PortsInv, TypeOK, EvenSkip, Port
    <2>3. QED
      BY <2>1, <2>2, Ranges
  <1>5. status' \in [Port -> Counter] /\ ports' \in [Port -> Port]
    BY <1>1, <1>2, ZenonT(30) DEF PortsInv, TypeOK
  <1>6. QED
    BY <1>1, <1>2, <1>3, <1>4, <1>5, Ranges DEF PortsInv, TypeOK, HeldIsTaken, PortHeldOnce, EvenSkip

(* An iteration that finds no port changes no port of the range.           *)
LEMMA EvenNoneStep ==
  ASSUME NotLast, PortsInv, EvenNone
  PROVE  PortsInv' /\ UNCHANGED held
  <1>1. LastPort \notin Range
    BY PortsAssumption DEF NotLast, LastPort, Range, Port
  <1>2. UNCHANGED <<status, ports, high, held>> /\ left' = left - 1 /\ left # 0 /\ low' \in Counter
    BY <1>1 DEF EvenNone
  <1>3. left' \in Port
    BY <1>2, PortsAssumption DEF PortsInv, TypeOK, Port
  <1>4. QED
    BY <1>2, <1>3 DEF PortsInv, TypeOK, HeldIsTaken, PortHeldOnce

(* Every step keeps the invariant and is a step of the pool or none.       *)
LEMMA NextStep ==
  ASSUME NotLast, PortsInv, [Next]_vars
  PROVE  PortsInv' /\ (Pool!Next \/ UNCHANGED held)
  <1>1. CASE Allocate
    BY <1>1, AllocateStep
  <1>2. CASE AllocateEven
    <2>1. high - low \in Int
      BY PortsAssumption DEF PortsInv, TypeOK, Counter
    <2>2. Size \in Port
      BY <2>1, Ranges DEF Size
    <2>3. QED
      BY <1>2, <2>2 DEF AllocateEven, PortsInv, TypeOK, HeldIsTaken, PortHeldOnce
  <1>3. CASE EvenTake
    BY <1>3, EvenTakeStep
  <1>4. CASE EvenSkip
    BY <1>4, EvenSkipStep
  <1>5. CASE EvenNone
    BY <1>5, EvenNoneStep
  <1>6. ASSUME NEW p \in Range, Release(p) PROVE PortsInv' /\ Pool!Next
    BY <1>6, ReleaseStep
  <1>7. CASE UNCHANGED vars
    BY <1>7 DEF vars, PortsInv, TypeOK, HeldIsTaken, PortHeldOnce
  <1>8. QED
    BY <1>1, <1>2, <1>3, <1>4, <1>5, <1>6, <1>7 DEF Next

(* turnports_allocate never meets a port that a socket holds: such a port  *)
(* is marked taken in every reachable state.                               *)
THEOREM HeldPortsAreTaken ==
  ASSUME NotLast
  PROVE  Spec => []HeldIsTaken
  <1>1. Init => PortsInv
    BY PortsInitInv
  <1>2. PortsInv /\ [Next]_vars => PortsInv'
    BY NextStep
  <1>3. PortsInv => HeldIsTaken
    BY DEF PortsInv
  <1>4. QED
    BY <1>1, <1>2, <1>3, PTL DEF Spec

(* turn_ports.c implements the pool: a port is handed out to one socket at *)
(* a time.                                                                 *)
THEOREM PortsImplementPool ==
  ASSUME NotLast
  PROVE  Spec => ImplementsPool
  <1>1. Init => PortsInv /\ Pool!Init
    BY PortsInitInv, ZenonT(30) DEF Init, Pool!Init
  <1>2. PortsInv /\ [Next]_vars => PortsInv' /\ [Pool!Next]_held
    BY NextStep
  <1>3. QED
    BY <1>1, <1>2, PTL DEF Spec, ImplementsPool, Pool!Spec
=============================================================================
