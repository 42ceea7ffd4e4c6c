------------------------- MODULE RelayThreadProofs --------------------------
(***************************************************************************)
(* Proofs about what a relay thread keeps for its sessions, for any number *)
(* of sessions, peers, users, keys and requests: the demultiplexing table of *)
(* multiplex-peer mode, and the keys that requests are checked with.       *)
(***************************************************************************)
EXTENDS Auth, MultiplexPeer, TLAPS

(* A leaf that names no prover goes to the SMT solver, for up to 30 seconds. *)
USE SMTT(30)

-----------------------------------------------------------------------------
(* The authentication of requests *)

AuthSession ==
  [state : {"none", "open", "closing", "gone"}, nonce : Nat, stale : BOOLEAN,
   user : AuthUser \cup {NoAuth}, key : AuthKey \cup {NoKey}, oauth : BOOLEAN,
   realm : AuthRealm, origin : DOMAIN OriginRealm \cup {NoAuth},
   pinned : BOOLEAN, tid : Nat]
AuthMessage ==
  [ses : AuthSess, req : Nat, q : Request, user : AuthUser, realm : AuthRealm,
   oauth : BOOLEAN, success : BOOLEAN, key : AuthKey \cup {NoKey}]
AuthVerdict == {"done", "ask", "300", "400", "401", "437", "438", "441"}
AuthOutcome == AuthVerdict \cup {"pending", "dropped"}
AuthEntry == [ses : AuthSess, q : Request, outcome : AuthOutcome]

(* A key of a session was granted to it and, without OAuth, is its user's. *)
KeyGood(ss, g, mode) ==
  /\ ss.key # NoKey => ss.key \in g
  /\ mode # "oauth" => /\ ~ss.oauth
                       /\ ss.key # NoKey => ss.key[1] = ss.user /\ ss.user # NoAuth

(* A message between the threads belongs to its request, a success in it   *)
(* was granted, and without OAuth its session has still the same user.     *)
MessageGood(m, log, S, G, mode) ==
  /\ m.req \in 1 .. Len(log) /\ log[m.req].ses = m.ses /\ log[m.req].q = m.q
  /\ S[m.ses].state # "none" /\ m.user = m.q.user
  /\ m.success => m.key \in G[m.ses]
  /\ mode # "oauth" => /\ ~m.oauth /\ S[m.ses].user = m.user
                       /\ m.success => m.key[1] = m.user

AllGood(q, log, S, G, mode) == \A i \in 1 .. Len(q) : MessageGood(q[i], log, S, G, mode)

(* A request that ran had a key that was granted.                          *)
EntryGood(a, G) ==
  a.outcome = "done" /\ NeedsAuth(a.q) =>
    a.q.key \in G[a.ses] /\ (opt.mode # "oauth" => a.q.key[1] = a.q.user)
EntriesGood(log, G) == \A i \in 1 .. Len(log) : EntryGood(log[i], G)

AuthTypes ==
  /\ ses \in [AuthSess -> AuthSession] /\ accounts \in [AuthUser -> Password]
  /\ asked \in Seq(AuthEntry) /\ authq \in [AuthThread -> Seq(AuthMessage)]
  /\ resumeq \in Seq(AuthMessage) /\ authcount \in Nat
  /\ granted \in [AuthSess -> SUBSET AuthKey]
AuthGood ==
  /\ \A s \in AuthSess : KeyGood(ses[s], granted[s], opt.mode)
  /\ \A t \in AuthThread : AllGood(authq[t], asked, ses, granted, opt.mode)
  /\ AllGood(resumeq, asked, ses, granted, opt.mode)
  /\ EntriesGood(asked, granted)
AuthInv == AuthTypes /\ AuthGood

-----------------------------------------------------------------------------
(* check_stun_auth and handle_turn_command *)

(* What a handler may do to a session, with the keys g granted to it.      *)
SessionKept(ss, x, g, mode) ==
  /\ x \in AuthSession /\ x.state = ss.state /\ KeyGood(x, g, mode)
  /\ mode # "oauth" /\ ss.user # NoAuth => x.user = ss.user

SameUser(ss, x) ==
  /\ x \in AuthSession /\ x.state = ss.state /\ x.key = ss.key /\ x.user = ss.user
  /\ x.oauth = ss.oauth

LEMMA WithNonceSession ==
  ASSUME NEW ss \in AuthSession, NEW x, x = WithNonce(ss)
  PROVE  SameUser(ss, x)
  <1>1. PICK k : k = ss.nonce + 1
    OBVIOUS
  <1>2. k \in Nat
    <2>1. ss.nonce \in Nat
      BY DEF AuthSession
    <2> QED
      BY <1>1, <2>1
  <1>3. CASE x = ss
    BY <1>3 DEF SameUser
  <1>4. CASE x = [ss EXCEPT !.nonce = k, !.stale = FALSE]
    BY ZenonT(30), <1>2, <1>4 DEF AuthSession, SameUser
  <1> QED
    BY <1>1, <1>3, <1>4 DEF WithNonce

LEMMA WithOriginSession ==
  ASSUME NEW ss \in AuthSession, NEW q \in Request, NEW x, x = WithOrigin(ss, q)
  PROVE  SameUser(ss, x)
  <1>1. PICK o : o = q.origin
    OBVIOUS
  <1>2. PICK re : re = OriginRealm[q.origin]
    OBVIOUS
  <1>3. CASE x = ss
    BY <1>3 DEF SameUser
  <1>4. CASE x # ss
    <2>1. x = [ss EXCEPT !.origin = o, !.realm = re] /\ o # NoAuth
      BY <1>1, <1>2, <1>4 DEF WithOrigin
    <2>2. o \in DOMAIN OriginRealm /\ re \in AuthRealm
      BY <1>1, <1>2, <2>1, AuthAssumption
    <2> QED
      BY ZenonT(30), <2>1, <2>2 DEF AuthSession, SameUser
  <1> QED
    BY <1>3, <1>4

LEMMA ExecuteSession ==
  ASSUME NEW ss \in AuthSession, NEW q \in Request, NEW r \in Nat, NEW x, x = Execute(ss, q, r)
  PROVE  SameUser(ss, x)
  <1>1. CASE q.method = "allocate"
    <2>1. NeedsAuth(q) = TRUE
      BY <1>1 DEF NeedsAuth
    <2>2. x = [ss EXCEPT !.pinned = TRUE, !.tid = r]
      BY <1>1, <2>1 DEF Execute
    <2> QED
      BY ZenonT(30), <2>2 DEF AuthSession, SameUser
  <1>2. CASE q.method # "allocate"
    BY <1>2 DEF Execute, SameUser
  <1> QED
    BY <1>1, <1>2

LEMMA SameUserKept ==
  ASSUME NEW ss, NEW x, SameUser(ss, x), NEW g, NEW mode, KeyGood(ss, g, mode)
  PROVE  SessionKept(ss, x, g, mode)
  BY DEF SameUser, SessionKept, KeyGood

LEMMA WithUserSession ==
  ASSUME NEW ss \in AuthSession, NEW q \in Request, q.user # NoAuth, ~WrongUser(ss, q),
         NEW g, NEW mode, KeyGood(ss, g, mode), NEW x, x = WithUser(ss, q)
  PROVE  SessionKept(ss, x, g, mode) /\ x.user = q.user
  <1>1. PICK u : u = q.user
    OBVIOUS
  <1>2. u \in AuthUser
    BY <1>1, AuthAssumption
  <1>3. CASE ss.user \in {NoAuth, u}
    <2>1. x = [ss EXCEPT !.user = u]
      BY <1>1, <1>3 DEF WithUser
    <2>2. /\ x \in AuthSession /\ x.state = ss.state /\ x.key = ss.key /\ x.oauth = ss.oauth
          /\ x.user = u
      BY <1>2, <2>1 DEF AuthSession
    <2> QED
      BY <1>1, <1>3, <2>2 DEF SessionKept, KeyGood
  <1>4. CASE ss.user \notin {NoAuth, u}
    <2>1. x = [ss EXCEPT !.user = u, !.key = NoKey] /\ ss.oauth
      BY <1>1, <1>4 DEF WithUser, WrongUser
    <2>2. /\ x \in AuthSession /\ x.state = ss.state /\ x.key = NoKey /\ x.user = u
      BY ZenonT(30), <1>2, <2>1 DEF AuthSession
    <2>3. mode = "oauth"
      BY <2>1 DEF KeyGood
    <2> QED
      BY <1>1, <2>2, <2>3 DEF SessionKept, KeyGood
  <1> QED
    BY <1>3, <1>4

(* What a verdict on a request says.                                       *)
VerdictGood(x, verdict, q, g, mode) ==
  /\ verdict = "ask" => x.user = q.user /\ q.user # NoAuth
  /\ verdict \in {"ok", "done"} => q.key \in g /\ (mode # "oauth" => q.key[1] = q.user)

LEMMA CheckGood ==
  ASSUME NEW ss \in AuthSession, NEW q \in Request, NEW can, NEW g, NEW mode,
         KeyGood(ss, g, mode), NEW c, c = check_stun_auth(ss, q, can)
  PROVE  /\ SessionKept(ss, c.ss, g, mode) /\ VerdictGood(c.ss, c.verdict, q, g, mode)
         /\ c.verdict \in (AuthVerdict \ {"done"}) \cup {"ok"}
  <1> DEFINE n == WithNonce(ss)
             x == WithUser(n, q)
  <1>1. SameUser(ss, n)
    BY WithNonceSession
  <1>2. n \in AuthSession /\ KeyGood(n, g, mode) /\ SessionKept(ss, n, g, mode)
    BY <1>1, SameUserKept DEF SessionKept
  <1> HIDE DEF n
  <1>3. CASE \E code \in {"401", "400", "437", "441"} : c = [ss |-> n, verdict |-> code]
    BY <1>2, <1>3 DEF VerdictGood, AuthVerdict
  <1>4. CASE /\ q.user # NoAuth /\ ~WrongUser(n, q)
             /\ c = CredentialCheck(x, q, ss.nonce = 0, can)
    <2>1. SessionKept(n, x, g, mode) /\ x.user = q.user
      BY <1>2, <1>4, WithUserSession
    <2> HIDE DEF x
    <2>2. SessionKept(ss, x, g, mode)
      BY <1>1, <2>1 DEF SessionKept, SameUser
    <2>3. /\ c.ss = x
          /\ \/ c.verdict = "400"
             \/ c.verdict = "438"
             \/ c.verdict = "ok" /\ x.key # NoKey /\ q.key = x.key
             \/ c.verdict = "ask"
             \/ c.verdict = "401"
      BY <1>4 DEF CredentialCheck
    <2>4. VerdictGood(x, c.verdict, q, g, mode)
      BY <1>4, <2>1, <2>2, <2>3 DEF VerdictGood, SessionKept, KeyGood
    <2> QED
      BY <2>2, <2>3, <2>4 DEF AuthVerdict
  <1>5. \/ \E code \in {"401", "400", "437", "441"} : c = [ss |-> n, verdict |-> code]
        \/ /\ q.user # NoAuth /\ ~WrongUser(n, q)
           /\ c = CredentialCheck(x, q, ss.nonce = 0, can)
    <2> HIDE DEF x
    <2> QED
      BY DEF check_stun_auth, MismatchCode, n, x
  <1> QED
    BY <1>3, <1>4, <1>5

LEMMA HandleGood ==
  ASSUME NEW ss \in AuthSession, NEW q \in Request, NEW r \in Nat, NEW can, NEW g,
         KeyGood(ss, g, opt.mode), NEW h, h = handle_turn_command(ss, q, r, can)
  PROVE  /\ SessionKept(ss, h.ss, g, opt.mode) /\ h.verdict \in AuthVerdict
         /\ NeedsAuth(q) => VerdictGood(h.ss, h.verdict, q, g, opt.mode)
         /\ ~NeedsAuth(q) => h.verdict = "done"
  <1> DEFINE o == WithOrigin(ss, q)
             c == check_stun_auth(o, q, can)
  <1>0. SessionKept(ss, ss, g, opt.mode)
    BY DEF SessionKept
  <1>1. SameUser(ss, o)
    BY WithOriginSession
  <1>2. o \in AuthSession /\ KeyGood(o, g, opt.mode)
    BY <1>1, SameUserKept DEF SessionKept
  <1> HIDE DEF o
  <1>3. /\ SessionKept(o, c.ss, g, opt.mode) /\ VerdictGood(c.ss, c.verdict, q, g, opt.mode)
        /\ c.verdict \in (AuthVerdict \ {"done"}) \cup {"ok"}
    BY <1>2, CheckGood
  <1> HIDE DEF c
  <1>4. SessionKept(ss, c.ss, g, opt.mode)
    BY <1>1, <1>3 DEF SessionKept, SameUser
  <1>5. CASE ~NeedsAuth(q)
    <2>1. h = [ss |-> ss, verdict |-> "done"]
      BY <1>5 DEF handle_turn_command
    <2> QED
      BY <1>0, <1>5, <2>1 DEF AuthVerdict
  <1>6. CASE NeedsAuth(q) /\ \E code \in {"300", "441", "437"} : h = [ss |-> ss, verdict |-> code]
    BY <1>0, <1>6 DEF AuthVerdict, VerdictGood
  <1>7. CASE NeedsAuth(q) /\ c.verdict = "ok" /\ h = [ss |-> Execute(c.ss, q, r), verdict |-> "done"]
    <2> DEFINE e == Execute(c.ss, q, r)
    <2>1. c.ss \in AuthSession /\ KeyGood(c.ss, g, opt.mode)
      BY <1>3 DEF SessionKept
    <2>2. SameUser(c.ss, e)
      BY <2>1, ExecuteSession
    <2> HIDE DEF e
    <2>3. SessionKept(ss, e, g, opt.mode)
      BY <1>4, <2>2 DEF SessionKept, SameUser, KeyGood
    <2>4. h.ss = e /\ h.verdict = "done"
      BY <1>7 DEF e
    <2>5. VerdictGood(e, "done", q, g, opt.mode)
      BY <1>3, <1>7 DEF VerdictGood
    <2> QED
      BY <1>7, <2>3, <2>4, <2>5 DEF AuthVerdict
  <1>8. CASE NeedsAuth(q) /\ c.verdict # "ok" /\ h = c
    BY <1>3, <1>4, <1>8
  <1> QED
    BY ZenonT(30), <1>5, <1>6, <1>7, <1>8 DEF handle_turn_command, c, o
-----------------------------------------------------------------------------
(* Queues, the log of requests and the passage of time *)

LEMMA AllGoodTail ==
  ASSUME NEW q \in Seq(AuthMessage), q # <<>>, NEW L, NEW S, NEW G, NEW mode,
         AllGood(q, L, S, G, mode)
  PROVE  /\ Head(q) \in AuthMessage /\ Tail(q) \in Seq(AuthMessage)
         /\ MessageGood(Head(q), L, S, G, mode) /\ AllGood(Tail(q), L, S, G, mode)
  <1>1. /\ Len(q) \in Nat \ {0} /\ Head(q) = q[1] /\ Tail(q) \in Seq(AuthMessage)
        /\ Len(Tail(q)) = Len(q) - 1 /\ \A i \in 1 .. Len(q) - 1 : Tail(q)[i] = q[i + 1]
    OBVIOUS
  <1>2. Head(q) \in AuthMessage /\ 1 \in 1 .. Len(q)
    BY <1>1
  <1>3. \A i \in 1 .. Len(q) - 1 : i + 1 \in 1 .. Len(q)
    BY <1>1
  <1> QED
    BY <1>1, <1>2, <1>3 DEF AllGood

LEMMA AllGoodAppend ==
  ASSUME NEW q \in Seq(AuthMessage), NEW m \in AuthMessage, NEW L, NEW S, NEW G, NEW mode,
         AllGood(q, L, S, G, mode), MessageGood(m, L, S, G, mode)
  PROVE  Append(q, m) \in Seq(AuthMessage) /\ AllGood(Append(q, m), L, S, G, mode)
  <1>1. /\ Append(q, m) \in Seq(AuthMessage) /\ Len(Append(q, m)) = Len(q) + 1 /\ Len(q) \in Nat
        /\ Append(q, m)[Len(q) + 1] = m /\ \A i \in 1 .. Len(q) : Append(q, m)[i] = q[i]
    OBVIOUS
  <1>2. \A i \in 1 .. Len(q) + 1 : i \in 1 .. Len(q) \/ i = Len(q) + 1
    BY <1>1
  <1> QED
    BY <1>1, <1>2 DEF AllGood

(* The log, the sessions and the keys granted only grow.                   *)
Later(S, L, G, S2, L2, G2, mode) ==
  /\ Len(L2) \in Nat /\ Len(L) <= Len(L2)
  /\ \A i \in 1 .. Len(L) : L2[i].ses = L[i].ses /\ L2[i].q = L[i].q
  /\ \A s \in AuthSess :
       /\ G[s] \subseteq G2[s]
       /\ S[s].state # "none" =>
            /\ S2[s].state # "none"
            /\ mode # "oauth" /\ S[s].user # NoAuth => S2[s].user = S[s].user

LEMMA MessageLater ==
  ASSUME NEW m \in AuthMessage, NEW L \in Seq(AuthEntry), NEW S, NEW G, NEW L2, NEW S2, NEW G2,
         NEW mode, MessageGood(m, L, S, G, mode), Later(S, L, G, S2, L2, G2, mode)
  PROVE  MessageGood(m, L2, S2, G2, mode)
  <1>1. m.ses \in AuthSess /\ m.user # NoAuth /\ Len(L) \in Nat
    BY AuthAssumption DEF AuthMessage
  <1>2. m.req \in 1 .. Len(L2)
    BY <1>1 DEF MessageGood, Later
  <1> QED
    BY <1>1, <1>2 DEF MessageGood, Later

LEMMA AllGoodLater ==
  ASSUME NEW q \in Seq(AuthMessage), NEW L \in Seq(AuthEntry), NEW S, NEW G, NEW L2, NEW S2,
         NEW G2, NEW mode, AllGood(q, L, S, G, mode), Later(S, L, G, S2, L2, G2, mode)
  PROVE  AllGood(q, L2, S2, G2, mode)
  <1>1. \A i \in 1 .. Len(q) : q[i] \in AuthMessage
    OBVIOUS
  <1> QED
    BY <1>1, MessageLater DEF AllGood

SettledIn(L, r, o) == [L EXCEPT ![r].outcome = o]

SettledAs(L, N, r, o) ==
  /\ N \in Seq(AuthEntry) /\ Len(N) = Len(L) /\ N[r].outcome = o
  /\ \A i \in 1 .. Len(L) : /\ N[i].ses = L[i].ses /\ N[i].q = L[i].q
                            /\ i # r => N[i] = L[i]

LEMMA SettledLog ==
  ASSUME NEW L \in Seq(AuthEntry), NEW r \in 1 .. Len(L),
         NEW o \in AuthOutcome,
         NEW N, N = SettledIn(L, r, o)
  PROVE  SettledAs(L, N, r, o)
  <1>1. PICK e : e = [L[r] EXCEPT !.outcome = o]
    BY ZenonT(30)
  <1>2. L[r] \in AuthEntry
    OBVIOUS
  <1>3. e \in AuthEntry /\ e.ses = L[r].ses /\ e.q = L[r].q /\ e.outcome = o
    BY <1>1, <1>2 DEF AuthEntry
  <1>4. N = [L EXCEPT ![r] = e]
    BY <1>1 DEF SettledIn
  <1>5. /\ N \in Seq(AuthEntry) /\ Len(N) = Len(L) /\ N[r] = e
        /\ \A i \in 1 .. Len(L) : i # r => N[i] = L[i]
    BY <1>3, <1>4
  <1> QED
    BY <1>3, <1>5 DEF SettledAs

LEMMA AppendedLog ==
  ASSUME NEW L \in Seq(AuthEntry), NEW s \in AuthSess, NEW q \in Request,
         NEW o \in AuthOutcome,
         NEW N, N = Append(L, [ses |-> s, q |-> q, outcome |-> o])
  PROVE  /\ N \in Seq(AuthEntry) /\ Len(N) = Len(L) + 1 /\ Len(L) \in Nat
         /\ \A i \in 1 .. Len(L) : N[i] = L[i]
         /\ N[Len(L) + 1] = [ses |-> s, q |-> q, outcome |-> o]
  <1>1. PICK e : e = [ses |-> s, q |-> q, outcome |-> o]
    OBVIOUS
  <1>2. e \in AuthEntry
    BY <1>1 DEF AuthEntry
  <1>3. /\ N \in Seq(AuthEntry) /\ Len(N) = Len(L) + 1 /\ Len(L) \in Nat /\ N[Len(L) + 1] = e
        /\ \A i \in 1 .. Len(L) : N[i] = L[i]
    BY <1>1, <1>2
  <1> QED
    BY <1>1, <1>3

LEMMA EntriesLater ==
  ASSUME NEW L \in Seq(AuthEntry), NEW G, NEW G2, \A s \in AuthSess : G[s] \subseteq G2[s],
         EntriesGood(L, G)
  PROVE  EntriesGood(L, G2)
  <1>1. ASSUME NEW i \in 1 .. Len(L) PROVE L[i].ses \in AuthSess
    <2>1. L[i] \in AuthEntry
      OBVIOUS
    <2> QED
      BY <2>1 DEF AuthEntry
  <1> QED
    BY <1>1 DEF EntriesGood, EntryGood

-----------------------------------------------------------------------------
(* The user check *)

LEMMA UserKeyGood ==
  ASSUME NEW m \in AuthMessage, accounts \in [AuthUser -> Password],
         opt.mode # "oauth" => ~m.oauth
  PROVE  /\ get_user_key(m) \subseteq AuthKey
         /\ opt.mode # "oauth" => ~IsOauth(m) /\ \A k \in get_user_key(m) : k[1] = m.user
  <1>1. ByToken(m) \subseteq AuthKey /\ BySecret(m) \subseteq AuthKey
    BY DEF ByToken, BySecret
  <1>2. \A k \in BySecret(m) : k[1] = m.user
    BY DEF BySecret
  <1>3. ByAccount(m) \subseteq AuthKey /\ \A k \in ByAccount(m) : k[1] = m.user
    <2>1. m.user \in AuthUser /\ accounts[m.user] \in Password
      BY DEF AuthMessage
    <2>2. PICK re : re = IF m.user \in StaticUser THEN DefaultRealm ELSE m.realm
      OBVIOUS
    <2>3. re \in AuthRealm
      BY <2>2, AuthAssumption DEF AuthMessage
    <2>4. ByAccount(m) = {<<m.user, re, accounts[m.user]>>}
      BY <2>2 DEF ByAccount
    <2> QED
      BY <2>1, <2>3, <2>4 DEF AuthKey
  <1> QED
    BY <1>1, <1>2, <1>3 DEF get_user_key, IsOauth

LEMMA AnsweredGood ==
  ASSUME NEW m \in AuthMessage, accounts \in [AuthUser -> Password], NEW L, NEW S, NEW G,
         MessageGood(m, L, S, G, opt.mode), NEW G2, G2[m.ses] = G[m.ses] \cup get_user_key(m)
  PROVE  Answered(m) \in AuthMessage /\ MessageGood(Answered(m), L, S, G2, opt.mode)
  <1>0. /\ m.realm \in AuthRealm /\ m.ses \in AuthSess
        /\ opt.mode # "oauth" => ~m.oauth
    BY DEF AuthMessage, MessageGood
  <1>1. /\ get_user_key(m) \subseteq AuthKey
        /\ opt.mode # "oauth" => ~IsOauth(m) /\ \A k \in get_user_key(m) : k[1] = m.user
    BY <1>0, UserKeyGood
  <1>2. PICK ok : ok = (get_user_key(m) # {})
    OBVIOUS
  <1>3. PICK k : k = IF get_user_key(m) = {} THEN NoKey ELSE CHOOSE e \in get_user_key(m) : TRUE
    OBVIOUS
  <1>4. PICK re : re = IF IsOauth(m) /\ get_user_key(m) # {} THEN m.q.key[2] ELSE m.realm
    OBVIOUS
  <1>5. PICK oa : oa = IsOauth(m)
    OBVIOUS
  <1>6. /\ ok \in BOOLEAN /\ k \in AuthKey \cup {NoKey}
        /\ ok => k \in get_user_key(m)
    BY ZenonT(30), <1>1, <1>2, <1>3
  <1>7. oa \in BOOLEAN
    <2>1. m.oauth \in BOOLEAN
      BY DEF AuthMessage
    <2> QED
      BY <1>5, <2>1 DEF IsOauth
  <1>8. re \in AuthRealm
    <2>1. CASE IsOauth(m) /\ get_user_key(m) # {}
      <3>1. PICK e \in get_user_key(m) : TRUE
        BY <2>1
      <3>2. e = m.q.key /\ e \in AuthKey
        BY <1>1, <2>1, <3>1 DEF get_user_key, ByToken
      <3>3. e[2] \in AuthRealm
        BY <3>2 DEF AuthKey
      <3> QED
        BY <1>4, <2>1, <3>2, <3>3
    <2> QED
      BY <1>0, <1>4, <2>1
  <1>9. Answered(m) = [m EXCEPT !.success = ok, !.key = k, !.realm = re, !.oauth = oa]
    BY <1>2, <1>3, <1>4, <1>5 DEF Answered
  <1>10. PICK a : a = Answered(m)
    OBVIOUS
  <1>11. /\ a \in AuthMessage /\ a.ses = m.ses /\ a.req = m.req /\ a.q = m.q /\ a.user = m.user
         /\ a.success = ok /\ a.key = k /\ a.oauth = oa
    BY ZenonT(30), <1>6, <1>7, <1>8, <1>9, <1>10 DEF AuthMessage
  <1>12. a.success => a.key \in G2[a.ses]
    BY <1>6, <1>11
  <1>13. opt.mode # "oauth" => ~a.oauth /\ (a.success => a.key[1] = a.user)
    BY <1>1, <1>5, <1>6, <1>11
  <1>14. MessageGood(a, L, S, G2, opt.mode)
    BY <1>11, <1>12, <1>13 DEF MessageGood
  <1> QED
    BY <1>10, <1>11, <1>14

LEMMA RememberGrows ==
  ASSUME NEW m \in AuthMessage, granted \in [AuthSess -> SUBSET AuthKey],
         get_user_key(m) \subseteq AuthKey, NEW N, N = Remember(m)
  PROVE  /\ N \in [AuthSess -> SUBSET AuthKey] /\ \A s \in AuthSess : granted[s] \subseteq N[s]
         /\ N[m.ses] = granted[m.ses] \cup get_user_key(m)
  <1>1. m.ses \in AuthSess
    BY DEF AuthMessage
  <1> QED
    BY <1>1 DEF Remember

-----------------------------------------------------------------------------
(* The steps *)

(* What a step has to show of the state it leads to.                       *)
AuthShape(S, A, L, Q, R, n, G) ==
  /\ S \in [AuthSess -> AuthSession] /\ A \in [AuthUser -> Password]
  /\ L \in Seq(AuthEntry) /\ Q \in [AuthThread -> Seq(AuthMessage)]
  /\ R \in Seq(AuthMessage) /\ n \in Nat /\ G \in [AuthSess -> SUBSET AuthKey]
AuthFine(S, L, Q, R, G) ==
  /\ \A s \in AuthSess : KeyGood(S[s], G[s], opt.mode)
  /\ \A t \in AuthThread : AllGood(Q[t], L, S, G, opt.mode)
  /\ AllGood(R, L, S, G, opt.mode) /\ EntriesGood(L, G)

LEMMA AuthStep ==
  ASSUME NEW S2, NEW A2, NEW L2, NEW Q2, NEW R2, NEW n2, NEW G2,
         AuthShape(S2, A2, L2, Q2, R2, n2, G2), AuthFine(S2, L2, Q2, R2, G2),
         opt' = opt, ses' = S2, accounts' = A2, asked' = L2, authq' = Q2, resumeq' = R2,
         authcount' = n2, granted' = G2
  PROVE  AuthInv'
  <1>1. AuthTypes'
    BY DEF AuthTypes, AuthShape
  <1>2. EntriesGood(asked, granted)'
    BY DEF EntriesGood, EntryGood, NeedsAuth, AuthFine
  <1>3. AuthGood'
    BY <1>2 DEF AuthGood, AuthFine
  <1> QED
    BY <1>1, <1>3 DEF AuthInv

(* A step of one session.                                                  *)
LEMMA SessionUpdate ==
  ASSUME NEW S \in [AuthSess -> AuthSession], NEW G, NEW L \in Seq(AuthEntry),
         NEW L2 \in Seq(AuthEntry), Len(L) <= Len(L2),
         \A i \in 1 .. Len(L) : L2[i].ses = L[i].ses /\ L2[i].q = L[i].q,
         NEW mode, \A r \in AuthSess : KeyGood(S[r], G[r], mode),
         NEW s \in AuthSess, NEW x, x \in AuthSession, KeyGood(x, G[s], mode),
         S[s].state # "none" => /\ x.state # "none"
                                /\ mode # "oauth" /\ S[s].user # NoAuth => x.user = S[s].user,
         NEW S2, S2 = [S EXCEPT ![s] = x]
  PROVE  /\ S2 \in [AuthSess -> AuthSession] /\ S2[s] = x
         /\ \A r \in AuthSess : KeyGood(S2[r], G[r], mode)
         /\ Later(S, L, G, S2, L2, G, mode)
  <1>1. S2 \in [AuthSess -> AuthSession] /\ S2[s] = x /\ \A r \in AuthSess : r # s => S2[r] = S[r]
    OBVIOUS
  <1>2. \A r \in AuthSess : KeyGood(S2[r], G[r], mode)
    BY ZenonT(30), <1>1
  <1>3. Len(L2) \in Nat
    OBVIOUS
  <1>4. Later(S, L, G, S2, L2, G, mode)
    BY <1>1, <1>3 DEF Later
  <1> QED
    BY <1>1, <1>2, <1>4

LEMMA SessionStep ==
  ASSUME AuthInv, NEW s \in AuthSess, NEW x \in AuthSession,
         KeyGood(x, granted[s], opt.mode),
         ses[s].state # "none" =>
           /\ x.state # "none"
           /\ opt.mode # "oauth" /\ ses[s].user # NoAuth => x.user = ses[s].user,
         ses' = [ses EXCEPT ![s] = x],
         UNCHANGED <<opt, accounts, asked, authq, resumeq, authcount, granted>>
  PROVE  AuthInv'
  <1>0. AuthTypes /\ AuthGood
    BY DEF AuthInv
  <1>1. PICK S2 : S2 = [ses EXCEPT ![s] = x]
    OBVIOUS
  <1>2. /\ S2 \in [AuthSess -> AuthSession]
        /\ \A r \in AuthSess : KeyGood(S2[r], granted[r], opt.mode)
        /\ Later(ses, asked, granted, S2, asked, granted, opt.mode)
    <2>1. asked \in Seq(AuthEntry) /\ ses \in [AuthSess -> AuthSession] /\ Len(asked) <= Len(asked)
      BY <1>0 DEF AuthTypes
    <2>2. \A r \in AuthSess : KeyGood(ses[r], granted[r], opt.mode)
      BY <1>0 DEF AuthGood
    <2> QED
      BY ZenonT(30), <1>1, <2>1, <2>2, SessionUpdate
  <1>3. \A t \in AuthThread : AllGood(authq[t], asked, S2, granted, opt.mode)
    BY <1>0, <1>2, AllGoodLater DEF AuthTypes, AuthGood
  <1>4. AllGood(resumeq, asked, S2, granted, opt.mode)
    BY <1>0, <1>2, AllGoodLater DEF AuthTypes, AuthGood
  <1>5. AuthShape(S2, accounts, asked, authq, resumeq, authcount, granted)
    BY <1>0, <1>2 DEF AuthTypes, AuthShape
  <1>6. AuthFine(S2, asked, authq, resumeq, granted)
    BY <1>0, <1>2, <1>3, <1>4 DEF AuthGood, AuthFine
  <1> QED
    BY ZenonT(30), <1>1, <1>5, <1>6, AuthStep

LEMMA OpenSessionInv ==
  ASSUME AuthInv, NEW s \in AuthSess, OpenSession(s)
  PROVE  AuthInv'
  <1>1. PICK x : x = NewAuthSession
    OBVIOUS
  <1>2. x \in AuthSession /\ x.key = NoKey /\ ~x.oauth
    BY <1>1, AuthAssumption DEF NewAuthSession, AuthSession
  <1>3. KeyGood(x, granted[s], opt.mode)
    BY <1>2 DEF KeyGood
  <1> QED
    BY ZenonT(30), <1>1, <1>2, <1>3, SessionStep DEF OpenSession

LEMMA NonceExpiresInv ==
  ASSUME AuthInv, NEW s \in AuthSess, NonceExpires(s)
  PROVE  AuthInv'
  <1>0. ses[s] \in AuthSession /\ KeyGood(ses[s], granted[s], opt.mode)
    BY DEF AuthInv, AuthTypes, AuthGood
  <1>1. PICK x : x = [ses[s] EXCEPT !.stale = TRUE]
    BY ZenonT(30)
  <1>2. SameUser(ses[s], x)
    BY ZenonT(30), <1>0, <1>1 DEF AuthSession, SameUser
  <1>3. KeyGood(x, granted[s], opt.mode)
    BY <1>0, <1>2, SameUserKept DEF SessionKept
  <1>4. ses' = [ses EXCEPT ![s] = x]
    BY <1>1 DEF NonceExpires
  <1> QED
    BY ZenonT(30), <1>2, <1>3, <1>4, SessionStep DEF NonceExpires, SameUser

LEMMA CloseSessionInv ==
  ASSUME AuthInv, NEW s \in AuthSess, CloseSession(s)
  PROVE  AuthInv'
  <1>0. ses[s] \in AuthSession /\ KeyGood(ses[s], granted[s], opt.mode)
    BY DEF AuthInv, AuthTypes, AuthGood
  <1>1. PICK c : c = IF ses[s].state = "open" THEN "closing" ELSE "gone"
    OBVIOUS
  <1>2. PICK x : x = [ses[s] EXCEPT !.state = c]
    BY ZenonT(30)
  <1>3. /\ x \in AuthSession /\ x.state # "none" /\ x.key = ses[s].key /\ x.user = ses[s].user
        /\ x.oauth = ses[s].oauth
    BY <1>0, <1>1, <1>2 DEF AuthSession
  <1>4. KeyGood(x, granted[s], opt.mode)
    BY <1>0, <1>3 DEF KeyGood
  <1>5. ses' = [ses EXCEPT ![s] = x]
    BY <1>1, <1>2 DEF CloseSession
  <1> QED
    BY ZenonT(30), <1>3, <1>4, <1>5, SessionStep DEF CloseSession

LEMMA ChangeAccountInv ==
  ASSUME AuthInv, NEW u \in AuthUser, NEW p \in Password, ChangeAccount(u, p)
  PROVE  AuthInv'
  BY DEF AuthInv, AuthTypes, AuthGood, ChangeAccount, EntriesGood, EntryGood, NeedsAuth

(* What settling a request does to the invariant.                          *)
MaySettle(L, r, o, G) ==
  o = "done" /\ NeedsAuth(L[r].q) =>
    L[r].q.key \in G[L[r].ses] /\ (opt.mode # "oauth" => L[r].q.key[1] = L[r].q.user)
SameRequests(L, N) ==
  Len(N) = Len(L) /\ \A i \in 1 .. Len(L) : N[i].ses = L[i].ses /\ N[i].q = L[i].q

LEMMA SettledGood ==
  ASSUME NEW L \in Seq(AuthEntry), NEW r \in 1 .. Len(L), NEW S, NEW G, NEW mode,
         NEW o \in AuthOutcome, EntriesGood(L, G), MaySettle(L, r, o, G),
         NEW N, N = SettledIn(L, r, o)
  PROVE  /\ N \in Seq(AuthEntry) /\ EntriesGood(N, G) /\ SameRequests(L, N)
         /\ Later(S, L, G, S, N, G, mode)
  <1>1. /\ N \in Seq(AuthEntry) /\ Len(N) = Len(L)
        /\ \A i \in 1 .. Len(L) : /\ N[i].ses = L[i].ses /\ N[i].q = L[i].q
                                  /\ i # r => N[i] = L[i]
        /\ N[r].outcome = o
    <2>1. SettledAs(L, N, r, o)
      BY SettledLog
    <2> QED
      BY <2>1 DEF SettledAs
  <1>2. Len(L) \in Nat
    OBVIOUS
  <1>3. EntryGood(N[r], G)
    BY <1>1 DEF EntryGood, MaySettle
  <1>4. EntriesGood(N, G)
    BY <1>1, <1>3 DEF EntriesGood
  <1>5. Later(S, L, G, S, N, G, mode)
    BY <1>1, <1>2 DEF Later
  <1> QED
    BY <1>1, <1>4, <1>5 DEF SameRequests

(* The message of start_user_check.                                        *)
CheckMessage(s, ss, q, r) ==
  [ses |-> s, req |-> r, q |-> q, user |-> q.user,
   realm |-> IF q.realm # ss.realm THEN ss.realm ELSE q.realm,
   oauth |-> ss.oauth, success |-> FALSE, key |-> NoKey]

LEMMA CheckMessageGood ==
  ASSUME NEW S, NEW s \in AuthSess, S[s] \in AuthSession, NEW q \in Request, q.user # NoAuth,
         NEW L \in Seq(AuthEntry), NEW r \in 1 .. Len(L), L[r].ses = s, L[r].q = q,
         NEW G, NEW mode, KeyGood(S[s], G[s], mode), S[s].state # "none", S[s].user = q.user,
         NEW m, m = CheckMessage(s, S[s], q, r)
  PROVE  m \in AuthMessage /\ MessageGood(m, L, S, G, mode)
  <1>1. PICK ss : ss = S[s]
    OBVIOUS
  <1>2. PICK u : u = q.user
    OBVIOUS
  <1>3. PICK re : re = IF q.realm # ss.realm THEN ss.realm ELSE q.realm
    OBVIOUS
  <1>4. PICK oa : oa = ss.oauth
    OBVIOUS
  <1>5. u \in AuthUser
    BY <1>2, AuthAssumption
  <1>6. re \in AuthRealm /\ oa \in BOOLEAN
    BY <1>1, <1>3, <1>4 DEF AuthSession
  <1>7. r \in Nat
    OBVIOUS
  <1>8. m = [ses |-> s, req |-> r, q |-> q, user |-> u, realm |-> re, oauth |-> oa,
             success |-> FALSE, key |-> NoKey]
    BY <1>1, <1>2, <1>3, <1>4 DEF CheckMessage
  <1>9. m \in AuthMessage
    BY <1>5, <1>6, <1>7, <1>8 DEF AuthMessage
  <1>10. m.ses = s /\ m.req = r /\ m.q = q /\ m.user = u /\ m.oauth = oa /\ ~m.success
    BY <1>8
  <1>11. mode # "oauth" => ~oa
    BY <1>1, <1>4 DEF KeyGood
  <1> QED
    BY <1>2, <1>9, <1>10, <1>11 DEF MessageGood

LEMMA ReceiveInv ==
  ASSUME AuthInv, NEW s \in AuthSess, NEW q \in Request, Receive(s, q)
  PROVE  AuthInv'
  <1> DEFINE Ent(o) == [ses |-> s, q |-> q, outcome |-> o]
  <1>0. AuthTypes /\ AuthGood
    BY DEF AuthInv
  <1>1. /\ ses[s] \in AuthSession /\ KeyGood(ses[s], granted[s], opt.mode) /\ ses[s].state = "open"
        /\ asked \in Seq(AuthEntry) /\ ses \in [AuthSess -> AuthSession] /\ Len(asked) \in Nat
    BY <1>0 DEF AuthTypes, AuthGood, Receive
  <1>2. PICK r : r = Len(asked) + 1
    OBVIOUS
  <1>3. PICK h : h = handle_turn_command(ses[s], q, r, TRUE)
    BY ZenonT(30)
  <1>4. /\ SessionKept(ses[s], h.ss, granted[s], opt.mode) /\ h.verdict \in AuthVerdict
        /\ NeedsAuth(q) => VerdictGood(h.ss, h.verdict, q, granted[s], opt.mode)
        /\ ~NeedsAuth(q) => h.verdict = "done"
    <2>1. r \in Nat
      BY <1>1, <1>2
    <2> QED
      BY ZenonT(30), <1>1, <1>3, <2>1, HandleGood
  <1>5. /\ ses' = [ses EXCEPT ![s] = h.ss] /\ UNCHANGED <<opt, accounts>>
        /\ IF h.verdict = "ask"
           THEN start_user_check(s, h.ss, q, r, Append(asked, Ent("pending")))
           ELSE /\ asked' = Append(asked, Ent(h.verdict))
                /\ UNCHANGED <<authq, resumeq, authcount, granted>>
    BY ZenonT(30), <1>2, <1>3 DEF Receive
  <1>6. PICK S2 : S2 = [ses EXCEPT ![s] = h.ss]
    BY ZenonT(30)
  <1>7. PICK o : o = IF h.verdict = "ask" THEN "pending" ELSE h.verdict
    OBVIOUS
  <1>8. PICK L : L = Append(asked, Ent(o))
    BY ZenonT(30)
  <1>9. o \in AuthOutcome
    BY ZenonT(30), <1>4, <1>7 DEF AuthOutcome
  <1>10. /\ L \in Seq(AuthEntry) /\ Len(L) = r /\ \A i \in 1 .. Len(asked) : L[i] = asked[i]
         /\ L[r] = Ent(o) /\ r \in Nat /\ r \in 1 .. Len(L)
    BY <1>1, <1>2, <1>8, <1>9, AppendedLog
  (* The session and the log afterwards, whatever becomes of the check.    *)
  <1>11. /\ S2 \in [AuthSess -> AuthSession] /\ S2[s] = h.ss
         /\ \A p \in AuthSess : KeyGood(S2[p], granted[p], opt.mode)
         /\ Later(ses, asked, granted, S2, L, granted, opt.mode)
    <2>1. Len(asked) <= Len(L) /\ \A i \in 1 .. Len(asked) : L[i].ses = asked[i].ses /\ L[i].q = asked[i].q
      BY <1>1, <1>2, <1>10
    <2>2. \A p \in AuthSess : KeyGood(ses[p], granted[p], opt.mode)
      BY <1>0 DEF AuthGood
    <2>3. /\ h.ss \in AuthSession /\ KeyGood(h.ss, granted[s], opt.mode) /\ h.ss.state # "none"
          /\ opt.mode # "oauth" /\ ses[s].user # NoAuth => h.ss.user = ses[s].user
      BY <1>1, <1>4 DEF SessionKept
    <2> QED
      BY ZenonT(30), <1>1, <1>6, <1>10, <2>1, <2>2, <2>3, SessionUpdate
  <1>12. \A t \in AuthThread : AllGood(authq[t], L, S2, granted, opt.mode)
    BY <1>0, <1>11, AllGoodLater DEF AuthTypes, AuthGood
  <1>13. AllGood(resumeq, L, S2, granted, opt.mode)
    BY <1>0, <1>11, AllGoodLater DEF AuthTypes, AuthGood
  <1>14. EntriesGood(L, granted)
    <2>1. EntryGood(L[r], granted)
      <3>1. L[r].ses = s /\ L[r].q = q /\ L[r].outcome = o
        BY <1>10
      <3>2. o = "done" /\ NeedsAuth(q) => q.key \in granted[s] /\ (opt.mode # "oauth" => q.key[1] = q.user)
        BY <1>4, <1>7 DEF VerdictGood
      <3> QED
        BY <3>1, <3>2 DEF EntryGood
    <2>2. \A i \in 1 .. Len(asked) : EntryGood(L[i], granted)
      BY <1>0, <1>10 DEF AuthGood, EntriesGood
    <2>3. \A i \in 1 .. Len(L) : i = r \/ i \in 1 .. Len(asked)
      BY <1>1, <1>2, <1>10
    <2> QED
      BY <2>1, <2>2, <2>3 DEF EntriesGood
  <1>15. /\ accounts \in [AuthUser -> Password] /\ authq \in [AuthThread -> Seq(AuthMessage)]
         /\ resumeq \in Seq(AuthMessage) /\ authcount \in Nat /\ granted \in [AuthSess -> SUBSET AuthKey]
    BY <1>0 DEF AuthTypes
  <1> HIDE DEF Ent
  <1>16. CASE h.verdict # "ask"
    <2>1. /\ asked' = L
          /\ UNCHANGED <<authq, resumeq, authcount, granted>>
      BY <1>5, <1>7, <1>8, <1>16
    <2>2. AuthShape(S2, accounts, L, authq, resumeq, authcount, granted)
      BY <1>10, <1>11, <1>15 DEF AuthShape
    <2>3. AuthFine(S2, L, authq, resumeq, granted)
      BY <1>11, <1>12, <1>13, <1>14 DEF AuthFine
    <2> QED
      BY ZenonT(30), <1>5, <1>6, <2>1, <2>2, <2>3, AuthStep
  <1>17. CASE h.verdict = "ask"
    <2> DEFINE m == CheckMessage(s, h.ss, q, r)
               t == (authcount % NAuth) + 1
    <2>1. \/ /\ asked' = SettledIn(L, r, "dropped")
             /\ UNCHANGED <<authq, resumeq, authcount, granted>>
          \/ /\ authq' = [authq EXCEPT ![t] = Append(authq[t], m)]
             /\ authcount' = authcount + 1
             /\ asked' = L
             /\ UNCHANGED <<resumeq, granted>>
          \/ /\ resumeq' = Append(resumeq, Answered(m))
             /\ granted' = Remember(m)
             /\ asked' = L
             /\ UNCHANGED <<authq, authcount>>
      BY <1>5, <1>7, <1>8, <1>17 DEF start_user_check, CheckMessage, SettledIn
    <2>2. m \in AuthMessage /\ MessageGood(m, L, S2, granted, opt.mode)
      <3>1. NeedsAuth(q)
        BY <1>4, <1>17
      <3>2. h.ss.user = q.user /\ q.user # NoAuth
        BY <1>4, <1>17, <3>1 DEF VerdictGood
      <3>3. h.ss \in AuthSession /\ h.ss.state # "none"
        BY <1>1, <1>4 DEF SessionKept
      <3>4. L[r].ses = s /\ L[r].q = q
        BY <1>10 DEF Ent
      <3>5. m = CheckMessage(s, S2[s], q, r)
        BY <1>11
      <3> HIDE DEF m
      <3> QED
        BY ZenonT(30), <1>10, <1>11, <3>2, <3>3, <3>4, <3>5, CheckMessageGood
    <2> HIDE DEF m
    <2>3. t \in AuthThread
      <3>1. authcount % NAuth \in 0 .. NAuth - 1
        BY <1>15, AuthAssumption
      <3> QED
        BY <3>1, AuthAssumption DEF AuthThread
    <2> HIDE DEF t
    <2>4. CASE /\ asked' = SettledIn(L, r, "dropped")
               /\ UNCHANGED <<authq, resumeq, authcount, granted>>
      <3>1. PICK N : N = SettledIn(L, r, "dropped")
        OBVIOUS
      <3>2. "dropped" \in AuthOutcome /\ MaySettle(L, r, "dropped", granted)
        BY DEF AuthOutcome, MaySettle
      <3>3. /\ N \in Seq(AuthEntry) /\ EntriesGood(N, granted)
            /\ Later(S2, L, granted, S2, N, granted, opt.mode)
        BY ZenonT(30), <1>10, <1>14, <3>1, <3>2, SettledGood
      <3>4. \A u \in AuthThread : AllGood(authq[u], N, S2, granted, opt.mode)
        BY <1>10, <1>12, <1>15, <3>3, AllGoodLater
      <3>5. AllGood(resumeq, N, S2, granted, opt.mode)
        BY <1>10, <1>13, <1>15, <3>3, AllGoodLater
      <3>6. AuthShape(S2, accounts, N, authq, resumeq, authcount, granted)
        BY <1>11, <1>15, <3>3 DEF AuthShape
      <3>7. AuthFine(S2, N, authq, resumeq, granted)
        BY <1>11, <3>3, <3>4, <3>5 DEF AuthFine
      <3> QED
        BY ZenonT(30), <1>5, <1>6, <2>4, <3>1, <3>6, <3>7, AuthStep
    <2>5. CASE /\ authq' = [authq EXCEPT ![t] = Append(authq[t], m)]
               /\ authcount' = authcount + 1
               /\ asked' = L
               /\ UNCHANGED <<resumeq, granted>>
      <3>1. PICK Q2 : Q2 = [authq EXCEPT ![t] = Append(authq[t], m)]
        BY ZenonT(30)
      <3>2. /\ Append(authq[t], m) \in Seq(AuthMessage)
            /\ AllGood(Append(authq[t], m), L, S2, granted, opt.mode)
        BY <1>12, <1>15, <2>2, <2>3, AllGoodAppend
      <3>3. /\ Q2 \in [AuthThread -> Seq(AuthMessage)] /\ Q2[t] = Append(authq[t], m)
            /\ \A u \in AuthThread : u # t => Q2[u] = authq[u]
        BY <1>15, <2>3, <3>1, <3>2
      <3>4. \A u \in AuthThread : AllGood(Q2[u], L, S2, granted, opt.mode)
        BY ZenonT(30), <1>12, <3>2, <3>3
      <3>5. PICK n2 : n2 = authcount + 1
        OBVIOUS
      <3>6. n2 \in Nat
        BY <1>15, <3>5
      <3>7. AuthShape(S2, accounts, L, Q2, resumeq, n2, granted)
        BY <1>10, <1>11, <1>15, <3>3, <3>6 DEF AuthShape
      <3>8. AuthFine(S2, L, Q2, resumeq, granted)
        BY <1>11, <1>13, <1>14, <3>4 DEF AuthFine
      <3> QED
        BY ZenonT(30), <1>5, <1>6, <2>5, <3>1, <3>5, <3>7, <3>8, AuthStep
    <2>6. CASE /\ resumeq' = Append(resumeq, Answered(m))
               /\ granted' = Remember(m)
               /\ asked' = L
               /\ UNCHANGED <<authq, authcount>>
      <3>1. PICK G2 : G2 = Remember(m)
        OBVIOUS
      <3>2. get_user_key(m) \subseteq AuthKey
        BY ZenonT(30), <1>15, <2>2, UserKeyGood DEF MessageGood
      <3>3. /\ G2 \in [AuthSess -> SUBSET AuthKey] /\ \A p \in AuthSess : granted[p] \subseteq G2[p]
            /\ G2[m.ses] = granted[m.ses] \cup get_user_key(m)
        BY <1>15, <2>2, <3>1, <3>2, RememberGrows
      <3>4. PICK a : a = Answered(m)
        OBVIOUS
      <3>5. a \in AuthMessage /\ MessageGood(a, L, S2, G2, opt.mode)
        BY <1>15, <2>2, <3>3, <3>4, AnsweredGood
      <3>6. Later(S2, L, granted, S2, L, G2, opt.mode)
        BY <1>10, <3>3 DEF Later
      <3>7. \A u \in AuthThread : AllGood(authq[u], L, S2, G2, opt.mode)
        BY <1>10, <1>12, <1>15, <3>6, AllGoodLater
      <3>8. AllGood(resumeq, L, S2, G2, opt.mode)
        BY <1>10, <1>13, <1>15, <3>6, AllGoodLater
      <3>9. PICK R2 : R2 = Append(resumeq, a)
        BY ZenonT(30)
      <3>10. R2 \in Seq(AuthMessage) /\ AllGood(R2, L, S2, G2, opt.mode)
        BY <1>15, <3>5, <3>8, <3>9, AllGoodAppend
      <3>11. EntriesGood(L, G2)
        BY <1>10, <1>14, <3>3, EntriesLater
      <3>12. \A p \in AuthSess : KeyGood(S2[p], G2[p], opt.mode)
        BY ZenonT(30), <1>11, <3>3 DEF KeyGood
      <3>13. AuthShape(S2, accounts, L, authq, R2, authcount, G2)
        BY ZenonT(30), <1>10, <1>11, <1>15, <3>3, <3>10 DEF AuthShape
      <3>14. AuthFine(S2, L, authq, R2, G2)
        BY <3>7, <3>10, <3>11, <3>12 DEF AuthFine
      <3> QED
        BY ZenonT(30), <1>5, <1>6, <2>6, <3>1, <3>4, <3>9, <3>13, <3>14, AuthStep
    <2> QED
      BY <2>1, <2>4, <2>5, <2>6
  <1> QED
    BY <1>16, <1>17

LEMMA UserCheckInv ==
  ASSUME AuthInv, NEW t \in AuthThread, UserCheck(t)
  PROVE  AuthInv'
  <1>0. AuthTypes /\ AuthGood
    BY DEF AuthInv
  <1>1. /\ asked \in Seq(AuthEntry) /\ ses \in [AuthSess -> AuthSession] /\ Len(asked) \in Nat
        /\ accounts \in [AuthUser -> Password] /\ authq \in [AuthThread -> Seq(AuthMessage)]
        /\ resumeq \in Seq(AuthMessage) /\ authcount \in Nat /\ granted \in [AuthSess -> SUBSET AuthKey]
    BY <1>0 DEF AuthTypes
  <1>2. /\ \A s \in AuthSess : KeyGood(ses[s], granted[s], opt.mode)
        /\ \A u \in AuthThread : AllGood(authq[u], asked, ses, granted, opt.mode)
        /\ AllGood(resumeq, asked, ses, granted, opt.mode)
        /\ EntriesGood(asked, granted)
    BY <1>0 DEF AuthGood
  <1>3. PICK m : m = Head(authq[t])
    OBVIOUS
  <1>4. /\ m \in AuthMessage /\ Tail(authq[t]) \in Seq(AuthMessage)
        /\ MessageGood(m, asked, ses, granted, opt.mode)
        /\ AllGood(Tail(authq[t]), asked, ses, granted, opt.mode)
    <2>1. authq[t] \in Seq(AuthMessage) /\ authq[t] # <<>>
      BY <1>1 DEF UserCheck
    <2> QED
      BY <1>2, <1>3, <2>1, AllGoodTail
  <1>5. PICK Q2 : Q2 = [authq EXCEPT ![t] = Tail(authq[t])]
    BY ZenonT(30)
  <1>6. Q2 \in [AuthThread -> Seq(AuthMessage)] /\ Q2[t] = Tail(authq[t]) /\ \A u \in AuthThread : u # t => Q2[u] = authq[u]
    BY <1>1, <1>4, <1>5
  <1>7. \A u \in AuthThread : AllGood(Q2[u], asked, ses, granted, opt.mode)
    BY ZenonT(30), <1>2, <1>4, <1>6
  <1>8. PICK G2 : G2 = Remember(m)
    OBVIOUS
  <1>9. get_user_key(m) \subseteq AuthKey
    BY ZenonT(30), <1>1, <1>4, UserKeyGood DEF MessageGood
  <1>10. /\ G2 \in [AuthSess -> SUBSET AuthKey] /\ \A s \in AuthSess : granted[s] \subseteq G2[s]
         /\ G2[m.ses] = granted[m.ses] \cup get_user_key(m)
    BY <1>1, <1>4, <1>8, <1>9, RememberGrows
  <1>11. Later(ses, asked, granted, ses, asked, G2, opt.mode)
    BY <1>1, <1>10 DEF Later
  <1>12. \A u \in AuthThread : AllGood(Q2[u], asked, ses, G2, opt.mode)
    BY <1>1, <1>6, <1>7, <1>11, AllGoodLater
  <1>13. AllGood(resumeq, asked, ses, G2, opt.mode)
    BY <1>1, <1>2, <1>11, AllGoodLater
  <1>14. EntriesGood(asked, G2)
    BY <1>1, <1>2, <1>10, EntriesLater
  <1>15. \A s \in AuthSess : KeyGood(ses[s], G2[s], opt.mode)
    BY ZenonT(30), <1>2, <1>10 DEF KeyGood
  <1>17. CASE resumeq' = Append(resumeq, Answered(m)) /\ UNCHANGED asked
    <2>1. PICK R2 : R2 = Append(resumeq, Answered(m))
      BY ZenonT(30)
    <2>2. Answered(m) \in AuthMessage /\ MessageGood(Answered(m), asked, ses, G2, opt.mode)
      BY ZenonT(30), <1>1, <1>4, <1>10, AnsweredGood
    <2>3. R2 \in Seq(AuthMessage) /\ AllGood(R2, asked, ses, G2, opt.mode)
      BY <1>1, <1>13, <2>1, <2>2, AllGoodAppend
    <2>4. /\ UNCHANGED <<opt, ses, accounts, authcount, asked>>
          /\ authq' = Q2 /\ resumeq' = R2 /\ granted' = G2
      BY <1>3, <1>5, <1>8, <1>17, <2>1 DEF UserCheck
    <2>5. AuthShape(ses, accounts, asked, Q2, R2, authcount, G2)
      BY <1>1, <1>6, <1>10, <2>3 DEF AuthShape
    <2>6. AuthFine(ses, asked, Q2, R2, G2)
      BY <1>12, <1>14, <1>15, <2>3 DEF AuthFine
    <2> QED
      BY <2>4, <2>5, <2>6, AuthStep
  <1>18. CASE asked' = Settle(m.req, "dropped") /\ UNCHANGED resumeq
    <2>1. PICK N : N = SettledIn(asked, m.req, "dropped")
      OBVIOUS
    <2>2. m.req \in 1 .. Len(asked)
      BY <1>4 DEF MessageGood
    <2>3. "dropped" \in AuthOutcome /\ MaySettle(asked, m.req, "dropped", G2)
      BY DEF AuthOutcome, MaySettle
    <2>4. /\ N \in Seq(AuthEntry) /\ EntriesGood(N, G2)
          /\ Later(ses, asked, G2, ses, N, G2, opt.mode)
      BY ZenonT(30), <1>1, <1>14, <2>1, <2>2, <2>3, SettledGood
    <2>5. \A u \in AuthThread : AllGood(Q2[u], N, ses, G2, opt.mode)
      BY <1>1, <1>6, <1>12, <2>4, AllGoodLater
    <2>6. AllGood(resumeq, N, ses, G2, opt.mode)
      BY <1>1, <1>13, <2>4, AllGoodLater
    <2>7. /\ UNCHANGED <<opt, ses, accounts, authcount, resumeq>>
          /\ asked' = N /\ authq' = Q2 /\ granted' = G2
      BY <1>3, <1>5, <1>8, <1>18, <2>1 DEF UserCheck, Settle, SettledIn
    <2>8. AuthShape(ses, accounts, N, Q2, resumeq, authcount, G2)
      BY <1>1, <1>6, <1>10, <2>4 DEF AuthShape
    <2>9. AuthFine(ses, N, Q2, resumeq, G2)
      BY <1>15, <2>4, <2>5, <2>6 DEF AuthFine
    <2> QED
      BY <2>7, <2>8, <2>9, AuthStep
  <1> QED
    BY <1>3, <1>17, <1>18 DEF UserCheck

LEMMA WithAnswerGood ==
  ASSUME NEW ss \in AuthSession, NEW m \in AuthMessage, NEW g, NEW mode, KeyGood(ss, g, mode),
         m.success => m.key \in g,
         mode # "oauth" => ~m.oauth /\ ss.user = m.user /\ (m.success => m.key[1] = m.user),
         NEW x, x = WithAnswer(ss, m)
  PROVE  SessionKept(ss, x, g, mode)
  <1>1. CASE ~m.success
    BY <1>1 DEF WithAnswer, SessionKept
  <1>2. CASE m.success
    <2>1. PICK k, oa, re : k = m.key /\ oa = m.oauth /\ re = m.realm
      OBVIOUS
    <2>2. k \in AuthKey \cup {NoKey} /\ oa \in BOOLEAN /\ re \in AuthRealm
      BY <2>1 DEF AuthMessage
    <2>3. x = [ss EXCEPT !.key = k, !.oauth = oa, !.realm = re]
      BY <1>2, <2>1 DEF WithAnswer
    <2>4. /\ x \in AuthSession /\ x.state = ss.state /\ x.key = k /\ x.oauth = oa /\ x.user = ss.user
      BY ZenonT(30), <2>2, <2>3 DEF AuthSession
    <2>5. m.user # NoAuth
      BY AuthAssumption DEF AuthMessage
    <2>6. KeyGood(x, g, mode)
      BY <1>2, <2>1, <2>4, <2>5 DEF KeyGood
    <2> QED
      BY <2>4, <2>6 DEF SessionKept
  <1> QED
    BY <1>1, <1>2

(* The session and the outcome of a resumed request.                       *)
LEMMA ResumedState ==
  ASSUME AuthInv, NEW m \in AuthMessage, MessageGood(m, asked, ses, granted, opt.mode),
         NEW R \in Seq(AuthMessage), AllGood(R, asked, ses, granted, opt.mode),
         NEW x \in AuthSession, KeyGood(x, granted[m.ses], opt.mode), x.state # "none",
         opt.mode # "oauth" /\ ses[m.ses].user # NoAuth => x.user = ses[m.ses].user,
         NEW o \in AuthOutcome,
         MaySettle(asked, m.req, o, granted),
         NEW N, N = SettledIn(asked, m.req, o), NEW S2, S2 = [ses EXCEPT ![m.ses] = x],
         ses' = S2, asked' = N, resumeq' = R,
         UNCHANGED <<opt, accounts, authq, authcount, granted>>
  PROVE  AuthInv'
  <1>0. AuthTypes /\ AuthGood
    BY DEF AuthInv
  <1>1. /\ asked \in Seq(AuthEntry) /\ ses \in [AuthSess -> AuthSession] /\ Len(asked) \in Nat
        /\ accounts \in [AuthUser -> Password] /\ authq \in [AuthThread -> Seq(AuthMessage)]
        /\ authcount \in Nat /\ granted \in [AuthSess -> SUBSET AuthKey]
    BY <1>0 DEF AuthTypes
  <1>2. /\ \A s \in AuthSess : KeyGood(ses[s], granted[s], opt.mode)
        /\ \A u \in AuthThread : AllGood(authq[u], asked, ses, granted, opt.mode)
        /\ EntriesGood(asked, granted)
    BY <1>0 DEF AuthGood
  <1>3. /\ m.req \in 1 .. Len(asked) /\ m.ses \in AuthSess
        /\ asked[m.req].ses = m.ses /\ asked[m.req].q = m.q
    BY DEF MessageGood, AuthMessage
  <1>4. N \in Seq(AuthEntry) /\ EntriesGood(N, granted) /\ SameRequests(asked, N)
    BY ZenonT(30), <1>1, <1>2, <1>3, SettledGood
  <1>5. /\ S2 \in [AuthSess -> AuthSession]
        /\ \A s \in AuthSess : KeyGood(S2[s], granted[s], opt.mode)
        /\ Later(ses, asked, granted, S2, N, granted, opt.mode)
    <2>1. /\ Len(asked) <= Len(N)
          /\ \A i \in 1 .. Len(asked) : N[i].ses = asked[i].ses /\ N[i].q = asked[i].q
      BY <1>1, <1>4 DEF SameRequests
    <2> QED
      BY ZenonT(30), <1>1, <1>2, <1>3, <1>4, <2>1, SessionUpdate
  <1>6. \A u \in AuthThread : AllGood(authq[u], N, S2, granted, opt.mode)
    BY <1>1, <1>2, <1>5, AllGoodLater
  <1>7. AllGood(R, N, S2, granted, opt.mode)
    BY <1>1, <1>5, AllGoodLater
  <1>8. AuthShape(S2, accounts, N, authq, R, authcount, granted)
    BY <1>1, <1>4, <1>5 DEF AuthShape
  <1>9. AuthFine(S2, N, authq, R, granted)
    BY ZenonT(30), <1>4, <1>5, <1>6, <1>7 DEF AuthFine
  <1> QED
    BY ZenonT(30), <1>8, <1>9, AuthStep

LEMMA ResumeInv ==
  ASSUME AuthInv, Resume
  PROVE  AuthInv'
  <1>1. resumeq \in Seq(AuthMessage) /\ resumeq # <<>> /\ AllGood(resumeq, asked, ses, granted, opt.mode)
    BY DEF AuthInv, AuthTypes, AuthGood, Resume
  <1>2. PICK m : m = Head(resumeq)
    OBVIOUS
  <1>3. PICK R : R = Tail(resumeq)
    BY ZenonT(30)
  <1>4. /\ m \in AuthMessage /\ MessageGood(m, asked, ses, granted, opt.mode)
        /\ R \in Seq(AuthMessage) /\ AllGood(R, asked, ses, granted, opt.mode)
    BY <1>1, <1>2, <1>3, AllGoodTail
  <1>5. /\ m.ses \in AuthSess /\ m.q \in Request /\ m.req \in Nat
    BY <1>4 DEF AuthMessage
  <1>6. /\ ses \in [AuthSess -> AuthSession] /\ ses[m.ses] \in AuthSession
        /\ KeyGood(ses[m.ses], granted[m.ses], opt.mode)
    BY <1>5 DEF AuthInv, AuthTypes, AuthGood
  <1>7. PICK ss : ss = WithAnswer(ses[m.ses], m)
    OBVIOUS
  <1>8. PICK h : h = handle_turn_command(ss, m.q, m.req, FALSE)
    BY ZenonT(30)
  <1>9. ses[m.ses].state # "none"
    BY <1>4 DEF MessageGood
  <1>10. SessionKept(ses[m.ses], ss, granted[m.ses], opt.mode)
    BY ZenonT(30), <1>4, <1>6, <1>7, WithAnswerGood DEF MessageGood
  <1>11. ss \in AuthSession /\ KeyGood(ss, granted[m.ses], opt.mode)
    BY <1>10 DEF SessionKept
  <1>12. /\ SessionKept(ss, h.ss, granted[m.ses], opt.mode) /\ h.verdict \in AuthVerdict
         /\ NeedsAuth(m.q) => VerdictGood(h.ss, h.verdict, m.q, granted[m.ses], opt.mode)
    BY ZenonT(30), <1>5, <1>8, <1>11, HandleGood
  <1>13. SessionKept(ses[m.ses], h.ss, granted[m.ses], opt.mode)
    BY <1>10, <1>12 DEF SessionKept
  <1>14. /\ CASE ses[m.ses].state = "open" ->
                   /\ ses' = [ses EXCEPT ![m.ses] = h.ss]
                   /\ asked' = SettledIn(asked, m.req, h.verdict)
              [] ses[m.ses].state = "closing" ->
                   /\ ses' = [ses EXCEPT ![m.ses] = ss]
                   /\ asked' = SettledIn(asked, m.req, "dropped")
              [] OTHER -> asked' = SettledIn(asked, m.req, "dropped") /\ UNCHANGED ses
         /\ resumeq' = R /\ UNCHANGED <<opt, accounts, authq, authcount, granted>>
    BY ZenonT(30), <1>2, <1>3, <1>7, <1>8 DEF Resume, Settle, SettledIn
  <1>15. ASSUME NEW x, SessionKept(ses[m.ses], x, granted[m.ses], opt.mode),
                NEW o \in AuthOutcome,
                MaySettle(asked, m.req, o, granted),
                ses' = [ses EXCEPT ![m.ses] = x], asked' = SettledIn(asked, m.req, o)
         PROVE  AuthInv'
    <2>1. /\ x \in AuthSession /\ KeyGood(x, granted[m.ses], opt.mode) /\ x.state # "none"
          /\ opt.mode # "oauth" /\ ses[m.ses].user # NoAuth => x.user = ses[m.ses].user
      BY ZenonT(30), <1>9, <1>15 DEF SessionKept
    <2>2. PICK N : N = SettledIn(asked, m.req, o)
      OBVIOUS
    <2>3. PICK S2 : S2 = [ses EXCEPT ![m.ses] = x]
      BY ZenonT(30)
    <2>4. /\ ses' = S2 /\ asked' = N /\ resumeq' = R
          /\ UNCHANGED <<opt, accounts, authq, authcount, granted>>
      BY <1>14, <1>15, <2>2, <2>3
    <2> QED
      BY ZenonT(30), <1>4, <1>15, <2>1, <2>2, <2>3, <2>4, ResumedState
  <1>16. CASE ses[m.ses].state = "open"
    <2>1. MaySettle(asked, m.req, h.verdict, granted)
      BY <1>4, <1>12 DEF VerdictGood, MaySettle, MessageGood
    <2>2. h.verdict \in AuthOutcome
      BY <1>12 DEF AuthOutcome
    <2> QED
      BY ZenonT(30), <1>13, <1>14, <1>15, <1>16, <2>1, <2>2
  <1>17. CASE ses[m.ses].state = "closing"
    <2>1. MaySettle(asked, m.req, "dropped", granted) /\ "dropped" \in AuthOutcome
      BY DEF AuthOutcome, MaySettle
    <2> QED
      BY <1>10, <1>14, <1>15, <1>17, <2>1
  <1>18. CASE ses[m.ses].state \notin {"open", "closing"}
    <2>1. MaySettle(asked, m.req, "dropped", granted) /\ "dropped" \in AuthOutcome
      BY DEF AuthOutcome, MaySettle
    <2>2. SessionKept(ses[m.ses], ses[m.ses], granted[m.ses], opt.mode)
      BY <1>6 DEF SessionKept
    <2>3. ses' = [ses EXCEPT ![m.ses] = ses[m.ses]]
      BY <1>5, <1>6, <1>14, <1>18
    <2> QED
      BY ZenonT(30), <1>14, <1>15, <1>18, <2>1, <2>2, <2>3
  <1> QED
    BY <1>16, <1>17, <1>18

LEMMA AuthNextInv ==
  ASSUME AuthInv, [AuthNext]_AuthVars
  PROVE  AuthInv'
  <1>1. CASE UNCHANGED AuthVars
    BY ZenonT(30), <1>1 DEF AuthInv, AuthTypes, AuthGood, EntriesGood, EntryGood, NeedsAuth, AuthVars
  <1> QED
    BY <1>1, OpenSessionInv, NonceExpiresInv, CloseSessionInv, ReceiveInv, UserCheckInv, ResumeInv,
       ChangeAccountInv DEF AuthNext

LEMMA AuthInitInv ==
  ASSUME AuthInit
  PROVE  AuthInv
  <1>1. PICK x : x = [NewAuthSession EXCEPT !.state = "none"]
    BY ZenonT(30)
  <1>2. x \in AuthSession /\ x.key = NoKey /\ ~x.oauth
    BY ZenonT(30), <1>1, AuthAssumption DEF NewAuthSession, AuthSession
  <1>3. /\ ses = [s \in AuthSess |-> x] /\ granted = [s \in AuthSess |-> {}]
        /\ asked = <<>> /\ resumeq = <<>> /\ authcount = 0 /\ accounts = FirstAccounts
        /\ authq = [t \in AuthThread |-> <<>>]
    BY <1>1 DEF AuthInit
  <1>4. AuthTypes
    BY <1>2, <1>3, AuthAssumption DEF AuthTypes
  <1>5. \A s \in AuthSess : KeyGood(ses[s], granted[s], opt.mode)
    BY ZenonT(30), <1>2, <1>3 DEF KeyGood
  <1>6. AuthGood
    BY <1>3, <1>5 DEF AuthGood, AllGood, EntriesGood
  <1> QED
    BY <1>4, <1>6 DEF AuthInv

(* A request that needs authentication runs only when its integrity key is *)
(* one the user check returned for its session and, without OAuth, for the *)
(* very user it names, for every number of sessions, authentication        *)
(* threads, requests, nonces and account changes: check_stun_auth          *)
(* (ns_turn_server.c) compares with the key of the session, and the        *)
(* session takes a key only from an answer to one of its own requests,     *)
(* whose user cannot have changed while the check was under way.           *)
THEOREM AlwaysAuthentic == AuthSpec => []Authentic
  <1>1. AuthInit => AuthInv
    BY AuthInitInv
  <1>2. AuthInv /\ [AuthNext]_AuthVars => AuthInv'
    BY AuthNextInv
  <1>3. AuthInv => Authentic
    <2> SUFFICES ASSUME AuthInv, NEW r \in DOMAIN asked PROVE EntryGood(asked[r], granted)
      BY DEF Authentic, EntryGood
    <2>1. asked \in Seq(AuthEntry) /\ \A i \in 1 .. Len(asked) : EntryGood(asked[i], granted)
      BY DEF AuthInv, AuthTypes, AuthGood, EntriesGood
    <2> QED
      BY <2>1
  <1> QED
    BY <1>1, <1>2, <1>3, PTL DEF AuthSpec

-----------------------------------------------------------------------------
(* The shared sockets of multiplex-peer mode: MultiplexPeer *)

AckedAreRegistered ==
  \A s \in Sess : \A p \in acked[s] :
    /\ s \in live
    /\ p[1] \in perm[s]
    /\ relay[s][Fam(p)] = "shared" => table[p] = s

MuxInv == TypeOK /\ EntriesAreBacked /\ AckedAreRegistered

LEMMA PeerParts ==
  ASSUME NEW p \in Peer
  PROVE  p[1] \in Host /\ p[2] \in Nat /\ Fam(p) \in Family
BY MultiplexAssumption DEF Fam

LEMMA NoneIsNoSocket == None # "shared"
BY MultiplexAssumption

LEMMA MuxInitInv == Init => MuxInv
BY MultiplexAssumption DEF Init, MuxInv, TypeOK, EntriesAreBacked, AckedAreRegistered

LEMMA AllocateInv ==
  ASSUME MuxInv, NEW s \in Sess, NEW F \in SUBSET Family, NEW tcp \in BOOLEAN, NEW evenPort \in BOOLEAN,
         Allocate(s, F, tcp, evenPort)
  PROVE  MuxInv'
<1>1. TypeOK'
  BY DEF MuxInv, TypeOK, Allocate, session, Quiet
<1>2. s \notin live /\ UNCHANGED <<perm, acked, table>>
  BY DEF Allocate, session
<1>3. live \subseteq live' /\ \A t \in Sess \ {s} : relay'[t] = relay[t]
  BY DEF MuxInv, TypeOK, Allocate, session
<1>4. EntriesAreBacked'
  BY <1>2, <1>3, PeerParts DEF MuxInv, TypeOK, EntriesAreBacked, Fam
<1>5. AckedAreRegistered'
  BY <1>2, <1>3, PeerParts DEF MuxInv, TypeOK, AckedAreRegistered, Fam
<1> QED  BY <1>1, <1>4, <1>5 DEF MuxInv

(* A registration touches only free entries and the session's own. *)
LEMMA RegisterFacts ==
  ASSUME TypeOK, NEW s \in Sess, NEW P \in SUBSET Peer, Register(s, P)
  PROVE  /\ table' \in [Peer -> Sess \cup {None}]
         /\ \A p \in Peer :
              \/ table'[p] = table[p]
              \/ table[p] = None /\ table'[p] = s /\ p \in P /\ p[2] # 0 /\ relay[s][Fam(p)] = "shared"
         /\ \A p \in P : p[2] # 0 /\ relay[s][Fam(p)] = "shared" /\ Taken(s, {p}) = {} => table'[p] = s
<1>1. table' = [p \in Peer |-> IF p \in ToRegister(s, P) \ Taken(s, P) THEN s ELSE table[p]]
  BY DEF Register
<1>2. \A p \in ToRegister(s, P) \ Taken(s, P) :
        p \in P /\ p[2] # 0 /\ relay[s][Fam(p)] = "shared" /\ table[p] \in {None, s}
  BY DEF ToRegister, Taken
<1>3. \A p \in P : p[2] # 0 /\ relay[s][Fam(p)] = "shared" /\ Taken(s, {p}) = {}
                   => p \in ToRegister(s, P) \ Taken(s, P)
  <2> SUFFICES ASSUME NEW p \in P, p[2] # 0, relay[s][Fam(p)] = "shared", Taken(s, {p}) = {}
               PROVE  p \in ToRegister(s, P) /\ p \notin Taken(s, P)
    OBVIOUS
  <2>1. p \in ToRegister(s, P) /\ p \in ToRegister(s, {p})
    BY DEF ToRegister
  <2>2. table[p] \in {None, s}
    BY <2>1 DEF Taken
  <2> QED  BY <2>1, <2>2 DEF Taken
<1>4. table' \in [Peer -> Sess \cup {None}]
  BY <1>1 DEF TypeOK
<1>5. \A p \in Peer : table'[p] = table[p] \/ p \in ToRegister(s, P) \ Taken(s, P)
  BY <1>1
<1>6. \A p \in ToRegister(s, P) \ Taken(s, P) : p \in Peer /\ table'[p] = s
  BY <1>1, <1>2
<1>7. \A p \in Peer :
        \/ table'[p] = table[p]
        \/ table[p] = None /\ table'[p] = s /\ p \in P /\ p[2] # 0 /\ relay[s][Fam(p)] = "shared"
  BY <1>2, <1>5, <1>6
<1>8. \A p \in P : p[2] # 0 /\ relay[s][Fam(p)] = "shared" /\ Taken(s, {p}) = {} => table'[p] = s
  BY <1>3, <1>6
<1> QED  BY <1>4, <1>7, <1>8

LEMMA CreatePermissionInv ==
  ASSUME MuxInv, NEW s \in Sess, NEW P \in SUBSET Peer, CreatePermission(s, P)
  PROVE  MuxInv'
<1>1. PICK given \in SUBSET {p[1] : p \in P} :
        /\ perm' = [perm EXCEPT ![s] = @ \cup given]
        /\ Register(s, {p \in P : p[1] \in given})
  BY ZenonT(30) DEF CreatePermission
<1>2. given \subseteq Host
  BY PeerParts
<1>3. s \in live /\ UNCHANGED <<shared, live, client, relay, chan, acked>> /\ sent' = {}
  BY DEF CreatePermission, MuxInv, TypeOK, Quiet
<1>4. /\ table' \in [Peer -> Sess \cup {None}]
      /\ \A p \in Peer :
           \/ table'[p] = table[p]
           \/ table[p] = None /\ table'[p] = s /\ p[1] \in given /\ relay[s][Fam(p)] = "shared"
  BY <1>1, RegisterFacts DEF MuxInv
<1>5. TypeOK'
  BY <1>1, <1>2, <1>3, <1>4 DEF MuxInv, TypeOK
<1>6. \A t \in Sess : perm[t] \subseteq perm'[t]
  BY <1>1 DEF MuxInv, TypeOK
<1>7. given \subseteq perm'[s]
  BY <1>1 DEF MuxInv, TypeOK
<1>8. EntriesAreBacked'
  BY <1>3, <1>4, <1>6, <1>7, PeerParts DEF MuxInv, TypeOK, EntriesAreBacked, Fam
<1>9. AckedAreRegistered'
  BY <1>3, <1>4, <1>6, PeerParts, MultiplexAssumption DEF MuxInv, TypeOK, AckedAreRegistered, Fam
<1> QED  BY <1>5, <1>8, <1>9 DEF MuxInv

LEMMA ChannelBindInv ==
  ASSUME MuxInv, NEW s \in Sess, NEW p \in Peer, ChannelBind(s, p)
  PROVE  MuxInv'
<1>1. /\ s \in live /\ p[2] # 0 /\ UNCHANGED <<shared, live, client, relay>> /\ sent' = {}
      /\ perm' = [perm EXCEPT ![s] = @ \cup {p[1]}]
  BY ZenonT(30) DEF ChannelBind, MuxInv, TypeOK, Quiet
<1>2. /\ table' \in [Peer -> Sess \cup {None}]
      /\ \A q \in Peer :
           \/ table'[q] = table[q]
           \/ table[q] = None /\ table'[q] = s /\ q = p /\ relay[s][Fam(q)] = "shared"
  <2>1. CASE Register(s, {p})
    <3>1. {p} \in SUBSET Peer
      OBVIOUS
    <3> QED  BY <2>1, <3>1, RegisterFacts DEF MuxInv
  <2>2. CASE UNCHANGED table
    BY <2>2 DEF MuxInv, TypeOK
  <2> QED  BY <2>1, <2>2 DEF ChannelBind
<1>3. \A t \in Sess : perm[t] \subseteq perm'[t]
  BY <1>1 DEF MuxInv, TypeOK
<1>4. p[1] \in perm'[s]
  BY <1>1 DEF MuxInv, TypeOK
<1>5. /\ chan' \in [Sess -> SUBSET Peer] /\ acked' \in [Sess -> SUBSET Peer]
      /\ \A t \in Sess : \A q \in acked'[t] :
           q \in acked[t] \/ (t = s /\ q = p /\ (relay[s][Fam(p)] = "shared" => table'[p] = s))
  <2>1. CASE UNCHANGED <<chan, acked, table>>
    BY <2>1 DEF MuxInv, TypeOK
  <2>2. CASE /\ chan' = [chan EXCEPT ![s] = @ \cup {p}]
             /\ Register(s, {p})
             /\ acked' = [acked EXCEPT ![s] = @ \cup ({p} \ Taken(s, {p}))]
    <3>1. relay[s][Fam(p)] = "shared" /\ Taken(s, {p}) = {} => table'[p] = s
      BY <1>1, <2>2, RegisterFacts DEF MuxInv
    <3>2. Taken(s, {p}) = {} \/ Taken(s, {p}) = {p}
      BY DEF Taken, ToRegister
    <3> QED  BY <2>2, <3>1, <3>2, ZenonT(30) DEF MuxInv, TypeOK
  <2> QED  BY <2>1, <2>2, ZenonT(30) DEF ChannelBind
<1>6. TypeOK'
  <2>1. perm' \in [Sess -> SUBSET Host]
    BY <1>1, PeerParts DEF MuxInv, TypeOK
  <2> QED  BY <1>1, <1>2, <1>5, <2>1 DEF MuxInv, TypeOK
<1>7. EntriesAreBacked'
  BY <1>1, <1>2, <1>3, <1>4, PeerParts DEF MuxInv, TypeOK, EntriesAreBacked, Fam
<1>8. AckedAreRegistered'
  BY <1>1, <1>2, <1>3, <1>4, <1>5, PeerParts, MultiplexAssumption DEF MuxInv, TypeOK, AckedAreRegistered, Fam
<1> QED  BY ZenonT(30), <1>6, <1>7, <1>8 DEF MuxInv

LEMMA SendInv ==
  ASSUME MuxInv, NEW s \in Sess, NEW p \in Peer, Send(s, p)
  PROVE  MuxInv'
<1>1. s \in live /\ UNCHANGED <<shared, session>> /\ (p[1] \in perm[s] \/ ServerRelay)
      /\ sent' \subseteq Sess \X Peer
  BY DEF Send, MuxInv, TypeOK
<1>2. /\ table' \in [Peer -> Sess \cup {None}]
      /\ \A q \in Peer :
           \/ table'[q] = table[q]
           \/ table[q] = None /\ table'[q] = s /\ q = p /\ relay[s][Fam(q)] = "shared"
  BY RegisterFacts DEF Send, MuxInv
<1>3. TypeOK'
  BY <1>1, <1>2 DEF MuxInv, TypeOK, session
<1>4. EntriesAreBacked'
  BY <1>1, <1>2, PeerParts DEF MuxInv, TypeOK, EntriesAreBacked, Fam, session
<1>5. AckedAreRegistered'
  BY <1>1, <1>2, PeerParts, MultiplexAssumption DEF MuxInv, TypeOK, AckedAreRegistered, Fam, session
<1> QED  BY <1>3, <1>4, <1>5 DEF MuxInv

LEMMA ChannelDataInv ==
  ASSUME MuxInv, NEW s \in Sess, NEW p \in Peer, ChannelData(s, p)
  PROVE  MuxInv'
BY DEF ChannelData, MuxInv, TypeOK, EntriesAreBacked, AckedAreRegistered, Fam, session

LEMMA ChannelTimeoutInv ==
  ASSUME MuxInv, NEW s \in Sess, NEW p \in Peer, ChannelTimeout(s, p)
  PROVE  MuxInv'
<1>1. \A t \in Sess : acked'[t] \subseteq acked[t]
  BY DEF ChannelTimeout, MuxInv, TypeOK
<1>2. TypeOK'
  BY DEF ChannelTimeout, MuxInv, TypeOK, Quiet
<1> QED  BY <1>1, <1>2 DEF ChannelTimeout, MuxInv, EntriesAreBacked, AckedAreRegistered, Fam

LEMMA DeregisteredFacts ==
  ASSUME TypeOK, NEW s \in Sess, NEW P \in SUBSET Peer
  PROVE  /\ Deregistered(s, P) \in [Peer -> Sess \cup {None}]
         /\ \A p \in Peer : IF p \in P /\ table[p] = s THEN Deregistered(s, P)[p] = None
                            ELSE Deregistered(s, P)[p] = table[p]
BY DEF TypeOK, Deregistered

LEMMA PermissionTimeoutInv ==
  ASSUME MuxInv, NEW s \in Sess, NEW h \in Host, PermissionTimeout(s, h)
  PROVE  MuxInv'
<1>1. /\ table' \in [Peer -> Sess \cup {None}]
      /\ \A p \in Peer : IF p[1] = h /\ table[p] = s THEN table'[p] = None ELSE table'[p] = table[p]
  BY DeregisteredFacts DEF PermissionTimeout, MuxInv
<1>2. \A t \in Sess : acked'[t] = {p \in acked[t] : t = s => p[1] # h}
  BY DEF PermissionTimeout, MuxInv, TypeOK
<1>3. \A t \in Sess : perm'[t] = {g \in perm[t] : t = s => g # h}
  BY DEF PermissionTimeout, MuxInv, TypeOK
<1>4. TypeOK'
  BY <1>1 DEF PermissionTimeout, MuxInv, TypeOK, Quiet
<1>5. EntriesAreBacked'
  BY <1>1, <1>3 DEF PermissionTimeout, MuxInv, TypeOK, EntriesAreBacked, Fam
<1>6. AckedAreRegistered'
  BY <1>1, <1>2, <1>3 DEF PermissionTimeout, MuxInv, TypeOK, AckedAreRegistered, Fam
<1> QED  BY <1>4, <1>5, <1>6 DEF MuxInv

LEMMA ClosedInv ==
  ASSUME MuxInv, NEW s \in Sess, Closed(s), UNCHANGED shared, sent' = {}
  PROVE  MuxInv'
<1>1. /\ table' \in [Peer -> Sess \cup {None}]
      /\ \A p \in Peer : IF table[p] = s THEN table'[p] = None ELSE table'[p] = table[p]
  BY DeregisteredFacts DEF Closed, MuxInv
<1>2. TypeOK'
  BY <1>1 DEF Closed, MuxInv, TypeOK
<1>3. \A t \in Sess \ {s} : relay'[t] = relay[t] /\ perm'[t] = perm[t] /\ acked'[t] = acked[t]
  BY DEF Closed, MuxInv, TypeOK
<1>4. acked'[s] = {} /\ live' = live \ {s}
  BY DEF Closed, MuxInv, TypeOK
<1>5. EntriesAreBacked'
  BY <1>1, <1>3, <1>4, MultiplexAssumption DEF MuxInv, TypeOK, EntriesAreBacked, Fam
<1>6. AckedAreRegistered'
  BY <1>1, <1>3, <1>4 DEF MuxInv, TypeOK, AckedAreRegistered, Fam
<1> QED  BY <1>2, <1>5, <1>6 DEF MuxInv

LEMMA MuxShutdownInv ==
  ASSUME MuxInv, NEW s \in Sess, NEW force \in BOOLEAN, Shutdown(s, force)
  PROVE  MuxInv'
<1>1. CASE Closed(s)
  BY <1>1, ClosedInv DEF Shutdown, Quiet
<1>2. CASE client' = client \ {s} /\ UNCHANGED <<live, relay, perm, chan, acked, table>>
  BY <1>2 DEF Shutdown, Quiet, MuxInv, TypeOK, EntriesAreBacked, AckedAreRegistered, Fam
<1> QED  BY <1>1, <1>2 DEF Shutdown

LEMMA AllocationTimeoutInv ==
  ASSUME MuxInv, NEW s \in Sess, NEW f \in Family, AllocationTimeout(s, f)
  PROVE  MuxInv'
<1>1. CASE Closed(s)
  BY <1>1, ClosedInv DEF AllocationTimeout, Quiet
<1>2. CASE ~Closed(s)
  <2>1. /\ relay' = [relay EXCEPT ![s][f] = None] /\ UNCHANGED <<shared, live, perm, chan, acked>>
        /\ table' = IF relay[s][f] = "shared" THEN Deregistered(s, {p \in Peer : Fam(p) = f}) ELSE table
        /\ client' \subseteq client /\ sent' = {}
    BY <1>2 DEF AllocationTimeout, Quiet
  <2>2. /\ table' \in [Peer -> Sess \cup {None}]
        /\ \A p \in Peer : IF Fam(p) = f /\ table[p] = s THEN table'[p] = None ELSE table'[p] = table[p]
    <3>1. CASE relay[s][f] = "shared"
      BY <2>1, <3>1, DeregisteredFacts DEF MuxInv
    <3>2. CASE relay[s][f] # "shared"
      BY <2>1, <3>2 DEF MuxInv, TypeOK, EntriesAreBacked
    <3> QED  BY <3>1, <3>2
  <2>3. /\ relay' \in [Sess -> [Family -> {"shared", "udp", "tcp", None}]]
        /\ \A t \in Sess, g \in Family : relay'[t][g] = IF t = s /\ g = f THEN None ELSE relay[t][g]
    BY <2>1 DEF MuxInv, TypeOK
  <2>4. TypeOK'
    BY ZenonT(30), <2>1, <2>2, <2>3 DEF MuxInv, TypeOK
  <2>5. EntriesAreBacked'
    BY <2>1, <2>2, <2>3, PeerParts, MultiplexAssumption DEF MuxInv, TypeOK, EntriesAreBacked, Fam
  <2>6. AckedAreRegistered'
    <3> SUFFICES ASSUME NEW t \in Sess, NEW p \in acked[t]
                 PROVE  t \in live /\ p[1] \in perm[t] /\ (relay'[t][Fam(p)] = "shared" => table'[p] = t)
      BY <2>1 DEF AckedAreRegistered, Fam
    <3>1. p \in Peer /\ t \in live /\ p[1] \in perm[t] /\ (relay[t][Fam(p)] = "shared" => table[p] = t)
      BY DEF MuxInv, TypeOK, AckedAreRegistered
    <3>2. CASE t = s /\ Fam(p) = f
      <4>1. relay'[t][Fam(p)] = None
        BY ZenonT(30), <2>3, <3>2
      <4> QED  BY <3>1, <4>1, NoneIsNoSocket
    <3>3. CASE ~(t = s /\ Fam(p) = f)
      BY ZenonT(30), <2>2, <2>3, <3>1, <3>3, PeerParts
    <3> QED  BY <3>2, <3>3
  <2> QED  BY <2>4, <2>5, <2>6 DEF MuxInv
<1> QED  BY <1>1, <1>2

LEMMA ReattachInv ==
  ASSUME MuxInv, NEW s \in Sess, Reattach(s)
  PROVE  MuxInv'
BY DEF Reattach, Quiet, MuxInv, TypeOK, EntriesAreBacked, AckedAreRegistered, Fam

LEMMA MuxNextInv == MuxInv /\ [Next]_vars => MuxInv'
<1> SUFFICES ASSUME MuxInv, [Next]_vars PROVE MuxInv'
  OBVIOUS
<1>1. CASE UNCHANGED vars
  BY <1>1 DEF vars, MuxInv, TypeOK, EntriesAreBacked, AckedAreRegistered, Fam
<1> QED
  BY ZenonT(30), <1>1, AllocateInv, CreatePermissionInv, ChannelBindInv, SendInv, ChannelDataInv, ChannelTimeoutInv,
     PermissionTimeoutInv, MuxShutdownInv, AllocationTimeoutInv, ReattachInv DEF Next

LEMMA MuxInvariance == Spec => []MuxInv
BY MuxInitInv, MuxNextInv, PTL DEF Spec

(* No entry of the demultiplexing table outlives the session, the relay    *)
(* endpoint or the permission it was made for.                             *)
THEOREM EntriesAlwaysBacked == Spec => []EntriesAreBacked
<1>1. MuxInv => EntriesAreBacked
  BY DEF MuxInv
<1> QED  BY <1>1, MuxInvariance, PTL

(* A client that was told that its channel is bound gets what the peer     *)
(* sends, and nobody else does.                                            *)
THEOREM BoundPeersAlwaysAnswer == Spec => []BoundPeersAnswer
<1>1. MuxInv => BoundPeersAnswer
  <2> SUFFICES ASSUME MuxInv, NEW s \in client, NEW p \in acked[s], relay[s][Fam(p)] = "shared"
               PROVE  Receivers(p) = {s}
    BY DEF BoundPeersAnswer
  <2>1. s \in Sess /\ p[1] \in perm[s] /\ table[p] = s
    BY DEF MuxInv, TypeOK, AckedAreRegistered
  <2> QED  BY <2>1, NoneIsNoSocket DEF Receivers
<1> QED  BY <1>1, MuxInvariance, PTL

(* A session loses an entry only with the permission, the relay endpoint   *)
(* or its life, never to another session.                                  *)
THEOREM EntriesAlwaysKept == Spec => EntriesAreKept
<1>1. MuxInv /\ [Next]_vars => [KeepsEntries]_vars
  <2> SUFFICES ASSUME MuxInv, Next PROVE KeepsEntries
    OBVIOUS
  <2>1. PICK s \in Sess :
          \/ \E F \in SUBSET Family, tcp, evenPort \in BOOLEAN : Allocate(s, F, tcp, evenPort)
          \/ \E P \in SUBSET Peer : CreatePermission(s, P)
          \/ \E p \in Peer : ChannelBind(s, p) \/ Send(s, p) \/ ChannelData(s, p) \/ ChannelTimeout(s, p)
          \/ \E h \in Host : PermissionTimeout(s, h)
          \/ \E force \in BOOLEAN : Shutdown(s, force)
          \/ \E f \in Family : AllocationTimeout(s, f)
          \/ Reattach(s)
    BY DEF Next
  <2>2. CASE UNCHANGED table
    BY ZenonT(30), <2>2 DEF KeepsEntries
  <2>3. CASE \E P \in SUBSET Peer : Register(s, P)
    BY <2>3, RegisterFacts DEF MuxInv, KeepsEntries
  <2>4. CASE Closed(s)
    <3>1. \A p \in Peer : table'[p] = table[p] \/ (table[p] = s /\ table'[p] = None)
      BY <2>4, DeregisteredFacts DEF Closed, MuxInv
    <3>2. \A p \in Peer : relay'[s][Fam(p)] = None
      BY <2>4, PeerParts DEF Closed, MuxInv, TypeOK
    <3> QED  BY <3>1, <3>2 DEF KeepsEntries
  <2>5. ASSUME NEW h \in Host, PermissionTimeout(s, h) PROVE KeepsEntries
    <3>1. \A p \in Peer : table'[p] = table[p] \/ (table[p] = s /\ table'[p] = None /\ p[1] = h)
      BY <2>5, DeregisteredFacts DEF PermissionTimeout, MuxInv
    <3>2. h \notin perm'[s]
      BY <2>5 DEF PermissionTimeout, MuxInv, TypeOK
    <3> QED  BY <3>1, <3>2 DEF KeepsEntries
  <2>6. ASSUME NEW f \in Family, AllocationTimeout(s, f), ~Closed(s), ~UNCHANGED table PROVE KeepsEntries
    <3>1. table' = Deregistered(s, {p \in Peer : Fam(p) = f}) /\ relay' = [relay EXCEPT ![s][f] = None]
      BY <2>6 DEF AllocationTimeout
    <3>2. \A p \in Peer : table'[p] = table[p] \/ (table[p] = s /\ table'[p] = None /\ Fam(p) = f)
      BY <3>1, DeregisteredFacts DEF MuxInv
    <3>3. relay'[s][f] = None
      BY <3>1 DEF MuxInv, TypeOK
    <3> QED  BY <3>2, <3>3 DEF KeepsEntries
  <2>7. CASE \E F \in SUBSET Family, tcp, evenPort \in BOOLEAN : Allocate(s, F, tcp, evenPort)
    BY <2>2, <2>7 DEF Allocate
  <2>8. CASE \E P \in SUBSET Peer : CreatePermission(s, P)
    <3>1. PICK P \in SUBSET Peer : CreatePermission(s, P)
      BY <2>8
    <3>2. PICK given : Register(s, {p \in P : p[1] \in given})
      BY <3>1, ZenonT(30) DEF CreatePermission
    <3> QED  BY <2>3, <3>2
  <2>9. ASSUME NEW p \in Peer, ChannelBind(s, p) \/ Send(s, p) \/ ChannelData(s, p) \/ ChannelTimeout(s, p)
        PROVE  KeepsEntries
    <3>1. Register(s, {p}) \/ UNCHANGED table
      BY <2>9 DEF ChannelBind, Send, ChannelData, ChannelTimeout
    <3> QED  BY <2>2, <2>3, <3>1
  <2>10. CASE \E force \in BOOLEAN : Shutdown(s, force)
    BY <2>2, <2>4, <2>10 DEF Shutdown
  <2>11. CASE Reattach(s)
    BY <2>2, <2>11 DEF Reattach
  <2> QED  BY <2>1, <2>2, <2>4, <2>5, <2>6, <2>7, <2>8, <2>9, <2>10, <2>11
<1> QED  BY <1>1, MuxInvariance, PTL DEF Spec, EntriesAreKept
=============================================================================
