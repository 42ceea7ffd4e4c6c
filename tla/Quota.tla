------------------------------- MODULE Quota -------------------------------
(***************************************************************************)
(* Allocation quotas: the counters of each realm (userdb.c), and the       *)
(* sessions of all threads that take from them and give back               *)
(* (ns_turn_server.c).  The counters change under the lock of the realm;   *)
(* a session remembers only that it took (quota_used), not from where, and *)
(* gives back to the user and the realm it has at that time.               *)
(*                                                                         *)
(* Left out: OAuth, with which a session counts for its realm only.        *)
(***************************************************************************)
EXTENDS Naturals, FiniteSets

CONSTANTS
  Sess,        \* sessions
  Mobile,      \* those that ask for a mobility ticket
  User, Realm,
  Default,     \* the default realm
  Configured,  \* the realms the server starts with
  TotalQuota,  \* --total-quota, 0 for none
  UserQuota,   \* --user-quota, 0 for none
  TcpRelay,    \* ~no_tcp_relay
  NoUser

ASSUME QuotaAssumption ==
  /\ Mobile \subseteq Sess
  /\ Default \in Configured /\ Configured \subseteq Realm
  /\ TotalQuota \in Nat /\ UserQuota \in Nat /\ TcpRelay \in BOOLEAN
  /\ NoUser \notin User \cup Realm

VARIABLES
  known,   \* the realms that exist
  total,   \* total_current_allocs of each
  counter, \* alloc_counters of each
  state,   \* of each session: "none", "open" (no allocation), "alloc", or
           \* "parked", a mobile allocation without a client
  used,    \* sessions with quota_used
  user, realm, \* username and realm_options.name of each
  strayed  \* a session changed its realm with a quota taken (history)

quotavars == <<known, total, counter, state, used, user, realm, strayed>>

QuotaInit ==
  /\ known = Configured
  /\ total = [r \in Realm |-> 0]
  /\ counter = [r \in Realm |-> [u \in User |-> 0]]
  /\ state = [s \in Sess |-> "none"]
  /\ used = {}
  /\ user = [s \in Sess |-> NoUser]
  /\ realm = [s \in Sess |-> NoUser]
  /\ strayed = FALSE

-----------------------------------------------------------------------------
(* What the calls of a handler work on, one after the other *)
Now == [total |-> total, counter |-> counter, used |-> used]


(* get_realm: an unknown realm starts as a copy of the default one, with   *)
(* counters of its own but the default realm's total.                      *)
Touched(q, r) == IF r \in known THEN q ELSE [q EXCEPT !.total[r] = q.total[Default]]

QuotaFull(q, r) == TotalQuota # 0 /\ q.total[r] >= TotalQuota

(* check_new_allocation_quota *)
Admits(q, u, r) ==
  /\ ~QuotaFull(q, r)
  /\ UserQuota # 0 /\ q.counter[r][u] # 0 => q.counter[r][u] < UserQuota

(* Mutant of Inc: what the quota says is not looked at. *)
IncAlways(q, s, u, r) ==
  IF s \in q.used THEN q
  ELSE [total |-> [q.total EXCEPT ![r] = @ + 1],
        counter |-> [q.counter EXCEPT ![r][u] = @ + 1], used |-> q.used \cup {s}]

(* inc_quota *)
Inc(q, s, u, r) ==
  IF s \in q.used \/ ~Admits(q, u, r) THEN q
  ELSE [total |-> [q.total EXCEPT ![r] = @ + 1],
        counter |-> [q.counter EXCEPT ![r][u] = @ + 1], used |-> q.used \cup {s}]

(* Mutant of Dec: the counter of the user stays. *)
DecTotalOnly(q, s, u, r) ==
  IF s \notin q.used THEN q
  ELSE [q EXCEPT !.total[r] = IF @ = 0 THEN 0 ELSE @ - 1, !.used = @ \ {s}]

(* dec_quota, release_allocation_quota *)
Dec(q, s, u, r) ==
  IF s \notin q.used THEN q
  ELSE [total |-> [q.total EXCEPT ![r] = IF @ = 0 THEN 0 ELSE @ - 1],
        counter |-> [q.counter EXCEPT ![r][u] = IF @ = 0 THEN 0 ELSE @ - 1], used |-> q.used \ {s}]

Becomes(q) == total' = q.total /\ counter' = q.counter /\ used' = q.used

-----------------------------------------------------------------------------
(* open_client_connection_session *)
Open(s) ==
  /\ state[s] = "none"
  /\ state' = [state EXCEPT ![s] = "open"]
  /\ UNCHANGED <<known, total, counter, used, user, realm, strayed>>

(* handle_turn_allocate of user u, whose origin belongs to realm r; both   *)
(* stay with the session.  An error after inc_quota (bandwidth, draining,  *)
(* no port) leaves the quota taken.                                        *)
Allocate(s, u, r, granted) ==
  LET p == Inc(Touched(Now, r), s, u, r) IN
  /\ state[s] = "open"
  /\ user[s] \in {NoUser, u} /\ realm[s] \in {NoUser, r}    \* 437, 441
  /\ granted => s \in p.used                            \* 486
  /\ Becomes(p)
  /\ known' = known \cup {r}
  /\ user' = [user EXCEPT ![s] = u]
  /\ realm' = [realm EXCEPT ![s] = r]
  /\ state' = [state EXCEPT ![s] = IF granted THEN "alloc" ELSE @]
  /\ UNCHANGED strayed

(* The database, or an administrator, names a realm. *)
NewRealm(r) ==
  /\ r \notin known
  /\ Becomes(Touched(Now, r))
  /\ known' = known \cup {r}
  /\ UNCHANGED <<state, user, realm, strayed>>


(* shutdown_client_connection: the quota of a mobile session goes back     *)
(* with the first stage.                                                   *)
Shutdown(s, force) ==
  LET parks == ~force /\ s \in Mobile /\ state[s] \in {"alloc", "parked"} IN
  /\ state[s] # "none"
  /\ Becomes(IF s \in used THEN Dec(Now, s, user[s], realm[s]) ELSE Now)
  /\ state' = [state EXCEPT ![s] = IF parks THEN "parked" ELSE "none"]
  /\ user' = IF parks THEN user ELSE [user EXCEPT ![s] = NoUser]
  /\ realm' = IF parks THEN realm ELSE [realm EXCEPT ![s] = NoUser]
  /\ UNCHANGED <<known, strayed>>

(* copy_auth_parameters to s, which has user u and realm r, of user v and  *)
(* realm w                                                                 *)
CopyAuth(q, s, u, r, v, w) ==
  Inc(IF s \in q.used THEN Dec(q, s, u, r) ELSE q, s, v, w)

(* handle_turn_refresh, session transfer: session n, without an            *)
(* allocation, has the ticket of s.  A session that is not authenticated   *)
(* yet (user NoUser) takes over the user of s, one that is keeps its own;    *)
(* the realm is that of s in any case, set without a look at the quota.    *)
(* Then s is given the user of n.                                          *)
Transfer(n, s) ==
  LET r == realm[s]
      u == IF user[n] = NoUser THEN user[s] ELSE user[n]
      q1 == IF user[n] = NoUser THEN CopyAuth(Now, n, NoUser, NoUser, u, r) ELSE Now
      q2 == CopyAuth(q1, s, user[s], r, u, r)
      q3 == IF n \in q2.used THEN Dec(q2, n, u, r) ELSE q2
  IN
  /\ n # s /\ state[n] = "open"
  /\ state[s] \in {"alloc", "parked"} /\ s \in Mobile
  /\ Becomes(Inc(q3, s, u, r))
  /\ state' = [state EXCEPT ![n] = "none", ![s] = "alloc"]
  /\ user' = [user EXCEPT ![n] = NoUser, ![s] = u]
  /\ realm' = [realm EXCEPT ![n] = NoUser]
  /\ strayed' = (strayed \/ (n \in used /\ realm[n] # r))
  /\ UNCHANGED known

(* The same, when the authentication fails: n keeps what it was given. *)
TransferRefused(n, s) ==
  /\ n # s /\ state[n] = "open"
  /\ state[s] \in {"alloc", "parked"} /\ s \in Mobile
  /\ Becomes(IF user[n] = NoUser THEN CopyAuth(Now, n, NoUser, NoUser, user[s], realm[s]) ELSE Now)
  /\ user' = IF user[n] = NoUser THEN [user EXCEPT ![n] = user[s]] ELSE user
  /\ realm' = [realm EXCEPT ![n] = realm[s]]
  /\ strayed' = (strayed \/ (n \in used /\ realm[n] # realm[s]))
  /\ UNCHANGED <<known, state>>

(* check_stun_auth of a ConnectionBind for a connection of session s: the  *)
(* realm of the message becomes that of the session.                       *)
ConnectionBind(s, r) ==
  /\ TcpRelay /\ state[s] \in {"alloc", "parked"}
  /\ Becomes(Touched(Now, r))
  /\ known' = known \cup {r}
  /\ realm' = [realm EXCEPT ![s] = r]
  /\ strayed' = (strayed \/ (s \in used /\ realm[s] # r))
  /\ UNCHANGED <<state, user>>

QuotaNext ==
  \/ \E s \in Sess :
       \/ Open(s)
       \/ \E u \in User, r \in Realm, granted \in BOOLEAN : Allocate(s, u, r, granted)
       \/ \E force \in BOOLEAN : Shutdown(s, force)
       \/ \E n \in Sess : Transfer(n, s) \/ TransferRefused(n, s)
       \/ \E r \in Realm : ConnectionBind(s, r)
  \/ \E r \in Realm : NewRealm(r)

QuotaSpec == QuotaInit /\ [][QuotaNext]_quotavars

-----------------------------------------------------------------------------
(* Properties *)

Takers(r) == {s \in used : realm[s] = r}

(* Until a realm is made or a session changes its realm, the counters of a *)
(* realm are the sessions that took from it: nothing is taken or given     *)
(* back twice, however sessions are parked, transferred and closed.  A     *)
(* realm that get_realm makes while sessions run never counts fewer        *)
(* sessions than took from it, unless one of them changed its realm.       *)
CountersMatch ==
  /\ known = Configured /\ ~strayed =>
       \A r \in Realm :
         /\ total[r] = Cardinality(Takers(r))
         /\ \A u \in User : counter[r][u] = Cardinality({s \in Takers(r) : user[s] = u})
  /\ ~strayed => \A r \in Realm : total[r] >= Cardinality(Takers(r))

(* The sessions that count for a realm, and for a user, are within the     *)
(* quotas, unless one of them changed its realm.                           *)
TakersWithinQuota ==
  ~strayed =>
    \A r \in Realm :
      /\ TotalQuota # 0 => Cardinality(Takers(r)) <= TotalQuota
      /\ UserQuota # 0 => \A u \in User : Cardinality({s \in Takers(r) : user[s] = u}) <= UserQuota

=============================================================================
