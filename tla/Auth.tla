-------------------------------- MODULE Auth --------------------------------
(***************************************************************************)
(* The authentication of requests: check_stun_auth on the relay thread,    *)
(* the user check on the authentication threads (or inline), and the       *)
(* resumption of the request when the answer comes back                    *)
(* (ns_turn_server.c, userdb.c, netengine.c).                              *)
(*                                                                         *)
(* A key is a triple <<user, realm, password>>; the MESSAGE-INTEGRITY of a *)
(* request is the key it was computed with.  A shared secret or an OAuth   *)
(* token takes the place of the password.  Requests are numbered in the    *)
(* order they arrive.  The time enters only through nonces that expire.    *)
(***************************************************************************)
EXTENDS Integers, Sequences

CONSTANTS
  AuthSess,        \* session ids (never used twice: session_id_counter)
  NAuth,       \* authserver_number - 1
  AuthUser, AuthRealm, Password,
  OriginRealm, \* the realm of each origin (get_realm_options_by_origin)
  DefaultRealm,
  StaticUser,  \* the users of the static accounts
  AuthOption,  \* the configurations examined
  FirstAccounts, \* the accounts at the start
  Request,     \* the requests clients send
  MaxRequest,  \* bound: requests of one behaviour
  MaxNonce,    \* bound: nonces of one session
  NoAuth         \* an attribute that is absent or not a secure string

AuthThread == 1..NAuth
AuthKey == AuthUser \X AuthRealm \X Password

VARIABLES
  opt,      \* the configuration: mode, checkOrigin, secureStun, inline, alt
  ses,      \* the sessions of one relay thread
  accounts, \* the password of each user, the secrets or the tokens in force
  asked,    \* the requests so far: what was sent and what became of it
  authq,    \* the messages in the out_buf of each authentication thread
  resumeq,  \* the messages in the auth_out_buf of the relay thread
  authcount,  \* auth_message_counter
  granted   \* history: the keys get_user_key returned for each session

AuthVars == <<opt, ses, accounts, asked, authq, resumeq, authcount, granted>>

NoKey == <<NoAuth, NoAuth, NoAuth>>
ASSUME AuthAssumption ==
  /\ NAuth \in Nat \ {0} /\ NoAuth \notin AuthUser /\ DefaultRealm \in AuthRealm
  /\ OriginRealm \in [DOMAIN OriginRealm -> AuthRealm] /\ FirstAccounts \in [AuthUser -> Password]
  /\ Request \subseteq [method : STRING, user : AuthUser \cup {NoAuth},
                        realm : AuthRealm \cup {NoAuth}, key : AuthKey \cup {NoKey},
                        nonce : Nat \cup {NoAuth}, origin : DOMAIN OriginRealm \cup {NoAuth},
                        token : BOOLEAN]

NewAuthSession == [state |-> "open", nonce |-> 0, stale |-> FALSE, user |-> NoAuth, key |-> NoKey,
               oauth |-> FALSE, realm |-> DefaultRealm, origin |-> NoAuth, pinned |-> FALSE,
               tid |-> 0]

AuthInit ==
  /\ opt \in AuthOption
  /\ ses = [s \in AuthSess |-> [NewAuthSession EXCEPT !.state = "none"]]
  /\ accounts = FirstAccounts
  /\ asked = <<>>
  /\ authq = [t \in AuthThread |-> <<>>]
  /\ resumeq = <<>>
  /\ authcount = 0
  /\ granted = [s \in AuthSess |-> {}]

-----------------------------------------------------------------------------
(* check_stun_auth, as functions of the session and the request *)

(* A nonce is made for the first request and when the last one is stale.   *)
WithNonce(ss) ==
  IF ss.nonce = 0 \/ (opt.staleNonce /\ ss.stale)
  THEN [ss EXCEPT !.nonce = @ + 1, !.stale = FALSE] ELSE ss

(* The REALM attribute: it must name the realm of the session, except for  *)
(* an OAuth session, whose realm is used instead.                          *)
WrongRealm(ss, q) == q.realm # ss.realm /\ ~ss.oauth

(* The USERNAME attribute: the first one is kept for the session, another  *)
(* one is refused, except for an OAuth session, which drops its key.       *)
WrongUser(ss, q) == ss.user \notin {NoAuth, q.user} /\ ~ss.oauth
WithUser(ss, q) ==
  IF ss.user \in {NoAuth, q.user} THEN [ss EXCEPT !.user = q.user]
  ELSE [ss EXCEPT !.user = q.user, !.key = NoKey]

MismatchCode(q) == IF q.method = "allocate" THEN "437" ELSE "441"

(* Mutant: the integrity is not computed again once the session has a key. *)
CredentialCheckOnce(ss, q, fresh, canResume) ==
  [ss |-> ss,
   verdict |-> IF q.nonce = NoAuth THEN "400"
               ELSE IF fresh \/ q.nonce # ss.nonce THEN "438"
               ELSE IF ss.key # NoKey THEN "ok"
               ELSE IF canResume THEN "ask" ELSE "401"]

(* What follows the attribute checks: the session and the verdict, "ok",   *)
(* "ask" (userkeycb) or an error code.                                     *)
CredentialCheck(ss, q, fresh, canResume) ==
  LET verdict ==
        IF q.nonce = NoAuth THEN "400"
        ELSE IF fresh \/ q.nonce # ss.nonce THEN "438"
        ELSE IF ss.key # NoKey /\ q.key = ss.key THEN "ok"
        ELSE IF canResume THEN "ask"
        ELSE "401"
  IN [ss |-> ss, verdict |-> verdict]

check_stun_auth(ss0, q, canResume) ==
  LET ss == WithNonce(ss0)
      stop(code) == [ss |-> ss, verdict |-> code]
  IN IF q.key = NoKey THEN stop("401")
     ELSE IF q.realm = NoAuth THEN stop("400")
     ELSE IF WrongRealm(ss, q) THEN stop(MismatchCode(q))
     ELSE IF q.user = NoAuth THEN stop("400")
     ELSE IF WrongUser(ss, q) THEN stop(MismatchCode(q))
     ELSE CredentialCheck(WithUser(ss, q), q, ss0.nonce = 0, canResume)

-----------------------------------------------------------------------------
(* handle_turn_command, as a function of the session and the request *)

NeedsAuth(q) == q.method # "binding" \/ opt.secureStun

(* An ALLOCATE for an allocation that exists must be the same transaction; *)
(* a server with alternates sends the client elsewhere.                    *)
OtherTransaction(ss, q, r) == q.method = "allocate" /\ ss.tid \notin {0, r}
Redirected(ss, q, r) == q.method = "allocate" /\ ss.tid \in {0, r} /\ opt.alt

(* The ORIGIN attribute against the origin the session was pinned to.      *)
OriginRefused(ss, q) ==
  /\ ss.pinned
  /\ opt.checkOrigin
  /\ IF ss.origin # NoAuth THEN q.origin # ss.origin ELSE q.origin # NoAuth

(* Until an ALLOCATE was authenticated, each one sets origin and realm.    *)
WithOrigin(ss, q) ==
  IF ~ss.pinned /\ q.method = "allocate" /\ q.origin # NoAuth
  THEN [ss EXCEPT !.origin = q.origin, !.realm = OriginRealm[q.origin]]
  ELSE ss

(* The origin is pinned once the request is authenticated; the ALLOCATE    *)
(* handler keeps the transaction.                                          *)
Execute(ss, q, r) ==
  IF q.method = "allocate"
  THEN [ss EXCEPT !.pinned = NeedsAuth(q), !.tid = r] ELSE ss

(* The session afterwards and what becomes of the request: "done" (its     *)
(* handler ran), "ask" or an error code that is sent to the client.        *)
handle_turn_command(ss0, q, r, canResume) ==
  IF ~NeedsAuth(q) THEN [ss |-> ss0, verdict |-> "done"]
  ELSE IF Redirected(ss0, q, r) THEN [ss |-> ss0, verdict |-> "300"]
  ELSE IF OriginRefused(ss0, q) THEN [ss |-> ss0, verdict |-> "441"]
  ELSE IF OtherTransaction(ss0, q, r) THEN [ss |-> ss0, verdict |-> "437"]
  ELSE LET c == check_stun_auth(WithOrigin(ss0, q), q, canResume)
       IN IF c.verdict = "ok"
          THEN [ss |-> Execute(c.ss, q, r), verdict |-> "done"] ELSE c

-----------------------------------------------------------------------------
(* The user check *)

(* get_user_key: what it returns for a message, {} for a failure.          *)
ByToken(m) == {k \in AuthKey : k = m.q.key /\ k[3] = accounts[m.user] /\ m.q.token}
BySecret(m) == {k \in AuthKey : /\ k = m.q.key
                                /\ k[1] = m.user /\ k[2] = m.realm
                                /\ k[3] \in {accounts[u] : u \in AuthUser}}
ByAccount(m) == {<<m.user, IF m.user \in StaticUser THEN DefaultRealm ELSE m.realm,
                   accounts[m.user]>>}

IsOauth(m) == m.oauth \/ (opt.mode = "oauth" /\ m.q.token)

get_user_key(m) ==
  IF IsOauth(m) THEN IF opt.mode = "oauth" THEN ByToken(m) ELSE {}
  ELSE IF opt.mode = "secret" THEN BySecret(m)
  ELSE ByAccount(m)

Answered(m) ==
  [m EXCEPT !.success = get_user_key(m) # {},
            !.key = IF get_user_key(m) = {} THEN NoKey ELSE CHOOSE k \in get_user_key(m) : TRUE,
            !.realm = IF IsOauth(m) /\ get_user_key(m) # {} THEN m.q.key[2] ELSE @,
            !.oauth = IsOauth(m)]

Remember(m) == [granted EXCEPT ![m.ses] = @ \cup get_user_key(m)]

(* can_auth_message_inline: with static secrets the relay thread checks.   *)
Inline == opt.mode = "secret" /\ opt.inline

Settle(r, outcome) == [asked EXCEPT ![r].outcome = outcome]

(* start_user_check and send_auth_message_to_auth_server: the request goes *)
(* to the next authentication thread, or is lost when the message cannot   *)
(* be allocated or queued.  log is asked, the request included.            *)
start_user_check(s, ss, q, r, log) ==
  LET m == [ses |-> s, req |-> r, q |-> q, user |-> q.user,
            realm |-> IF q.realm # ss.realm THEN ss.realm ELSE q.realm,
            oauth |-> ss.oauth, success |-> FALSE, key |-> NoKey]
      t == (authcount % NAuth) + 1
  IN \/ /\ asked' = [log EXCEPT ![r].outcome = "dropped"]
        /\ UNCHANGED <<authq, resumeq, authcount, granted>>
     \/ /\ ~Inline
        /\ authq' = [authq EXCEPT ![t] = Append(@, m)]
        /\ authcount' = authcount + 1
        /\ asked' = log
        /\ UNCHANGED <<resumeq, granted>>
     \/ /\ Inline
        /\ resumeq' = Append(resumeq, Answered(m))
        /\ granted' = Remember(m)
        /\ asked' = log
        /\ UNCHANGED <<authq, authcount>>

-----------------------------------------------------------------------------
(* The handlers *)

(* open_client_connection_session *)
OpenSession(s) ==
  /\ ses[s].state = "none"
  /\ ses' = [ses EXCEPT ![s] = NewAuthSession]
  /\ UNCHANGED <<opt, accounts, asked, authq, resumeq, authcount, granted>>

(* client_input_handler and read_client_connection for a new request.      *)
Receive(s, q) ==
  LET r == Len(asked) + 1
      h == handle_turn_command(ses[s], q, r, TRUE)
      log(outcome) == Append(asked, [ses |-> s, q |-> q, outcome |-> outcome])
  IN /\ ses[s].state = "open"
     /\ r <= MaxRequest
     /\ ses' = [ses EXCEPT ![s] = h.ss]
     /\ IF h.verdict = "ask"
        THEN start_user_check(s, h.ss, q, r, log("pending"))
        ELSE /\ asked' = log(h.verdict)
             /\ UNCHANGED <<authq, resumeq, authcount, granted>>
     /\ UNCHANGED <<opt, accounts>>

(* auth_server_receive_message: the key is looked up and the message goes  *)
(* back to the relay thread, unless it cannot be queued.                   *)
UserCheck(t) ==
  /\ authq[t] # <<>>
  /\ authq' = [authq EXCEPT ![t] = Tail(@)]
  /\ LET m == Head(authq[t]) IN
       /\ granted' = Remember(m)
       /\ \/ resumeq' = Append(resumeq, Answered(m)) /\ UNCHANGED asked
          \/ asked' = Settle(m.req, "dropped") /\ UNCHANGED resumeq
  /\ UNCHANGED <<opt, ses, accounts, authcount>>

(* The session the answer leaves: key, OAuth flag and, where it differs,   *)
(* the realm of the check.                                                 *)
WithAnswer(ss, m) ==
  IF m.success THEN [ss EXCEPT !.key = m.key, !.oauth = m.oauth, !.realm = m.realm] ELSE ss

(* Mutant: the resumed request may be sent to the user check again. *)
ResumeAsksAgain ==
  /\ resumeq # <<>>
  /\ LET m == Head(resumeq)
         h == handle_turn_command(WithAnswer(ses[m.ses], m), m.q, m.req, TRUE)
     IN IF h.verdict = "ask" /\ ses[m.ses].state = "open"
        THEN /\ authq' = [authq EXCEPT ![1] = Append(@, m)]
             /\ UNCHANGED <<ses, asked>>
        ELSE /\ ses' = [ses EXCEPT ![m.ses] = IF @.state = "open" THEN h.ss ELSE @]
             /\ asked' = Settle(m.req, h.verdict)
             /\ UNCHANGED authq
  /\ resumeq' = Tail(resumeq)
  /\ UNCHANGED <<opt, accounts, authcount, granted>>

(* resume_processing_after_username_check and handle_relay_auth_message:   *)
(* the session takes the answer and the request is handled once more,      *)
(* without another check; nothing happens when the session is gone.        *)
Resume ==
  /\ resumeq # <<>>
  /\ resumeq' = Tail(resumeq)
  /\ LET m == Head(resumeq)
         ss == WithAnswer(ses[m.ses], m)
         h == handle_turn_command(ss, m.q, m.req, FALSE)
     IN CASE ses[m.ses].state = "open" ->
               /\ ses' = [ses EXCEPT ![m.ses] = h.ss]
               /\ asked' = Settle(m.req, h.verdict)
          [] ses[m.ses].state = "closing" ->
               /\ ses' = [ses EXCEPT ![m.ses] = ss]
               /\ asked' = Settle(m.req, "dropped")
          [] OTHER -> asked' = Settle(m.req, "dropped") /\ UNCHANGED ses
  /\ UNCHANGED <<opt, accounts, authq, authcount, granted>>

(* The time of --stale-nonce passes.                                       *)
NonceExpires(s) ==
  /\ opt.staleNonce
  /\ ses[s].nonce \in 1..MaxNonce - 1
  /\ ses' = [ses EXCEPT ![s].stale = TRUE]
  /\ UNCHANGED <<opt, accounts, asked, authq, resumeq, authcount, granted>>

(* to_be_closed, then shutdown_client_connection.                          *)
CloseSession(s) ==
  /\ ses[s].state \in {"open", "closing"}
  /\ ses' = [ses EXCEPT ![s].state = IF @ = "open" THEN "closing" ELSE "gone"]
  /\ UNCHANGED <<opt, accounts, asked, authq, resumeq, authcount, granted>>

(* An administrator changes a password, a secret or a token.               *)
ChangeAccount(u, p) ==
  /\ accounts[u] # p
  /\ accounts' = [accounts EXCEPT ![u] = p]
  /\ UNCHANGED <<opt, ses, asked, authq, resumeq, authcount, granted>>

AuthNext ==
  \/ \E s \in AuthSess : OpenSession(s) \/ NonceExpires(s) \/ CloseSession(s)
  \/ \E s \in AuthSess, q \in Request : Receive(s, q)
  \/ \E t \in AuthThread : UserCheck(t)
  \/ Resume
  \/ \E u \in AuthUser, p \in Password : ChangeAccount(u, p)

(* The event loops of the authentication threads and of the relay thread   *)
(* run every callback that has input.                                      *)
AuthFairness ==
  /\ \A t \in AuthThread : WF_AuthVars(UserCheck(t))
  /\ WF_AuthVars(Resume)
AuthSpec == AuthInit /\ [][AuthNext]_AuthVars /\ AuthFairness

-----------------------------------------------------------------------------
(* Properties *)

(* A request that needs authentication runs only when its integrity key is *)
(* one the user check returned for this session and, unless the session    *)
(* is an OAuth one, for the very user it names, however the checks of its  *)
(* session were interleaved with other requests, nonces and closures.      *)
Authentic ==
  \A r \in DOMAIN asked :
    LET a == asked[r] IN
      a.outcome = "done" /\ NeedsAuth(a.q) =>
        /\ a.q.key \in granted[a.ses]
        /\ opt.mode # "oauth" => a.q.key[1] = a.q.user

(* A postponed request is settled: it is resumed once and then answered or *)
(* run, or it is dropped with its session or for want of memory.  It never *)
(* goes round between the threads.                                         *)
RequestSettled ==
  \A r \in 1..MaxRequest :
    (r \in DOMAIN asked /\ asked[r].outcome = "pending")
      ~> (r \in DOMAIN asked /\ asked[r].outcome # "pending")

=============================================================================
