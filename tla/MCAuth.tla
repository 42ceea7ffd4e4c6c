------------------------------- MODULE MCAuth -------------------------------
(* The configurations and requests with which Auth is checked.             *)
EXTENDS Auth

(* Passwords, a shared secret and OAuth tokens, each with the options that *)
(* matter to it.                                                           *)
Checked(mode, stale, origin, stun, inline, al) ==
  [mode |-> mode, staleNonce |-> stale, checkOrigin |-> origin, secureStun |-> stun,
   inline |-> inline, alt |-> al]
FirstChecked == Checked("secret", FALSE, FALSE, TRUE, TRUE, TRUE)
MCAuthOption ==
  {FirstChecked, Checked("users", FALSE, TRUE, FALSE, FALSE, FALSE),
   Checked("oauth", TRUE, FALSE, FALSE, TRUE, TRUE)}
MCOriginRealm == [o1 |-> "r2"]
MCAccounts == [a |-> "p1", b |-> "p2"]
Signed(me, k, r, u, n, o, t) ==
  [method |-> me, key |-> k, realm |-> r, user |-> u, nonce |-> n, origin |-> o, token |-> t]
MCRequest ==
  {Signed("binding", NoKey, NoAuth, NoAuth, NoAuth, NoAuth, FALSE),
   Signed("allocate", <<"a", "r1", "p1">>, "r1", "a", 1, NoAuth, TRUE),
   Signed("refresh", <<"b", "r1", "p2">>, "r1", "b", 1, NoAuth, TRUE),
   Signed("refresh", <<"a", "r1", "p2">>, "r1", "a", 1, NoAuth, FALSE),
   Signed("allocate", <<"a", "r2", "p1">>, "r2", "a", 1, "o1", FALSE)}
=============================================================================
