------------------------------ MODULE MCTables ------------------------------
(***************************************************************************)
(* The tables and counters that the server and its tools keep, one per     *)
(* behaviour: "part" says which, and the variables of the others keep      *)
(* their first value.                                                      *)
(***************************************************************************)
EXTENDS PermissionTable, Quota, Mobility, UdpListener, NatDiscovery, BandwidthPool,
  UserDb, UclientTraffic, MCAuth

VARIABLE part

(* An allocation with one main slot in each of two buckets: three hosts    *)
(* fill a bucket and its extra slots, the fourth has the other one; two of *)
(* three channel numbers share a bucket.                                   *)
CONSTANTS h1, h2, h3, h4, n1, n2, n3, b1, b2

MCHost == {h1, h2, h3, h4}
MCHashOf == [h \in MCHost |-> IF h = h4 THEN b2 ELSE b1]
MCChNum == {n1, n2, n3}
MCChHashOf == [n \in MCChNum |-> IF n = n3 THEN b2 ELSE b1]
AnyFault == {"array", "slot", "channel"}

(* Three sessions, one of them mobile, and quotas that two sessions reach. *)
CONSTANTS s1, s2, s3, home, guest

OneMobile == {s1}
TwoRealms == {home, guest}

(* A UDP listener with and without DTLS and plain UDP, with a failure.     *)
Listening(nu, nd, d, f) == [noudp |-> nu, nodtls |-> nd, drop |-> d, faults |-> f]
FirstListening == Listening(FALSE, FALSE, FALSE, 1)
MCUlSetup == {FirstListening, Listening(TRUE, FALSE, TRUE, 1), Listening(FALSE, TRUE, TRUE, 0)}

(* Every NAT that RFC 4787 tells apart, none, and servers with one or two  *)
(* addresses of the client's family.                                       *)
FirstNat == [mapping |-> "none", filtering |-> "ei", hairpin |-> FALSE]
MCNatKind == {FirstNat} \union
  [mapping : {"ei", "ad", "apd"}, filtering : {"ei", "ad", "apd"}, hairpin : BOOLEAN]
V4(ip) == [ip |-> ip, fam |-> 4]
V6(ip) == [ip |-> ip, fam |-> 6]
FirstService == [rfc5780 |-> FALSE, addrs |-> <<V4("S0"), V4("S1")>>]
MCStunService ==
  [rfc5780 : BOOLEAN, addrs : {<<V4("S0"), V4("S1")>>, <<V4("S0"), V6("S1"), V4("S2")>>,
                               <<V6("S0"), V4("S1")>>}]
MCProbe ==
  {[Plain EXCEPT !.st = "tcp", !.cport = TRUE], [Plain EXCEPT !.st = "tcp", !.rport = 5],
   [Plain EXCEPT !.st = "tcp", !.padding = TRUE], [Plain EXCEPT !.unknown = TRUE],
   [Plain EXCEPT !.old = TRUE], [Plain EXCEPT !.old = TRUE, !.method = "other"],
   [Plain EXCEPT !.padding = TRUE, !.rport = 2]}

(* One call of each function of the drivers, on an empty and a filled      *)
(* database; t1 is the thread that re-reads the realms.                    *)
CONSTANTS t1, t2, t3

Called(fn, tbl, rlm, item, val) ==
  [fn |-> fn, tbl |-> tbl, realm |-> rlm, item |-> item, val |-> val]
MCDbCall ==
  {Called("set_user_key", "user", "r1", "u", "k1"), Called("del_user", "user", "r1", "u", Nothing),
   Called("get_user_key", "user", "r1", "u", Nothing),
   Called("set_oauth_key", "oauth", Nothing, "kid", "k1"),
   Called("del_oauth_key", "oauth", Nothing, "kid", Nothing),
   Called("set_admin_user", "admin", Nothing, "adm", <<Nothing, "p1">>),
   Called("del_admin_user", "admin", Nothing, "adm", Nothing),
   Called("set_secret", "secret", "r1", "s", "k0"),
   Called("del_secret", "secret", "r1", Nothing, Nothing),
   Called("get_auth_secrets", "secret", "r1", "s", Nothing),
   Called("set_permission_ip", "denied", "r1", "ip", "k0"),
   Called("set_permission_ip", "denied", "r1", "ip", Nothing),
   Called("add_origin", "origin", Nothing, "o", "r2"),
   Called("del_origin", "origin", Nothing, "o", Nothing),
   Called("set_realm_option_one", "option", "r1", "max-bps", "5"),
   Called("set_realm_option_one", "option", "r2", "max-bps", Nothing),
   Called("reread_realms", "option", "r1", "max-bps", Nothing)}
FirstValue(r) ==
  IF r[1] = "admin" THEN <<"r1", "p0">> ELSE IF r[1] = "origin" THEN "r1"
  ELSE IF r[1] = "option" THEN "3" ELSE "k0"
EmptyDb == [r \in DbRow |-> {}]
MCFirstDb == {EmptyDb, [r \in DbRow |-> IF r[3] = Nothing THEN {} ELSE {FirstValue(r)}]}
MCConnInfo == {<<<<"host", "h">>, <<"pwd", "x">>>>}

(* The load generator with one sender thread and with two.                 *)
Senders(n) ==
  [senders |-> n, listeners |-> 1, hang |-> FALSE, random |-> FALSE, live |-> 0, lost |-> 2 - n]
MCUtSetup == {Senders(1), Senders(2)}

Others(p) ==
  /\ p # "perms" => UNCHANGED tablevars
  /\ p # "quota" => UNCHANGED quotavars
  /\ p # "mobility" => UNCHANGED MobVars
  /\ p # "listener" => UNCHANGED UlVars
  /\ p # "nat" => UNCHANGED NatVars
  /\ p # "bps" => UNCHANGED bpsvars
  /\ p # "db" => UNCHANGED DbVars
  /\ p # "traffic" => UNCHANGED UtVars
  /\ p # "auth" => UNCHANGED AuthVars
  /\ UNCHANGED part

Init ==
  /\ part \in {"perms", "quota", "mobility", "listener", "nat", "bps", "db", "traffic", "auth"}
  /\ TableInit /\ QuotaInit /\ MobInit
  /\ UlInit /\ (part # "listener" => ulcfg = FirstListening)
  /\ NatInit /\ (part # "nat" => nat = FirstNat /\ srv = FirstService /\
                                tool.prog = "lifetime" /\ tool.first = "S0")
  /\ BpsInit /\ (part # "bps" => bps_capacity = 0)
  /\ UserDbInit /\ (part # "db" => dbtype = "sqlite" /\ \A r \in DbRow : db[r] = {})
  /\ UtInit /\ (part # "traffic" => ucfg = Senders(1))
  /\ AuthInit /\ (part # "auth" => opt = FirstChecked)
Next ==
  \/ part = "perms" /\ TableNext /\ Others("perms")
  \/ part = "quota" /\ QuotaNext /\ Others("quota")
  \/ part = "mobility" /\ MobNext /\ Others("mobility")
  \/ part = "listener" /\ UlNext /\ Others("listener")
  \/ part = "nat" /\ NatNext /\ Others("nat")
  \/ part = "bps" /\ BpsNext /\ Others("bps")
  \/ part = "db" /\ UserDbNext /\ Others("db")
  \/ part = "traffic" /\ UtNext /\ Others("traffic")
  \/ part = "auth" /\ AuthNext /\ Others("auth")
Spec == Init /\ [][Next]_<<part, tablevars, quotavars, MobVars, UlVars, NatVars, bpsvars,
                       DbVars, UtVars, AuthVars>>
=============================================================================
