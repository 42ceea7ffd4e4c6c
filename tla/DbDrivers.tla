------------------------------ MODULE DbDrivers ------------------------------
(***************************************************************************)
(* The five database drivers of coturn (dbdrivers/dbd_*.c) as the tables   *)
(* of functions (turn_dbdriver_t) they are: every driver function is the   *)
(* sequence of the statements it sends to its database, with what each     *)
(* statement's success and failure do to the function's return value.      *)
(* A call is a record [fn, tbl, realm, item, val]: the function, the row   *)
(* it is about and the value it writes (Nothing for a removal).            *)
(***************************************************************************)
EXTENDS Sequences, Integers

CONSTANT Nothing   \* no value: an empty string, a zero option, a deletion

(***************************************************************************)
(* A statement is an operation on the row of the call and what follows it: *)
(* "go" on with the next statement, "stop" and return, or set the return   *)
(* value to 0 ("ok") before going on or stopping ("okstop").  A function   *)
(* returns -1 unless a statement set it to 0.  bad is the set of outcomes  *)
(* of a statement that fails.                                              *)
(***************************************************************************)
Do(op, good, bad) == [op |-> op, good |-> good, bad |-> bad]

(***************************************************************************)
(* Forms that several functions share.                                     *)
(***************************************************************************)
Once(op)        == <<Do(op, "ok", {"go"})>>     \* ret = 0 iff it succeeded
Regardless(op)  == <<Do(op, "ok", {"ok"})>>     \* ret = 0 whatever happened
Reading(op)     == <<Do(op, "ok", {"go"})>>     \* a select and its rows
InsertElseUpdate(inserted) == <<Do("insert", inserted, {"go"}), Do("update", "ok", {"go"})>>
DeleteThenInsert(c) == <<Do("delete", "go", {"go"})>> \o (IF c.val = Nothing THEN <<>> ELSE Once("insert"))

-----------------------------------------------------------------------------
(***************************************************************************)
(* MySQL.  A set function inserts the row and, when that fails, updates    *)
(* it; the two statements are not one transaction.                         *)
(***************************************************************************)
mysql_get_auth_secrets        == Reading("scan")
mysql_get_user_key            == Reading("find")
mysql_get_oauth_key           == Reading("find")
mysql_list_oauth_keys         == Reading("scan")
mysql_set_user_key            == InsertElseUpdate("okstop")
mysql_set_oauth_key           == InsertElseUpdate("okstop")
mysql_del_user                == Once("delete")
mysql_del_oauth_key           == Once("delete")
mysql_list_users              == Reading("scan")
mysql_list_secrets            == Reading("scan")
mysql_del_secret(c)           == Regardless(IF c.item = Nothing THEN "deleteRealm" ELSE "delete")
mysql_set_secret              == Once("insert")
mysql_set_permission_ip(c)    == Once(IF c.val = Nothing THEN "delete" ELSE "insert")
mysql_add_origin              == Once("insert")
mysql_del_origin              == Once("delete")
mysql_list_origins            == Reading("scan")
mysql_set_realm_option_one(c) == DeleteThenInsert(c)
mysql_list_realm_options      == Reading("scan")
mysql_auth_ping               == <<Do("scan", "go", {"go"})>>
mysql_get_ip_list             == <<Do("scan", "okstop", {"go"}), Do("scan", "ok", {"go"})>>

\* A slip of this function, for the mutation of the model.
mysql_reread_realms_keeping == <<Do("origins", "go", {"go"}), Do("options", "go", {"go"})>>
mysql_reread_realms           == <<Do("origins", "go", {"go"}), Do("defaults", "go", {}), Do("options", "go", {"go"})>>
mysql_get_admin_user          == Reading("find")
mysql_set_admin_user          == InsertElseUpdate("okstop")
mysql_del_admin_user          == Once("delete")
mysql_list_admin_users        == Reading("scan")

mysql_driver(c) == [
  get_auth_secrets |-> mysql_get_auth_secrets, get_user_key |-> mysql_get_user_key,
  get_oauth_key |-> mysql_get_oauth_key, list_oauth_keys |-> mysql_list_oauth_keys,
  set_user_key |-> mysql_set_user_key, set_oauth_key |-> mysql_set_oauth_key,
  del_user |-> mysql_del_user, del_oauth_key |-> mysql_del_oauth_key,
  list_users |-> mysql_list_users, list_secrets |-> mysql_list_secrets,
  del_secret |-> mysql_del_secret(c), set_secret |-> mysql_set_secret,
  set_permission_ip |-> mysql_set_permission_ip(c), add_origin |-> mysql_add_origin,
  del_origin |-> mysql_del_origin, list_origins |-> mysql_list_origins,
  set_realm_option_one |-> mysql_set_realm_option_one(c), list_realm_options |-> mysql_list_realm_options,
  auth_ping |-> mysql_auth_ping, get_ip_list |-> mysql_get_ip_list,
  reread_realms |-> mysql_reread_realms, get_admin_user |-> mysql_get_admin_user,
  set_admin_user |-> mysql_set_admin_user, del_admin_user |-> mysql_del_admin_user,
  list_admin_users |-> mysql_list_admin_users][c.fn]

-----------------------------------------------------------------------------
(***************************************************************************)
(* PostgreSQL: the same statements; set_user_key and set_admin_user report *)
(* a failure when the insert succeeds, and a deletion that the server      *)
(* refused is reported as done as long as there was an answer.             *)
(***************************************************************************)
pgsql_get_auth_secrets        == Reading("scan")
pgsql_get_user_key            == Reading("find")
pgsql_get_oauth_key           == Reading("find")
pgsql_list_oauth_keys         == Reading("any")
pgsql_set_user_key            == InsertElseUpdate("stop")

pgsql_set_oauth_key           == InsertElseUpdate("okstop")
pgsql_del_user                == <<Do("delete", "ok", {"ok", "go"})>>
pgsql_del_oauth_key           == Once("delete")
pgsql_list_users              == Reading("scan")
pgsql_list_secrets            == Reading("scan")
pgsql_del_secret(c)           == <<Do(IF c.item = Nothing THEN "deleteRealm" ELSE "delete", "ok", {"ok", "go"})>>
pgsql_set_secret              == Once("insert")
pgsql_set_permission_ip(c)    == Once(IF c.val = Nothing THEN "delete" ELSE "insert")
pgsql_add_origin              == Once("insert")
pgsql_del_origin              == Once("delete")
pgsql_list_origins            == Reading("scan")
pgsql_set_realm_option_one(c) == DeleteThenInsert(c)
pgsql_list_realm_options      == Reading("scan")
pgsql_auth_ping               == <<Do("scan", "go", {"go"})>>
pgsql_get_ip_list             == <<Do("scan", "okstop", {"go"}), Do("scan", "ok", {"go"})>>
pgsql_reread_realms           == <<Do("origins", "go", {"go"}), Do("defaults", "go", {}), Do("options", "go", {"go"})>>
pgsql_get_admin_user          == Reading("find")
pgsql_set_admin_user          == InsertElseUpdate("stop")
pgsql_del_admin_user          == <<Do("delete", "ok", {"ok", "go"})>>
pgsql_list_admin_users        == Reading("scan")

pgsql_driver(c) == [
  get_auth_secrets |-> pgsql_get_auth_secrets, get_user_key |-> pgsql_get_user_key,
  get_oauth_key |-> pgsql_get_oauth_key, list_oauth_keys |-> pgsql_list_oauth_keys,
  set_user_key |-> pgsql_set_user_key, set_oauth_key |-> pgsql_set_oauth_key,
  del_user |-> pgsql_del_user, del_oauth_key |-> pgsql_del_oauth_key,
  list_users |-> pgsql_list_users, list_secrets |-> pgsql_list_secrets,
  del_secret |-> pgsql_del_secret(c), set_secret |-> pgsql_set_secret,
  set_permission_ip |-> pgsql_set_permission_ip(c), add_origin |-> pgsql_add_origin,
  del_origin |-> pgsql_del_origin, list_origins |-> pgsql_list_origins,
  set_realm_option_one |-> pgsql_set_realm_option_one(c), list_realm_options |-> pgsql_list_realm_options,
  auth_ping |-> pgsql_auth_ping, get_ip_list |-> pgsql_get_ip_list,
  reread_realms |-> pgsql_reread_realms, get_admin_user |-> pgsql_get_admin_user,
  set_admin_user |-> pgsql_set_admin_user, del_admin_user |-> pgsql_del_admin_user,
  list_admin_users |-> pgsql_list_admin_users][c.fn]

-----------------------------------------------------------------------------
(***************************************************************************)
(* SQLite: every statement runs under the reader/writer lock of the        *)
(* process.  The result of sqlite3_step is not looked at: a statement that *)
(* was prepared counts as done.                                            *)
(***************************************************************************)
Shared(op)    == <<Do("rlock", "go", {}), Do(op, "ok", {"go"}), Do("runlock", "go", {})>>
Exclusive(op) == <<Do("wlock", "go", {}), Do(op, "ok", {"ok", "go"}), Do("wunlock", "go", {})>>
sqlite_get_auth_secrets        == Shared("scan")
sqlite_get_user_key            == Shared("find")
sqlite_get_oauth_key           == Shared("find")
sqlite_list_oauth_keys         == Shared("scan")
sqlite_set_user_key            == Exclusive("put")
sqlite_set_oauth_key           == Exclusive("put")
sqlite_del_user                == Exclusive("delete")
sqlite_del_oauth_key           == Exclusive("delete")
sqlite_list_users              == Shared("scan")
sqlite_list_secrets            == Shared("scan")
sqlite_del_secret(c)           == Exclusive(IF c.item = Nothing THEN "deleteRealm" ELSE "delete")
sqlite_set_secret              == Exclusive("put")
sqlite_set_permission_ip(c)    == Exclusive(IF c.val = Nothing THEN "delete" ELSE "put")
sqlite_add_origin              == Exclusive("put")
sqlite_del_origin              == Exclusive("delete")
sqlite_list_origins            == Shared("scan")
sqlite_set_realm_option_one(c) == IF c.val = Nothing THEN <<>> ELSE Exclusive("put")
sqlite_list_realm_options      == Shared("scan")
sqlite_auth_ping               == <<>>
sqlite_get_ip_list             == Shared("scan")
sqlite_reread_realms           == Shared("origins") \o <<Do("defaults", "go", {})>> \o Shared("options")
sqlite_get_admin_user          == Shared("find")
sqlite_set_admin_user          == Exclusive("put")
sqlite_del_admin_user          == Exclusive("delete")
sqlite_list_admin_users        == Shared("scan")

sqlite_driver(c) == [
  get_auth_secrets |-> sqlite_get_auth_secrets, get_user_key |-> sqlite_get_user_key,
  get_oauth_key |-> sqlite_get_oauth_key, list_oauth_keys |-> sqlite_list_oauth_keys,
  set_user_key |-> sqlite_set_user_key, set_oauth_key |-> sqlite_set_oauth_key,
  del_user |-> sqlite_del_user, del_oauth_key |-> sqlite_del_oauth_key,
  list_users |-> sqlite_list_users, list_secrets |-> sqlite_list_secrets,
  del_secret |-> sqlite_del_secret(c), set_secret |-> sqlite_set_secret,
  set_permission_ip |-> sqlite_set_permission_ip(c), add_origin |-> sqlite_add_origin,
  del_origin |-> sqlite_del_origin, list_origins |-> sqlite_list_origins,
  set_realm_option_one |-> sqlite_set_realm_option_one(c), list_realm_options |-> sqlite_list_realm_options,
  auth_ping |-> sqlite_auth_ping, get_ip_list |-> sqlite_get_ip_list,
  reread_realms |-> sqlite_reread_realms, get_admin_user |-> sqlite_get_admin_user,
  set_admin_user |-> sqlite_set_admin_user, del_admin_user |-> sqlite_del_admin_user,
  list_admin_users |-> sqlite_list_admin_users][c.fn]

-----------------------------------------------------------------------------
(***************************************************************************)
(* Redis: the replies of the writing commands are not looked at, and every *)
(* one is followed by "save".                                              *)
(***************************************************************************)
Saved(op) == <<Do(op, "ok", {"ok"}), Do("save", "go", {"go"})>>
redis_get_auth_secrets        == <<Do("scan", "ok", {"ok", "go"})>>
redis_get_user_key            == Reading("find")
redis_get_oauth_key           == Reading("find")
redis_list_oauth_keys         == <<Do("keys", "go", {"go"}), Do("scan", "ok", {"ok"})>>

\* A slip of this function, for the mutation of the model.
redis_set_user_key_anew == <<Do("delete", "go", {"go"})>> \o Saved("put")
redis_set_user_key            == Saved("put")
redis_set_oauth_key           == Saved("put")
redis_del_user                == Saved("delete")
redis_del_oauth_key           == Saved("delete")
redis_list_users              == Regardless("scan")
redis_list_secrets            == <<Do("keys", "go", {"stop", "go"}), Do("scan", "ok", {"ok"})>>
redis_del_secret(c)           == Saved(IF c.item = Nothing THEN "noop" ELSE "delete")
redis_set_secret(c)           == redis_del_secret(c) \o Saved("put")
redis_set_permission_ip(c)    == Saved(IF c.val = Nothing THEN "delete" ELSE "put")
redis_add_origin              == Saved("put")
redis_del_origin              == Saved("delete")
redis_list_origins            == <<Do("keys", "go", {"go"}), Do("scan", "ok", {"ok"})>>
redis_set_realm_option_one(c) == Saved(IF c.val = Nothing THEN "delete" ELSE "put")
redis_list_realm_options      == <<Do("keys", "go", {"go"}), Do("scan", "ok", {"ok"})>>
redis_auth_ping               == <<Do("scan", "go", {"go"})>>
redis_get_ip_list             == <<Do("keys", "go", {"stop", "go"}), Do("scan", "ok", {"ok"})>>
redis_reread_realms           == <<Do("keys", "go", {"go"}), Do("origins", "go", {"go"}), Do("optionsOrDefaults", "go", {"go"})>>
redis_get_admin_user          == Reading("find")
redis_set_admin_user          == Saved("merge")
redis_del_admin_user          == Saved("delete")
redis_list_admin_users        == Regardless("scan")

redis_driver(c) == [
  get_auth_secrets |-> redis_get_auth_secrets, get_user_key |-> redis_get_user_key,
  get_oauth_key |-> redis_get_oauth_key, list_oauth_keys |-> redis_list_oauth_keys,
  set_user_key |-> redis_set_user_key, set_oauth_key |-> redis_set_oauth_key,
  del_user |-> redis_del_user, del_oauth_key |-> redis_del_oauth_key,
  list_users |-> redis_list_users, list_secrets |-> redis_list_secrets,
  del_secret |-> redis_del_secret(c), set_secret |-> redis_set_secret(c),
  set_permission_ip |-> redis_set_permission_ip(c), add_origin |-> redis_add_origin,
  del_origin |-> redis_del_origin, list_origins |-> redis_list_origins,
  set_realm_option_one |-> redis_set_realm_option_one(c), list_realm_options |-> redis_list_realm_options,
  auth_ping |-> redis_auth_ping, get_ip_list |-> redis_get_ip_list,
  reread_realms |-> redis_reread_realms, get_admin_user |-> redis_get_admin_user,
  set_admin_user |-> redis_set_admin_user, del_admin_user |-> redis_del_admin_user,
  list_admin_users |-> redis_list_admin_users][c.fn]

-----------------------------------------------------------------------------
(***************************************************************************)
(* MongoDB: single upserts; origins, peer addresses and options live in    *)
(* the document of their realm.                                            *)
(***************************************************************************)
mongo_get_auth_secrets        == Reading("scan")
mongo_get_user_key            == Reading("find")
mongo_get_oauth_key           == Reading("find")
mongo_list_oauth_keys         == Reading("scan")
mongo_set_user_key            == Once("put")
mongo_set_oauth_key           == Once("put")
mongo_del_user                == Once("delete")
mongo_del_oauth_key           == Once("delete")
mongo_list_users              == Reading("scan")
mongo_list_secrets            == Reading("scan")
mongo_del_secret(c)           == Regardless(IF c.item = Nothing THEN "deleteRealm" ELSE "delete")
mongo_set_secret              == Once("insert")
mongo_set_permission_ip(c)    == Once(IF c.val = Nothing THEN "delete" ELSE "addToDoc")
mongo_add_origin              == Once("addToDoc")
mongo_del_origin              == Once("delete")
mongo_list_origins            == Reading("scan")
mongo_set_realm_option_one(c) == Once("alterDoc")
mongo_list_realm_options      == Reading("scan")
mongo_auth_ping               == <<>>
mongo_get_ip_list             == Reading("scan")
mongo_reread_realms           == <<Do("docs", "go", {"stop"}), Do("docDefaults", "go", {}), Do("docOptions", "go", {}), Do("docOrigins", "go", {})>>
mongo_get_admin_user          == Reading("find")
mongo_set_admin_user          == Once("put")
mongo_del_admin_user          == Once("delete")
mongo_list_admin_users        == Reading("scan")

mongo_driver(c) == [
  get_auth_secrets |-> mongo_get_auth_secrets, get_user_key |-> mongo_get_user_key,
  get_oauth_key |-> mongo_get_oauth_key, list_oauth_keys |-> mongo_list_oauth_keys,
  set_user_key |-> mongo_set_user_key, set_oauth_key |-> mongo_set_oauth_key,
  del_user |-> mongo_del_user, del_oauth_key |-> mongo_del_oauth_key,
  list_users |-> mongo_list_users, list_secrets |-> mongo_list_secrets,
  del_secret |-> mongo_del_secret(c), set_secret |-> mongo_set_secret,
  set_permission_ip |-> mongo_set_permission_ip(c), add_origin |-> mongo_add_origin,
  del_origin |-> mongo_del_origin, list_origins |-> mongo_list_origins,
  set_realm_option_one |-> mongo_set_realm_option_one(c), list_realm_options |-> mongo_list_realm_options,
  auth_ping |-> mongo_auth_ping, get_ip_list |-> mongo_get_ip_list,
  reread_realms |-> mongo_reread_realms, get_admin_user |-> mongo_get_admin_user,
  set_admin_user |-> mongo_set_admin_user, del_admin_user |-> mongo_del_admin_user,
  list_admin_users |-> mongo_list_admin_users][c.fn]

-----------------------------------------------------------------------------
(***************************************************************************)
(* The driver the configured database type selects.                        *)
(***************************************************************************)
get_dbdriver(d, c) ==
  IF d = "mysql" THEN mysql_driver(c)
  ELSE IF d = "pgsql" THEN pgsql_driver(c)
  ELSE IF d = "sqlite" THEN sqlite_driver(c)
  ELSE IF d = "redis" THEN redis_driver(c)
  ELSE mongo_driver(c)

(***************************************************************************)
(* The connection strings of MySQL and Redis, as the sequence of their     *)
(* <<key, value>> items: an unknown key, or an item without "=", makes the *)
(* whole string invalid (Nothing); of repeated fields the last one counts. *)
(***************************************************************************)
CommonFields == [host     |-> {"host", "ip", "addr", "ipaddr", "hostaddr"},
                 dbname   |-> {"dbname", "db", "database"},
                 user     |-> {"user", "uname", "name", "username"},
                 password |-> {"password", "pwd", "passwd", "secret"},
                 port     |-> {"port", "p"},
                 timeout  |-> {"connect_timeout", "timeout"}]
MySqlFields  == [readto   |-> {"read_timeout"},
                 key      |-> {"key", "ssl-key"},
                 ca       |-> {"ca", "ssl-ca"},
                 capath   |-> {"capath", "ssl-capath"},
                 cert     |-> {"cert", "ssl-cert"},
                 cipher   |-> {"cipher", "ssl-cipher"}]

Parsed(items, fields, defaults) ==
  LET At(f) == {i \in DOMAIN items : items[i][1] \in fields[f]} IN
  IF DOMAIN items # UNION {At(f) : f \in DOMAIN fields} THEN Nothing
  ELSE [f \in DOMAIN fields |->
          IF At(f) # {} THEN items[CHOOSE i \in At(f) : \A j \in At(f) : j <= i][2]
          ELSE IF f \in DOMAIN defaults THEN defaults[f] ELSE Nothing]

MyconninfoParse(items) ==
  Parsed(items, [f \in DOMAIN CommonFields \cup DOMAIN MySqlFields |->
                   IF f \in DOMAIN CommonFields THEN CommonFields[f] ELSE MySqlFields[f]],
         [dbname |-> "0", host |-> "127.0.0.1", user |-> "", password |-> ""])
RyconninfoParse(items) == Parsed(items, CommonFields, [dbname |-> "0", host |-> "127.0.0.1"])

(***************************************************************************)
(* A thread's connection is "none", "up", "lost" (the server is gone and   *)
(* nobody has noticed) or "broken" (a statement has failed on it).  Each   *)
(* operator gives the states the connection may be in when the driver's    *)
(* function has it; "none" means there is no connection and the driver     *)
(* function gives up.  MySQL pings first; PostgreSQL and Redis look at the *)
(* state the last command left; SQLite and MongoDB keep what they have.    *)
(***************************************************************************)
Reopened == {"up", "none"}
get_mydb_connection(conn, items) ==
  IF conn = "up" THEN {"up"} ELSE IF MyconninfoParse(items) = Nothing THEN {"none"} ELSE Reopened
get_pqdb_connection(conn) == IF conn \in {"up", "lost"} THEN {conn} ELSE Reopened
get_sqlite_connection(conn) == IF conn = "up" THEN {"up"} ELSE Reopened
get_redis_connection(conn, items) ==
  IF conn \in {"up", "lost"} THEN {conn} ELSE IF RyconninfoParse(items) = Nothing THEN {"none"} ELSE Reopened
get_mongodb_connection(conn) == IF conn = "none" THEN Reopened ELSE {"up"}

Connection(d, conn, items) ==
  IF d = "mysql" THEN get_mydb_connection(conn, items)
  ELSE IF d = "pgsql" THEN get_pqdb_connection(conn)
  ELSE IF d = "sqlite" THEN get_sqlite_connection(conn)
  ELSE IF d = "redis" THEN get_redis_connection(conn, items)
  ELSE get_mongodb_connection(conn)

(***************************************************************************)
(* The functions that return 0 although they had no connection.            *)
(***************************************************************************)
BlindSuccess == {<<"mongo", "get_ip_list">>, <<"redis", "list_oauth_keys">>, <<"redis", "list_admin_users">>}

=============================================================================
