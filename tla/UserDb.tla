------------------------------- MODULE UserDb -------------------------------
(***************************************************************************)
(* The user database at work.  Threads of the server (the authentication   *)
(* threads, the admin thread) and turnadmin call the functions of one      *)
(* database driver; a call is the statements of DbDrivers one after the    *)
(* other, and the statements of two calls interleave.  A statement may     *)
(* fail, a connection may not be had.  SQLite's calls take the driver's    *)
(* own reader/writer lock.  reread_realms copies origins and realm options *)
(* into the server's memory.                                               *)
(***************************************************************************)
EXTENDS DbDrivers, FiniteSets

CONSTANTS DbThread,    \* the threads that call the driver
          Rereader,    \* authentication thread 0, which rereads the realms
          DbType,      \* the database types to consider
          DbCall,      \* the calls: [fn, tbl, realm, item, val]
          ConnInfo,    \* the connection strings, as sequences of items
          FirstDb,     \* the contents the database may have at the start
          FirstMem,    \* the options the server may have in memory
          Realms,      \* the realms
          KnownRealm,  \* the realms the server knows at the start
          MaxCalls,    \* bound: calls made
          MaxDbFault   \* bound: connections lost or refused, statements that fail

(***************************************************************************)
(* The callers name a function of turn_dbdriver_t; the ones that delete    *)
(* are given no value.                                                     *)
(***************************************************************************)
DbDeletion == {"del_user", "del_oauth_key", "del_secret", "del_origin", "del_admin_user"}
DbFunction == DbDeletion \cup
  {"get_auth_secrets", "get_user_key", "get_oauth_key", "list_oauth_keys", "set_user_key",
   "set_oauth_key", "list_users", "list_secrets", "set_secret", "set_permission_ip", "add_origin",
   "list_origins", "set_realm_option_one", "list_realm_options", "auth_ping", "get_ip_list",
   "reread_realms", "get_admin_user", "set_admin_user", "list_admin_users"}
ASSUME UserDbAssumption ==
  /\ IsFiniteSet(DbThread) /\ Nothing \notin DbThread
  /\ \A c \in DbCall : /\ c.fn \in DbFunction
                       /\ c.fn \in DbDeletion => c.val = Nothing

VARIABLES dbtype,   \* turn_params.default_users_db.userdb_type
          db,       \* row -> the set of its values; {} when it is absent
          dbconn,   \* thread -> its connection; the string it is made from
          dbcall,   \* thread -> the call it makes
          dbmem,    \* the realms, origins and options the server knows
          rwlock,   \* read_threads, write_level and write_thread
          dbleft    \* calls and faults still to come

DbVars == <<dbtype, db, dbconn, dbcall, dbmem, rwlock, dbleft>>

Row(c)     == <<c.tbl, c.realm, c.item>>
DbRow      == {Row(c) : c \in DbCall}
RowsOf(tb) == {r \in DbRow : r[1] = tb}
Doc(realm) == <<"doc", realm, Nothing>>       \* MongoDB: the realm's document
OptionRows == RowsOf("option")
Origins    == RowsOf("origin")

Concerns(c) == \* the rows call c reads or writes
  IF c.fn = "reread_realms" THEN OptionRows \cup Origins
  ELSE {r \in RowsOf(c.tbl) : r[2] = c.realm /\ (c.item = Nothing \/ r[3] = c.item)}
         \cup (IF c.tbl = "option" THEN {Doc(c.realm)} ELSE {})

NoCall == [st |-> "idle"]
Active(t) == dbcall[t].st \in {"run", "wait"}

(***************************************************************************)
(* The rows a statement of call c writes, and the database after it.       *)
(***************************************************************************)
RealmOf(c) == IF c.tbl = "origin" THEN c.val ELSE c.realm
Merged(old, v) == \* hmset without a realm keeps the realm that is stored
  {IF v[1] = Nothing /\ old # {} THEN <<(CHOOSE o \in old : TRUE)[1], v[2]>> ELSE v}

After(op, c) ==
  LET r == Row(c) IN
  CASE op = "insert"      -> [db EXCEPT ![r] = {c.val}]
    [] op = "put"         -> [db EXCEPT ![r] = {c.val}]
    [] op = "merge"       -> [db EXCEPT ![r] = Merged(@, c.val)]
    [] op = "update"      -> [db EXCEPT ![r] = IF @ = {} THEN {} ELSE {c.val}]
    [] op = "delete"      -> [db EXCEPT ![r] = {}]
    [] op = "deleteRealm" -> [x \in DOMAIN db |-> IF x[1] = c.tbl /\ x[2] = c.realm THEN {} ELSE db[x]]
    [] op = "addToDoc"    -> [db EXCEPT ![r] = @ \cup {c.val}, ![Doc(RealmOf(c))] = {"doc"}]
    [] op = "alterDoc"    -> IF db[Doc(c.realm)] = {} THEN db
                             ELSE [db EXCEPT ![r] = IF c.val = Nothing THEN {} ELSE {c.val}]
    [] OTHER              -> db

(***************************************************************************)
(* A statement is refused by the data: the row to insert exists, the row   *)
(* to find does not.                                                       *)
(***************************************************************************)
Refused(op, c) ==
  \/ op = "insert" /\ db[Row(c)] # {}
  \/ op = "find" /\ db[Row(c)] = {}
  \/ op = "any" /\ \A r \in RowsOf(c.tbl) : db[r] = {}

(***************************************************************************)
(* reread_realms: origins replace the map, get_realm adds the realms that  *)
(* are met, options are the stored ones or the defaults (Nothing).  Where  *)
(* MongoDB lists an origin in two realms, either may come last.            *)
(***************************************************************************)
Stored(from, r) == IF from[r] = {} THEN Nothing ELSE CHOOSE v \in from[r] : TRUE
RealmsIn(from)  == UNION {from[r] : r \in Origins}

update_o_to_realm(from) ==
  \E f \in [Origins -> Realms \cup {Nothing}] :
    /\ \A r \in Origins : IF from[r] = {} THEN f[r] = Nothing ELSE f[r] \in from[r]
    /\ dbmem' = [dbmem EXCEPT !.origin = f, !.realms = @ \cup RealmsIn(from)]

OptionsReset(realms) ==
  dbmem' = [dbmem EXCEPT !.option = [r \in OptionRows |-> IF r[2] \in realms THEN Nothing ELSE @[r]],
                         !.realms = @ \cup realms]

realm_option_apply(from) ==
  dbmem' = [dbmem EXCEPT !.option = [r \in OptionRows |-> IF from[r] = {} THEN @[r] ELSE Stored(from, r)],
                         !.realms = @ \cup {r[2] : r \in {o \in OptionRows : from[o] # {}}}]

set_redis_realm_opt ==
  dbmem' = [dbmem EXCEPT !.option =
              [r \in OptionRows |-> IF r[2] \in dbmem.realms THEN Stored(db, r) ELSE @[r]]]

MemStep(op, snap) ==
  CASE op = "origins"           -> update_o_to_realm(db)
    [] op = "docOrigins"        -> update_o_to_realm(snap)
    [] op = "defaults"          -> OptionsReset(dbmem.realms)
    [] op = "docDefaults"       -> OptionsReset({x \in Realms : snap[Doc(x)] # {}})
    [] op = "options"           -> realm_option_apply(db)
    [] op = "docOptions"        -> realm_option_apply(snap)
    [] op = "optionsOrDefaults" -> set_redis_realm_opt
    [] OTHER                    -> dbmem' = dbmem

-----------------------------------------------------------------------------
(***************************************************************************)
(* A thread calls the driver: get_dbdriver gives none once SQLite could    *)
(* not be opened; the call begins by getting its connection.               *)
(***************************************************************************)
Begun(c) == [st |-> "run", c |-> c, prog |-> get_dbdriver(dbtype, c), ret |-> FALSE,
             failed |-> FALSE, touched |-> FALSE, snap |-> Nothing]
Returned(call) == [st |-> "done", c |-> call.c, ret |-> call.ret, failed |-> call.failed,
                   touched |-> call.touched]

CallDriver(t) ==
  /\ dbcall[t].st = "idle" /\ dbleft.calls > 0 /\ dbtype # "unknown"
  /\ \E c \in {k \in DbCall : k.fn = "reread_realms" => t = Rereader},
       conn \in Connection(dbtype, dbconn.of[t], dbconn.info) :
       /\ dbconn' = [dbconn EXCEPT !.of[t] = conn]
       /\ IF conn # "none"
          THEN /\ dbcall' = [dbcall EXCEPT ![t] = Begun(c)]
               /\ dbleft' = [dbleft EXCEPT !.calls = @ - 1]
               /\ UNCHANGED dbtype
          ELSE /\ dbleft.faults > 0
               /\ dbcall' = [dbcall EXCEPT ![t] =
                    Returned([Begun(c) EXCEPT !.failed = TRUE, !.ret = <<dbtype, c.fn>> \in BlindSuccess])]
               /\ dbleft' = [dbleft EXCEPT !.calls = @ - 1, !.faults = @ - 1]
               /\ dbtype' = IF dbtype = "sqlite" THEN "unknown" ELSE dbtype
  /\ UNCHANGED <<db, dbmem, rwlock>>

(***************************************************************************)
(* The database server goes away under a connection.  The MongoDB client   *)
(* library reconnects by itself and SQLite has no server.                  *)
(***************************************************************************)
ConnectionLost(t) ==
  /\ dbconn.of[t] = "up" /\ dbleft.faults > 0 /\ dbtype \in {"mysql", "pgsql", "redis"}
  /\ dbconn' = [dbconn EXCEPT !.of[t] = "lost"]
  /\ dbleft' = [dbleft EXCEPT !.faults = @ - 1]
  /\ UNCHANGED <<dbtype, db, dbcall, dbmem, rwlock>>

(***************************************************************************)
(* The call goes on after a statement with the given outcome.              *)
(***************************************************************************)
Advance(call, outcome) ==
  LET ret  == call.ret \/ outcome \in {"ok", "okstop"}
      rest == IF outcome \in {"stop", "okstop"} THEN <<>> ELSE Tail(call.prog)
  IN [call EXCEPT !.ret = ret, !.prog = rest]

LockOps == {"rlock", "wlock", "runlock", "wunlock"}

(***************************************************************************)
(* One statement of the call of thread t runs.  The other calls remember   *)
(* that their row was written by somebody else.                            *)
(***************************************************************************)
Statement(t) ==
  /\ dbcall[t].st = "run" /\ dbcall[t].prog # <<>>
  /\ LET call == dbcall[t]
         s    == Head(call.prog)
         Next1(call1, newdb) ==
           dbcall' = [u \in DbThread |->
             IF u = t THEN call1
             ELSE IF dbcall[u].st # "idle" /\ \E r \in Concerns(dbcall[u].c) : newdb[r] # db[r]
                  THEN [dbcall[u] EXCEPT !.touched = TRUE] ELSE dbcall[u]]
     IN
     /\ s.op \notin LockOps
     /\ \/ /\ dbconn.of[t] = "up" /\ ~Refused(s.op, call.c)
           /\ db' = After(s.op, call.c)
           /\ MemStep(s.op, call.snap)
           /\ Next1([Advance(call, s.good) EXCEPT !.snap = IF s.op = "docs" THEN db ELSE @], db')
           /\ UNCHANGED <<dbconn, dbleft>>
        \/ /\ dbconn.of[t] = "up" /\ Refused(s.op, call.c)
           /\ \E o \in s.bad : Next1(Advance(call, o), db)
           /\ UNCHANGED <<db, dbconn, dbmem, dbleft>>
        \/ /\ dbconn.of[t] # "up"
           /\ \E o \in s.bad \cup (IF s.bad = {} THEN {s.good} ELSE {}) :
                Next1([Advance(call, o) EXCEPT !.failed = TRUE], db)
           /\ MemStep(IF s.bad = {} THEN s.op ELSE "noop", call.snap)
           /\ dbconn' = [dbconn EXCEPT !.of[t] = "broken"]
           /\ UNCHANGED <<db, dbleft>>
        \/ /\ dbconn.of[t] = "up" /\ dbleft.faults > 0   \* the statement alone fails
           /\ \E o \in s.bad : Next1([Advance(call, o) EXCEPT !.failed = TRUE], db)
           /\ dbleft' = [dbleft EXCEPT !.faults = @ - 1]
           /\ UNCHANGED <<db, dbconn, dbmem>>
  /\ UNCHANGED <<dbtype, rwlock>>

(***************************************************************************)
(* sqlite_lock: go in when allowed, else wait for the next broadcast.      *)
(***************************************************************************)
MayEnter(t, write) ==
  IF write THEN (rwlock.writer = Nothing /\ rwlock.readers < 1) \/ rwlock.writer = t
  ELSE rwlock.writer = Nothing \/ rwlock.writer = t

sqlite_lock(t) ==
  /\ dbcall[t].st = "run" /\ dbcall[t].prog # <<>>
  /\ Head(dbcall[t].prog).op \in {"rlock", "wlock"}
  /\ LET write == Head(dbcall[t].prog).op = "wlock" IN
     IF MayEnter(t, write)
     THEN /\ rwlock' = IF write THEN [rwlock EXCEPT !.level = @ + 1, !.writer = t]
                       ELSE [rwlock EXCEPT !.readers = @ + 1]
          /\ dbcall' = [dbcall EXCEPT ![t] = Advance(@, "go")]
     ELSE /\ dbcall' = [dbcall EXCEPT ![t].st = "wait"]
          /\ UNCHANGED rwlock
  /\ UNCHANGED <<dbtype, db, dbconn, dbmem, dbleft>>

Broadcast(calls) == [u \in DbThread |-> IF calls[u].st = "wait" THEN [calls[u] EXCEPT !.st = "run"] ELSE calls[u]]

\* A slip of sqlite_unlock, for the mutation of the model: the last reader
\* leaves without waking the writer.
sqlite_unlock_silent(t) ==
  /\ dbcall[t].st = "run" /\ dbcall[t].prog # <<>>
  /\ Head(dbcall[t].prog).op \in {"runlock", "wunlock"}
  /\ LET write == Head(dbcall[t].prog).op = "wunlock"
         out   == [dbcall EXCEPT ![t] = Advance(@, "go")]
     IN IF write
        THEN /\ rwlock' = [rwlock EXCEPT !.level = @ - 1, !.writer = IF rwlock.level = 1 THEN Nothing ELSE @]
             /\ dbcall' = IF rwlock.level = 1 THEN Broadcast(out) ELSE out
        ELSE /\ rwlock' = [rwlock EXCEPT !.readers = @ - 1]
             /\ dbcall' = out
  /\ UNCHANGED <<dbtype, db, dbconn, dbmem, dbleft>>

sqlite_unlock(t) ==
  /\ dbcall[t].st = "run" /\ dbcall[t].prog # <<>>
  /\ Head(dbcall[t].prog).op \in {"runlock", "wunlock"}
  /\ LET write == Head(dbcall[t].prog).op = "wunlock"
         out   == [dbcall EXCEPT ![t] = Advance(@, "go")]
     IN IF write
        THEN /\ rwlock' = [rwlock EXCEPT !.level = @ - 1, !.writer = IF rwlock.level = 1 THEN Nothing ELSE @]
             /\ dbcall' = IF rwlock.level = 1 THEN Broadcast(out) ELSE out
        ELSE /\ rwlock' = [rwlock EXCEPT !.readers = @ - 1]
             /\ dbcall' = IF rwlock.readers = 1 THEN Broadcast(out) ELSE out
  /\ UNCHANGED <<dbtype, db, dbconn, dbmem, dbleft>>

(***************************************************************************)
(* The call returns; its caller goes on.                                   *)
(***************************************************************************)
CallReturns(t) ==
  /\ dbcall[t].st = "run" /\ dbcall[t].prog = <<>>
  /\ dbcall' = [dbcall EXCEPT ![t] = Returned(@)]
  /\ UNCHANGED <<dbtype, db, dbconn, dbmem, rwlock, dbleft>>

CallerGoesOn(t) ==
  /\ dbcall[t].st = "done"
  /\ dbcall' = [dbcall EXCEPT ![t] = NoCall]
  /\ UNCHANGED <<dbtype, db, dbconn, dbmem, rwlock, dbleft>>

-----------------------------------------------------------------------------
NeedsDoc(d, x) == \* realm x has something that MongoDB keeps in its document
  \E r \in DbRow : /\ d[r] # {}
                    /\ \/ r[1] \in {"option", "allowed", "denied"} /\ r[2] = x
                       \/ r[1] = "origin" /\ x \in d[r]

UserDbInit ==
  /\ dbtype \in DbType
  /\ \E d \in FirstDb, docs \in SUBSET Realms, o \in FirstMem :
       /\ IF dbtype = "mongo" THEN \A x \in Realms : NeedsDoc(d, x) => x \in docs ELSE docs = {}
       /\ db = [r \in DbRow \cup {Doc(x) : x \in Realms} |->
                  IF r[1] # "doc" THEN d[r] ELSE IF r[2] \in docs THEN {"doc"} ELSE {}]
       /\ dbmem = [realms |-> KnownRealm, origin |-> [r \in Origins |-> Nothing],
                   option |-> [r \in OptionRows |->
                     IF r[2] \in KnownRealm /\ (dbtype = "mongo" => r[2] \in docs) THEN o ELSE Nothing]]
  /\ \E i \in ConnInfo : dbconn = [of |-> [t \in DbThread |-> "none"], info |-> i]
  /\ dbcall = [t \in DbThread |-> NoCall]
  /\ rwlock = [readers |-> 0, level |-> 0, writer |-> Nothing]
  /\ dbleft = [calls |-> MaxCalls, faults |-> MaxDbFault]

DbStep(t) == Statement(t) \/ sqlite_lock(t) \/ sqlite_unlock(t) \/ CallReturns(t)

UserDbNext == \E t \in DbThread : CallDriver(t) \/ ConnectionLost(t) \/ DbStep(t) \/ CallerGoesOn(t)

UserDbSpec == UserDbInit /\ [][UserDbNext]_DbVars

-----------------------------------------------------------------------------
Removes(c) == c.val = Nothing

(***************************************************************************)
(* A call that returned 0, had no statement fail for a reason other than   *)
(* the data, and whose row nobody else wrote meanwhile, has done what it   *)
(* was asked: the row holds the value, or is gone.  Two cases the drivers  *)
(* do not cover are left out: MongoDB changes no option of a realm without *)
(* a document, and Redis removes no secret when none is named.             *)
(***************************************************************************)
ReturnedIsDone ==
  \A t \in DbThread :
    LET k == dbcall[t] IN
    (/\ k.st = "done" /\ k.ret /\ ~k.failed /\ ~k.touched
     /\ k.c.fn \in {"set_user_key", "set_oauth_key", "set_admin_user", "set_secret", "set_permission_ip",
                    "add_origin", "set_realm_option_one", "del_user", "del_oauth_key", "del_admin_user",
                    "del_secret", "del_origin"}
     /\ ~(dbtype = "mongo" /\ k.c.tbl = "option" /\ db[Doc(k.c.realm)] = {})
     /\ ~(dbtype = "redis" /\ k.c.fn = "del_secret" /\ k.c.item = Nothing))
    => IF Removes(k.c)
       THEN \A r \in Concerns(k.c) \cap DbRow : db[r] = {}
       ELSE IF k.c.tbl = "admin" THEN \E v \in db[Row(k.c)] : v[2] = k.c.val[2]
       ELSE k.c.val \in db[Row(k.c)]

(***************************************************************************)
(* A row that is set again is there throughout: it disappears only in a    *)
(* call that removes it, so the authentication threads do not miss a user, *)
(* an OAuth key or an administrator that is being updated.  Two functions  *)
(* are written otherwise and are left out: Redis' set_secret removes the   *)
(* secret before it adds it, and the SQL drivers' set_realm_option_one     *)
(* deletes the option before inserting it.                                 *)
(***************************************************************************)
Rewrites(c) == \/ dbtype = "redis" /\ c.fn = "set_secret"
               \/ dbtype \in {"mysql", "pgsql"} /\ c.fn = "set_realm_option_one"

RowKept ==
  \A r \in DbRow :
    db[r] # {} /\ db'[r] = {} =>
      \E t \in DbThread : /\ Active(t) /\ dbcall'[t] # dbcall[t]
                          /\ Removes(dbcall[t].c) \/ Rewrites(dbcall[t].c)
RowsKept == [][RowKept]_DbVars

(***************************************************************************)
(* Rereading is exact: when reread_realms returns, no statement of it      *)
(* failed and nobody wrote meanwhile, the options in memory of every realm *)
(* the server knows are the stored ones or the defaults - an option        *)
(* removed from the database does not survive - and so are the origins.    *)
(***************************************************************************)
RereadExact ==
  \A t \in DbThread :
    LET k == dbcall[t] IN
    (k.st = "done" /\ k.c.fn = "reread_realms" /\ ~k.failed /\ ~k.touched)
    => /\ \A r \in OptionRows : r[2] \in dbmem.realms => dbmem.option[r] = Stored(db, r)
       /\ \A r \in Origins : IF db[r] = {} THEN dbmem.origin[r] = Nothing ELSE dbmem.origin[r] \in db[r]

(***************************************************************************)
(* Both: what a call of a driver that returned says is so.                 *)
(***************************************************************************)
CallsDoWhatTheySay == ReturnedIsDone /\ RereadExact

(***************************************************************************)
(* No lost wake-up: a thread waits for SQLite's lock only while another    *)
(* one that runs has it and will give it back, so calls of the driver      *)
(* never wait for each other for ever.                                     *)
(***************************************************************************)
InSection(u) ==
  /\ dbcall[u].st = "run"
  /\ \E i \in DOMAIN dbcall[u].prog :
       /\ dbcall[u].prog[i].op \in {"runlock", "wunlock"}
       /\ \A j \in 1..i - 1 : dbcall[u].prog[j].op \notin LockOps
WaitersAreWoken ==
  \A t \in DbThread : dbcall[t].st = "wait" => \E u \in DbThread : u # t /\ InSection(u)

=============================================================================
