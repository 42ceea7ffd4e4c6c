---------------------------- MODULE UserDbProofs ----------------------------
(***************************************************************************)
(* Proofs about the calls of several threads, for any number of threads    *)
(* and any calls: SQLite's lock, and the rows that are kept.               *)
(***************************************************************************)
EXTENDS DbDriversProofs, FiniteSetTheorems

(* A leaf that names no prover goes to the SMT solver, for up to 30 seconds. *)
USE SMTT(30)

-----------------------------------------------------------------------------
(* The invariant *)

LockRec(readers, level, writer) == [readers |-> readers, level |-> level, writer |-> writer]
Readers(D) == {t \in DbThread : D[t].st = "run" /\ InRead(D[t].prog)}
Writers(D) == {t \in DbThread : D[t].st = "run" /\ InWrite(D[t].prog)}
LockGood(D, w) ==
  /\ w = LockRec(w.readers, w.level, w.writer)
  /\ w.readers = Cardinality(Readers(D))
  /\ Writers(D) = IF w.writer = Nothing THEN {} ELSE {w.writer}
  /\ w.level = IF w.writer = Nothing THEN 0 ELSE 1
  /\ w.writer # Nothing => w.readers = 0
  /\ \A t \in DbThread : D[t].st = "wait" => w.readers > 0 \/ w.writer # Nothing
DbInv ==
  /\ DOMAIN db = DbRows /\ db = [r \in DOMAIN db |-> db[r]]
  /\ dbcall = [t \in DbThread |-> dbcall[t]]
  /\ \A t \in DbThread : CallGood(dbtype, dbcall[t])
  /\ LockGood(dbcall, rwlock)
-----------------------------------------------------------------------------
(* SQLite's lock *)

IsReader(k) == k.st = "run" /\ InRead(k.prog)
IsWriter(k) == k.st = "run" /\ InWrite(k.prog)

LEMMA Sections ==
  ASSUME NEW D
  PROVE  /\ Readers(D) = {t \in DbThread : IsReader(D[t])}
         /\ Writers(D) = {t \in DbThread : IsWriter(D[t])}
         /\ IsFiniteSet(Readers(D)) /\ Cardinality(Readers(D)) \in Nat
         /\ Cardinality(Readers(D)) = 0 <=> Readers(D) = {}
  <1>1. /\ Readers(D) = {t \in DbThread : IsReader(D[t])}
        /\ Writers(D) = {t \in DbThread : IsWriter(D[t])}
    BY DEF Readers, Writers, IsReader, IsWriter
  <1>2. Readers(D) \subseteq DbThread
    BY <1>1
  <1>3. IsFiniteSet(Readers(D))
    BY <1>2, UserDbAssumption, FS_Subset
  <1> QED
    BY <1>1, <1>3, FS_CardinalityType, FS_EmptySet

(* A step that leaves every section as it was.                             *)
LEMMA LockStays ==
  ASSUME NEW D, NEW E, NEW w, LockGood(D, w),
         \A u \in DbThread : /\ IsReader(E[u]) <=> IsReader(D[u])
                             /\ IsWriter(E[u]) <=> IsWriter(D[u])
                             /\ E[u].st = "wait" =>
                                  D[u].st = "wait" \/ w.readers > 0 \/ w.writer # Nothing
  PROVE  LockGood(E, w)
  <1>1. Readers(E) = Readers(D) /\ Writers(E) = Writers(D)
    BY ZenonT(30), Sections
  <1>2. \A u \in DbThread : E[u].st = "wait" => w.readers > 0 \/ w.writer # Nothing
    BY DEF LockGood
  <1> QED
    BY <1>1, <1>2 DEF LockGood

(* What LockGood says of one thread.                                       *)
LEMMA LockFacts ==
  ASSUME NEW D, NEW w, LockGood(D, w)
  PROVE  /\ w = LockRec(w.readers, w.level, w.writer) /\ w.readers \in Nat
         /\ w.readers = Cardinality(Readers(D))
         /\ \A t \in DbThread : IsWriter(D[t]) <=> w.writer = t
         /\ w.writer # Nothing => w.writer \in DbThread /\ w.readers = 0 /\ w.level = 1
         /\ w.writer = Nothing => w.level = 0
         /\ w.readers = 0 <=> \A t \in DbThread : ~IsReader(D[t])
  <1>1. w = LockRec(w.readers, w.level, w.writer) /\ w.readers = Cardinality(Readers(D))
    BY DEF LockGood
  <1>2. w.readers \in Nat /\ (w.readers = 0 <=> Readers(D) = {})
    BY <1>1, Sections
  <1>3. w.readers = 0 <=> \A t \in DbThread : ~IsReader(D[t])
    BY <1>2, Sections
  <1>4. Writers(D) = IF w.writer = Nothing THEN {} ELSE {w.writer}
    BY DEF LockGood
  <1>5. \A t \in DbThread : IsWriter(D[t]) <=> w.writer = t
    BY <1>4, Sections, UserDbAssumption
  <1>6. w.writer # Nothing => w.writer \in DbThread
    <2>1. Writers(D) \subseteq DbThread
      BY DEF Writers
    <2> QED
      BY <1>4, <2>1
  <1>7. /\ w.writer # Nothing => w.readers = 0 /\ w.level = 1
        /\ w.writer = Nothing => w.level = 0
    BY DEF LockGood
  <1> QED
    BY <1>1, <1>2, <1>3, <1>5, <1>6, <1>7

LEMMA ReaderEnters ==
  ASSUME NEW D, NEW E, NEW w, LockGood(D, w), w.writer = Nothing, NEW t \in DbThread,
         ~IsReader(D[t]), ~IsWriter(D[t]), IsReader(E[t]), ~IsWriter(E[t]),
         \A u \in DbThread \ {t} : E[u] = D[u],
         NEW v, v = LockRec(w.readers + 1, w.level, w.writer)
  PROVE  LockGood(E, v)
  <1>1. Readers(E) = Readers(D) \cup {t} /\ t \notin Readers(D) /\ Writers(E) = Writers(D)
    <2>1. /\ Readers(D) = {u \in DbThread : IsReader(D[u])}
          /\ Readers(E) = {u \in DbThread : IsReader(E[u])}
          /\ Writers(D) = {u \in DbThread : IsWriter(D[u])}
          /\ Writers(E) = {u \in DbThread : IsWriter(E[u])}
      BY Sections
    <2>2. Readers(E) = Readers(D) \cup {t} /\ t \notin Readers(D)
      BY <2>1
    <2>3. Writers(E) = Writers(D)
      BY <2>1
    <2> QED
      BY <2>2, <2>3
  <1>2. Cardinality(Readers(E)) = Cardinality(Readers(D)) + 1
    BY ZenonT(30), <1>1, Sections, FS_AddElement
  <1>3. v.readers = w.readers + 1 /\ v.level = w.level /\ v.writer = w.writer
    BY DEF LockRec
  <1>4. v = LockRec(v.readers, v.level, v.writer)
    BY <1>3
  <1>5. w.readers \in Nat /\ w.readers = Cardinality(Readers(D))
    BY LockFacts
  <1>6. v.readers = Cardinality(Readers(E)) /\ v.readers > 0
    BY <1>2, <1>3, <1>5
  <1>7. /\ Writers(E) = IF v.writer = Nothing THEN {} ELSE {v.writer}
        /\ v.level = IF v.writer = Nothing THEN 0 ELSE 1
    BY <1>1, <1>3 DEF LockGood
  <1> QED
    BY <1>3, <1>4, <1>6, <1>7 DEF LockGood

LEMMA WriterEnters ==
  ASSUME NEW D, NEW E, NEW w, LockGood(D, w), w.writer = Nothing, w.readers < 1,
         NEW t \in DbThread, ~IsReader(D[t]), ~IsWriter(D[t]), ~IsReader(E[t]), IsWriter(E[t]),
         \A u \in DbThread \ {t} : E[u] = D[u],
         NEW v, v = LockRec(w.readers, w.level + 1, t)
  PROVE  LockGood(E, v)
  <1>1. Readers(E) = Readers(D) /\ Writers(E) = Writers(D) \cup {t}
    BY Sections
  <1>2. v.readers = w.readers /\ v.level = w.level + 1 /\ v.writer = t /\ t # Nothing
    BY UserDbAssumption DEF LockRec
  <1>3. v = LockRec(v.readers, v.level, v.writer)
    BY <1>2
  <1>4. w.readers \in Nat /\ w.readers = Cardinality(Readers(D)) /\ w.level = 0
    BY LockFacts
  <1>5. v.readers = Cardinality(Readers(E)) /\ v.readers = 0 /\ v.level = 1
    BY <1>1, <1>2, <1>4
  <1>6. Writers(E) = {v.writer}
    BY <1>1, <1>2 DEF LockGood
  <1> QED
    BY <1>2, <1>3, <1>5, <1>6 DEF LockGood

(* The last one out broadcasts: nobody waits any more.                     *)
LEMMA ReaderLeaves ==
  ASSUME NEW D, NEW E, NEW w, LockGood(D, w), NEW t \in DbThread,
         IsReader(D[t]), ~IsWriter(D[t]), ~IsReader(E[t]), ~IsWriter(E[t]),
         \A u \in DbThread \ {t} : /\ IsReader(E[u]) <=> IsReader(D[u])
                                   /\ IsWriter(E[u]) <=> IsWriter(D[u]),
         w.readers = 1 => \A u \in DbThread : E[u].st # "wait",
         NEW v, v = LockRec(w.readers - 1, w.level, w.writer)
  PROVE  LockGood(E, v)
  <1>1. Readers(E) = Readers(D) \ {t} /\ t \in Readers(D) /\ Writers(E) = Writers(D)
    BY Sections
  <1>2. Cardinality(Readers(E)) = Cardinality(Readers(D)) - 1
    BY ZenonT(30), <1>1, Sections, FS_RemoveElement
  <1>3. v.readers = w.readers - 1 /\ v.level = w.level /\ v.writer = w.writer
    BY DEF LockRec
  <1>4. v = LockRec(v.readers, v.level, v.writer)
    BY <1>3
  <1>5. /\ w.readers \in Nat /\ w.readers = Cardinality(Readers(D)) /\ w.readers # 0
        /\ w.writer = Nothing
    <2>1. w.readers \in Nat /\ w.readers = Cardinality(Readers(D)) /\ w.readers # 0
      BY LockFacts
    <2> QED
      BY <2>1, LockFacts
  <1>6. v.readers = Cardinality(Readers(E)) /\ (w.readers # 1 => v.readers > 0)
    BY <1>2, <1>3, <1>5
  <1>7. /\ Writers(E) = IF v.writer = Nothing THEN {} ELSE {v.writer}
        /\ v.level = IF v.writer = Nothing THEN 0 ELSE 1
    BY <1>1, <1>3 DEF LockGood
  <1> QED
    BY <1>3, <1>4, <1>5, <1>6, <1>7 DEF LockGood

LEMMA WriterLeaves ==
  ASSUME NEW D, NEW E, NEW w, LockGood(D, w), NEW t \in DbThread,
         ~IsReader(D[t]), IsWriter(D[t]), ~IsReader(E[t]), ~IsWriter(E[t]),
         \A u \in DbThread \ {t} : /\ IsReader(E[u]) <=> IsReader(D[u])
                                   /\ IsWriter(E[u]) <=> IsWriter(D[u]),
         \A u \in DbThread : E[u].st # "wait",
         NEW v, v = LockRec(w.readers, w.level - 1, Nothing)
  PROVE  LockGood(E, v)
  <1>1. Readers(E) = Readers(D) /\ Writers(E) = Writers(D) \ {t}
    BY ZenonT(30), Sections
  <1>2. v.readers = w.readers /\ v.level = w.level - 1 /\ v.writer = Nothing
    BY DEF LockRec
  <1>3. v = LockRec(v.readers, v.level, v.writer)
    BY <1>2
  <1>4. w.writer = t /\ t # Nothing
    BY LockFacts, UserDbAssumption
  <1>5. w.readers = Cardinality(Readers(D)) /\ w.level = 1 /\ Writers(D) = {t}
    BY <1>4 DEF LockGood
  <1>6. Writers(E) = {} /\ v.level = 0 /\ v.readers = Cardinality(Readers(E))
    BY <1>1, <1>2, <1>5
  <1> QED
    BY <1>2, <1>3, <1>6 DEF LockGood
LEMMA NotedCalls ==
  ASSUME NEW d, NEW D, NEW w, \A u \in DbThread : CallGood(d, D[u]), LockGood(D, w),
         NEW t \in DbThread, D[t].st = "run",
         NEW n, CallGood(d, n), n.st = "run", KeepsSection(n, D[t]),
         NEW new, NEW old, NEW E, E = Noted(D, t, n, new, old)
  PROVE  (\A u \in DbThread : CallGood(d, E[u])) /\ LockGood(E, w)
  <1>1. E[t] = n
    BY DEF Noted
  <1>2. \A u \in DbThread \ {t} : \/ E[u] = D[u]
                                  \/ D[u].st # "idle" /\ E[u] = [D[u] EXCEPT !.touched = TRUE]
    BY DEF Noted
  <1>3. ASSUME NEW u \in DbThread \ {t}
        PROVE  CallGood(d, E[u]) /\ StandsAs(E[u], D[u])
    <2>1. CASE E[u] = D[u]
      BY <2>1 DEF StandsAs
    <2>2. CASE D[u].st # "idle" /\ E[u] = [D[u] EXCEPT !.touched = TRUE]
      <3>1. CallGood(d, D[u])
        OBVIOUS
      <3> QED
        BY <2>2, <3>1, TouchedCall
    <2> QED
      BY <1>2, <2>1, <2>2
  <1>4. \A u \in DbThread : CallGood(d, E[u])
    BY <1>1, <1>3
  <1>5. ASSUME NEW u \in DbThread
        PROVE  /\ IsReader(E[u]) <=> IsReader(D[u])
               /\ IsWriter(E[u]) <=> IsWriter(D[u])
               /\ E[u].st = "wait" => D[u].st = "wait"
    <2>1. CASE u = t
      BY <1>1, <2>1 DEF KeepsSection, IsReader, IsWriter
    <2>2. CASE u # t
      <3>1. StandsAs(E[u], D[u])
        BY <1>3, <2>2
      <3> QED
        BY <3>1 DEF StandsAs, IsReader, IsWriter
    <2> QED
      BY <2>1, <2>2
  <1>6. LockGood(E, w)
    BY <1>5, LockStays
  <1> QED
    BY <1>4, <1>6
-----------------------------------------------------------------------------
(* The actions *)

LEMMA StatementStep ==
  ASSUME DbInv, NEW t \in DbThread, Statement(t)
  PROVE  DbInv' /\ RowKept
  <1>1. PICK k, p, s : k = dbcall[t] /\ p = k.prog /\ s = p[1]
    OBVIOUS
  <1>2. CallGood(dbtype, k) /\ k.st = "run" /\ p # <<>>
    BY <1>1 DEF DbInv, Statement
  <1>3. CallParts(dbtype, "run", k.c, p)
    BY <1>1, <1>2, RunningCall
  <1>4. p \in Seq(DbStmt) /\ k.c \in DbCall
    BY <1>3 DEF CallParts, WellLocked
  <1>5. Head(p) = s /\ s \in DbStmt /\ 1 \in 1 .. Len(p)
    BY <1>1, <1>2, <1>4, ProgramTail
  <1>6. s.op \notin LockOps /\ dbtype' = dbtype /\ rwlock' = rwlock
    BY ZenonT(30), <1>1, <1>5 DEF Statement
  <1>7. \E o \in {s.good} \cup s.bad : \E n :
          /\ AfterStmt(k, n, o)
          /\ dbcall' = Noted(dbcall, t, n, db', db)
          /\ db' = db \/ db' = After(s.op, k.c)
    <2>1. \/ /\ db' = After(s.op, k.c)
             /\ dbcall' = Noted(dbcall, t, [Advance(k, s.good) EXCEPT !.snap = IF s.op = "docs" THEN db ELSE @],
                                db', db)
          \/ /\ db' = db
             /\ \E o \in s.bad : dbcall' = Noted(dbcall, t, Advance(k, o), db, db)
          \/ /\ db' = db
             /\ \E o \in {s.good} \cup s.bad :
                  dbcall' = Noted(dbcall, t, [Advance(k, o) EXCEPT !.failed = TRUE], db, db)
      <3>1. LET c == dbcall[t]
                h == Head(dbcall[t].prog)
            IN \/ /\ db' = After(h.op, c.c)
                  /\ dbcall' = Noted(dbcall, t, [Advance(c, h.good) EXCEPT !.snap = IF h.op = "docs" THEN db ELSE @],
                                     db', db)
               \/ /\ db' = db
                  /\ \E o \in h.bad : dbcall' = Noted(dbcall, t, Advance(c, o), db, db)
               \/ /\ db' = db
                  /\ \E o \in h.bad \cup (IF h.bad = {} THEN {h.good} ELSE {}) :
                       dbcall' = Noted(dbcall, t, [Advance(c, o) EXCEPT !.failed = TRUE], db, db)
               \/ /\ db' = db
                  /\ \E o \in h.bad : dbcall' = Noted(dbcall, t, [Advance(c, o) EXCEPT !.failed = TRUE], db, db)
        BY ZenonT(30) DEF Statement, Noted
      <3>2. dbcall[t] = k /\ Head(dbcall[t].prog) = s
        BY <1>1, <1>5
      <3>3. \A o \in s.bad \cup (IF s.bad = {} THEN {s.good} ELSE {}) : o \in {s.good} \cup s.bad
        OBVIOUS
      <3> QED
        BY <3>1, <3>2, <3>3
    <2>2. CASE /\ db' = After(s.op, k.c)
               /\ dbcall' = Noted(dbcall, t, [Advance(k, s.good) EXCEPT !.snap = IF s.op = "docs" THEN db ELSE @],
                                  db', db)
      <3>1. PICK a, x : a = Advance(k, s.good) /\ x = (IF s.op = "docs" THEN db ELSE a.snap)
        OBVIOUS
      <3>2. PICK n : n = [a EXCEPT !.snap = x]
        BY ZenonT(30)
      <3>3. AfterStmt(k, n, s.good)
        BY ZenonT(30), <3>1, <3>2 DEF AfterStmt
      <3>4. dbcall' = Noted(dbcall, t, n, db', db)
        BY <2>2, <3>1, <3>2
      <3> QED
        BY <2>2, <3>3, <3>4
    <2>3. CASE db' = db /\ \E o \in s.bad : dbcall' = Noted(dbcall, t, Advance(k, o), db, db)
      BY <2>3 DEF AfterStmt
    <2>4. CASE /\ db' = db
               /\ \E o \in {s.good} \cup s.bad :
                    dbcall' = Noted(dbcall, t, [Advance(k, o) EXCEPT !.failed = TRUE], db, db)
      BY <2>4 DEF AfterStmt
    <2> QED
      BY <2>1, <2>2, <2>3, <2>4
  <1>7a. PICK o \in {s.good} \cup s.bad : \E n :
           /\ AfterStmt(k, n, o)
           /\ dbcall' = Noted(dbcall, t, n, db', db)
           /\ db' = db \/ db' = After(s.op, k.c)
    BY <1>7
  <1>8. PICK n : /\ AfterStmt(k, n, o)
                 /\ dbcall' = Noted(dbcall, t, n, db', db)
                 /\ db' = db \/ db' = After(s.op, k.c)
    BY <1>7a
  <1>9. CallGood(dbtype, n) /\ n.st = "run" /\ n.prog # p /\ KeepsSection(n, k)
    BY ZenonT(30), <1>1, <1>2, <1>6, <1>7a, <1>8, StatementCall
  <1>10. (\A u \in DbThread : CallGood(dbtype, dbcall'[u])) /\ LockGood(dbcall', rwlock)
    <2>1. PICK D2, B2 : D2 = dbcall' /\ B2 = db'
      OBVIOUS
    <2>2. D2 = Noted(dbcall, t, n, B2, db)
      BY <1>8, <2>1
    <2>3. (\A u \in DbThread : CallGood(dbtype, dbcall[u])) /\ LockGood(dbcall, rwlock)
      BY DEF DbInv
    <2>4. (\A u \in DbThread : CallGood(dbtype, D2[u])) /\ LockGood(D2, rwlock)
      BY ZenonT(30), <1>1, <1>2, <1>9, <2>2, <2>3, NotedCalls
    <2> QED
      BY <2>1, <2>4
  <1>11. dbcall' = [u \in DbThread |-> dbcall'[u]] /\ dbcall'[t] = n
    BY <1>8 DEF Noted
  <1>12. /\ DOMAIN db' = DbRows /\ db' = [r \in DOMAIN db' |-> db'[r]]
         /\ \A r \in DbRows : db[r] # {} /\ db'[r] = {} => Empties(s.op, k.c)
    <2>1. DOMAIN db = DbRows /\ db = [r \in DOMAIN db |-> db[r]]
      BY DEF DbInv
    <2>2. CASE db' = db
      BY <2>1, <2>2
    <2>3. CASE db' = After(s.op, k.c)
      <3>1. PICK B : B = After(s.op, k.c)
        OBVIOUS
      <3>2. /\ DOMAIN B = DbRows /\ B = [r \in DOMAIN B |-> B[r]]
            /\ \A r \in DbRows : db[r] # {} /\ B[r] = {} => Empties(s.op, k.c)
        BY <1>4, <2>1, <3>1, RowsAfter
      <3>3. db' = B
        BY <2>3, <3>1
      <3> QED
        BY <3>2, <3>3
    <2> QED
      BY <1>8, <2>2, <2>3
  <1>13. DbInv'
    BY <1>6, <1>10, <1>11, <1>12 DEF DbInv, DbRows
  <1>14. Empties(s.op, k.c) => Removes(k.c) \/ Rewrites(k.c)
    <2>1. CASE s.op \in {"delete", "deleteRealm"}
      <3>1. Deletes(p)
        BY <1>1, <1>5, <2>1 DEF Deletes
      <3>2. MayDelete(dbtype, k.c)
        BY <1>3, <3>1 DEF CallParts
      <3> QED
        BY <3>2 DEF MayDelete, Rewrites
    <2>2. CASE k.c.val = Nothing
      BY <2>2 DEF Removes
    <2> QED
      BY <2>1, <2>2 DEF Empties
  <1>15. RowKept
    <2>1. Active(t) /\ dbcall'[t] # dbcall[t]
      BY <1>1, <1>2, <1>9, <1>11 DEF Active
    <2>2. DbRow \subseteq DbRows
      BY DEF DbRows
    <2> QED
      BY <1>1, <1>12, <1>14, <2>1, <2>2 DEF RowKept
  <1> QED
    BY <1>13, <1>15

LEMMA NoRowGoes ==
  ASSUME db' = db
  PROVE  RowKept
  BY DEF RowKept

(* One thread's call changes and the lock does not.                        *)
CallsGood(d, D, w) ==
  /\ D = [t \in DbThread |-> D[t]]
  /\ \A t \in DbThread : CallGood(d, D[t])
  /\ LockGood(D, w)

LEMMA OneCall ==
  ASSUME NEW d, NEW D, NEW w, CallsGood(d, D, w), NEW t \in DbThread, NEW n, CallGood(d, n),
         IsReader(n) <=> IsReader(D[t]), IsWriter(n) <=> IsWriter(D[t]),
         n.st = "wait" => w.readers > 0 \/ w.writer # Nothing,
         NEW E, E = [D EXCEPT ![t] = n]
  PROVE  CallsGood(d, E, w)
  <1>1. D = [u \in DbThread |-> D[u]] /\ (\A u \in DbThread : CallGood(d, D[u])) /\ LockGood(D, w)
    BY DEF CallsGood
  <1>2. E[t] = n /\ (\A u \in DbThread \ {t} : E[u] = D[u]) /\ E = [u \in DbThread |-> E[u]]
    BY <1>1
  <1>3. \A u \in DbThread : CallGood(d, E[u])
    BY <1>1, <1>2
  <1>4. ASSUME NEW u \in DbThread
        PROVE  /\ IsReader(E[u]) <=> IsReader(D[u])
               /\ IsWriter(E[u]) <=> IsWriter(D[u])
               /\ E[u].st = "wait" => D[u].st = "wait" \/ w.readers > 0 \/ w.writer # Nothing
    <2>1. CASE u = t
      BY <1>2, <2>1
    <2>2. CASE u # t
      BY <1>2, <2>2
    <2> QED
      BY <2>1, <2>2
  <1>5. LockGood(E, w)
    BY <1>1, <1>4, LockStays
  <1> QED
    BY <1>2, <1>3, <1>5 DEF CallsGood

LEMMA OtherType ==
  ASSUME NEW D, NEW w, CallsGood("sqlite", D, w)
  PROVE  CallsGood("unknown", D, w)
  <1>1. \A c : MayDelete("sqlite", c) => MayDelete("unknown", c)
    BY DEF MayDelete
  <1>2. \A k : CallGood("sqlite", k) => CallGood("unknown", k)
    BY <1>1 DEF CallGood, CallParts
  <1> QED
    BY <1>2 DEF CallsGood

LEMMA CallDriverStep ==
  ASSUME DbInv, NEW t \in DbThread, CallDriver(t)
  PROVE  DbInv' /\ RowKept
  <1>1. /\ dbcall[t].st = "idle" /\ db' = db /\ rwlock' = rwlock
        /\ CallsGood(dbtype, dbcall, rwlock)
    BY DEF DbInv, CallDriver, CallsGood
  <1>2. ~IsReader(dbcall[t]) /\ ~IsWriter(dbcall[t])
    BY <1>1 DEF IsReader, IsWriter
  <1>3. PICK c \in DbCall :
          \/ dbcall' = [dbcall EXCEPT ![t] = Begun(c)] /\ dbtype' = dbtype
          \/ /\ dbcall' = [dbcall EXCEPT ![t] =
                  Returned([Begun(c) EXCEPT !.failed = TRUE, !.ret = <<dbtype, c.fn>> \in BlindSuccess])]
             /\ dbtype' = IF dbtype = "sqlite" THEN "unknown" ELSE dbtype
    BY ZenonT(30) DEF CallDriver
  <1>4. PICK D2 : D2 = dbcall'
    OBVIOUS
  <1>5. CASE dbcall' = [dbcall EXCEPT ![t] = Begun(c)] /\ dbtype' = dbtype
    <2>1. PICK n, p : n = Begun(c) /\ p = get_dbdriver(dbtype, c)
      OBVIOUS
    <2>2. PICK r, f, m, x : n = CallRec("run", c, p, r, f, m, x)
      BY ZenonT(30), <2>1 DEF Begun, CallRec
    <2>3. DriverGood(dbtype, c, p)
      BY <2>1, AnyDriver
    <2>4. CallParts(dbtype, "run", c, p)
      BY <2>3 DEF DriverGood, CallParts
    <2>5. IsCall(dbtype, n, "run", c, p)
      <3>1. IsCall(dbtype, CallRec("run", c, p, r, f, m, x), "run", c, p)
        BY <2>4, GoodCall
      <3> QED
        BY <2>2, <3>1
    <2>6. CallGood(dbtype, n) /\ n.st = "run" /\ ~IsReader(n) /\ ~IsWriter(n)
      BY <2>3, <2>5 DEF IsCall, DriverGood, IsReader, IsWriter
    <2>7. D2 = [dbcall EXCEPT ![t] = n]
      BY <1>4, <1>5, <2>1
    <2>8. CallsGood(dbtype, D2, rwlock)
      BY ZenonT(30), <1>1, <1>2, <2>6, <2>7, OneCall
    <2> QED
      BY <1>1, <1>4, <1>5, <2>8, NoRowGoes DEF DbInv, CallsGood, DbRows
  <1>6. CASE /\ dbcall' = [dbcall EXCEPT ![t] =
                  Returned([Begun(c) EXCEPT !.failed = TRUE, !.ret = <<dbtype, c.fn>> \in BlindSuccess])]
             /\ dbtype' = IF dbtype = "sqlite" THEN "unknown" ELSE dbtype
    <2>1. PICK n : n = Returned([Begun(c) EXCEPT !.failed = TRUE, !.ret = <<dbtype, c.fn>> \in BlindSuccess])
      OBVIOUS
    <2>2. PICK e, r, f, m : n = DoneRec(e, r, f, m)
      BY ZenonT(30), <2>1 DEF Returned, DoneRec
    <2>3. CallGood(dbtype, n) /\ n.st = "done"
      BY <2>2, GoodDone
    <2>4. ~IsReader(n) /\ ~IsWriter(n) /\ n.st # "wait"
      BY <2>3 DEF IsReader, IsWriter
    <2>5. D2 = [dbcall EXCEPT ![t] = n]
      BY <1>4, <1>6, <2>1
    <2>6. CallsGood(dbtype, D2, rwlock)
      BY ZenonT(30), <1>1, <1>2, <2>3, <2>4, <2>5, OneCall
    <2>7. CallsGood(dbtype', D2, rwlock)
      <3>1. CASE dbtype = "sqlite"
        BY <1>6, <2>6, <3>1, OtherType
      <3>2. CASE dbtype # "sqlite"
        BY <1>6, <2>6, <3>2
      <3> QED
        BY <3>1, <3>2
    <2> QED
      BY <1>1, <1>4, <2>7, NoRowGoes DEF DbInv, CallsGood, DbRows
  <1> QED
    BY <1>3, <1>5, <1>6

LEMMA CallReturnsStep ==
  ASSUME DbInv, NEW t \in DbThread, CallReturns(t)
  PROVE  DbInv' /\ RowKept
  <1>1. /\ dbcall[t].st = "run" /\ dbcall[t].prog = <<>> /\ db' = db /\ rwlock' = rwlock
        /\ dbtype' = dbtype /\ CallsGood(dbtype, dbcall, rwlock)
    BY DEF DbInv, CallReturns, CallsGood
  <1>2. ~IsReader(dbcall[t]) /\ ~IsWriter(dbcall[t])
    BY <1>1 DEF IsReader, IsWriter, InRead, InWrite, Section
  <1>3. PICK n, D2 : n = Returned(dbcall[t]) /\ D2 = dbcall'
    OBVIOUS
  <1>4. PICK e, r, f, m : n = DoneRec(e, r, f, m)
    BY ZenonT(30), <1>3 DEF Returned, DoneRec
  <1>5. CallGood(dbtype, n) /\ n.st = "done"
    BY <1>4, GoodDone
  <1>6. ~IsReader(n) /\ ~IsWriter(n) /\ n.st # "wait"
    BY <1>5 DEF IsReader, IsWriter
  <1>7. D2 = [dbcall EXCEPT ![t] = n]
    BY <1>3 DEF CallReturns
  <1>8. CallsGood(dbtype, D2, rwlock)
    BY ZenonT(30), <1>1, <1>2, <1>5, <1>6, <1>7, OneCall
  <1> QED
    BY <1>1, <1>3, <1>8, NoRowGoes DEF DbInv, CallsGood, DbRows

LEMMA CallerGoesOnStep ==
  ASSUME DbInv, NEW t \in DbThread, CallerGoesOn(t)
  PROVE  DbInv' /\ RowKept
  <1>1. /\ dbcall[t].st = "done" /\ db' = db /\ rwlock' = rwlock
        /\ dbtype' = dbtype /\ CallsGood(dbtype, dbcall, rwlock)
    BY DEF DbInv, CallerGoesOn, CallsGood
  <1>2. ~IsReader(dbcall[t]) /\ ~IsWriter(dbcall[t])
    BY <1>1 DEF IsReader, IsWriter
  <1>3. PICK n, D2 : n = NoCall /\ D2 = dbcall'
    OBVIOUS
  <1>4. CallGood(dbtype, n) /\ n.st = "idle"
    BY <1>3, GoodIdle
  <1>5. ~IsReader(n) /\ ~IsWriter(n) /\ n.st # "wait"
    BY <1>4 DEF IsReader, IsWriter
  <1>6. D2 = [dbcall EXCEPT ![t] = n]
    BY <1>3 DEF CallerGoesOn
  <1>7. CallsGood(dbtype, D2, rwlock)
    BY ZenonT(30), <1>1, <1>2, <1>4, <1>5, <1>6, OneCall
  <1> QED
    BY <1>1, <1>3, <1>7, NoRowGoes DEF DbInv, CallsGood, DbRows

(* A thread at a lock statement, and after it.                             *)
LEMMA LockStatement ==
  ASSUME NEW d, NEW k, CallGood(d, k), k.st = "run", k.prog # <<>>, Head(k.prog).op \in LockOps,
         NEW n, n = Advance(k, "go")
  PROVE  /\ CallGood(d, n) /\ n.st = "run" /\ Head(k.prog).op = k.prog[1].op
         /\ k.prog[1].op = "rlock" => ~IsReader(k) /\ ~IsWriter(k) /\ IsReader(n) /\ ~IsWriter(n)
         /\ k.prog[1].op = "wlock" => ~IsReader(k) /\ ~IsWriter(k) /\ ~IsReader(n) /\ IsWriter(n)
         /\ k.prog[1].op = "runlock" => IsReader(k) /\ ~IsWriter(k) /\ ~IsReader(n) /\ ~IsWriter(n)
         /\ k.prog[1].op = "wunlock" => ~IsReader(k) /\ IsWriter(k) /\ ~IsReader(n) /\ ~IsWriter(n)
  <1>1. CallGood(d, n) /\ n.st = "run" /\ n.prog = Tail(k.prog)
    BY AdvancedCall
  <1>2. PICK p, q : p = k.prog /\ q = n.prog
    OBVIOUS
  <1>3. CallParts(d, "run", k.c, p) /\ p # <<>> /\ q = Tail(p)
    BY <1>1, <1>2, RunningCall
  <1>4. p \in Seq(DbStmt)
    BY <1>3 DEF CallParts, WellLocked
  <1>5. Head(p) = p[1]
    BY <1>3, <1>4, ProgramTail
  <1>6. /\ p[1].op = "rlock" => ~InRead(p) /\ ~InWrite(p) /\ InRead(q) /\ ~InWrite(q)
        /\ p[1].op = "wlock" => ~InRead(p) /\ ~InWrite(p) /\ ~InRead(q) /\ InWrite(q)
        /\ p[1].op = "runlock" => InRead(p) /\ ~InWrite(p) /\ ~InRead(q) /\ ~InWrite(q)
        /\ p[1].op = "wunlock" => ~InRead(p) /\ InWrite(p) /\ ~InRead(q) /\ ~InWrite(q)
    BY ZenonT(30), <1>3, LockedNow
  <1>7. /\ IsReader(k) <=> InRead(p)
        /\ IsWriter(k) <=> InWrite(p)
        /\ IsReader(n) <=> InRead(q)
        /\ IsWriter(n) <=> InWrite(q)
    BY <1>1, <1>2 DEF IsReader, IsWriter
  <1> QED
    BY <1>1, <1>2, <1>5, <1>6, <1>7

LEMMA WaitingCall ==
  ASSUME NEW d, NEW k, CallGood(d, k), k.st = "run", k.prog # <<>>,
         k.prog[1].op \in {"rlock", "wlock"}, NEW n, n = [k EXCEPT !.st = "wait"]
  PROVE  CallGood(d, n) /\ n.st = "wait"
  <1>1. PICK c, p, ret, failed, touched, snap :
          /\ c = k.c /\ p = k.prog /\ ret = k.ret /\ failed = k.failed /\ touched = k.touched
          /\ snap = k.snap
    OBVIOUS
  <1>2. CallParts(d, "run", c, p) /\ k = CallRec("run", c, p, ret, failed, touched, snap)
    BY <1>1, RunningCall
  <1>3. n = CallRec("wait", c, p, ret, failed, touched, snap)
    BY <1>2 DEF CallRec
  <1>4. CallParts(d, "wait", c, p)
    BY <1>1, <1>2 DEF CallParts
  <1>5. IsCall(d, CallRec("wait", c, p, ret, failed, touched, snap), "wait", c, p)
    BY <1>4, GoodCall
  <1> QED
    BY <1>3, <1>5 DEF IsCall

LEMMA LockStep ==
  ASSUME DbInv, NEW t \in DbThread, sqlite_lock(t)
  PROVE  DbInv' /\ RowKept
  <1>1. PICK k, D2, w2 : k = dbcall[t] /\ D2 = dbcall' /\ w2 = rwlock'
    OBVIOUS
  <1>2. /\ k.st = "run" /\ k.prog # <<>> /\ Head(k.prog).op \in {"rlock", "wlock"} /\ db' = db
        /\ dbtype' = dbtype /\ CallsGood(dbtype, dbcall, rwlock)
    BY <1>1 DEF DbInv, sqlite_lock, CallsGood
  <1>3. PICK n : n = Advance(k, "go")
    OBVIOUS
  <1>4. CallGood(dbtype, k) /\ LockGood(dbcall, rwlock) /\ dbcall = [u \in DbThread |-> dbcall[u]]
    BY <1>1, <1>2 DEF CallsGood
  <1>5. Head(k.prog).op \in LockOps
    BY <1>2 DEF LockOps
  <1>6. /\ CallGood(dbtype, n) /\ n.st = "run" /\ Head(k.prog).op = k.prog[1].op
        /\ k.prog[1].op = "rlock" => ~IsReader(k) /\ ~IsWriter(k) /\ IsReader(n) /\ ~IsWriter(n)
        /\ k.prog[1].op = "wlock" => ~IsReader(k) /\ ~IsWriter(k) /\ ~IsReader(n) /\ IsWriter(n)
    BY <1>2, <1>3, <1>4, <1>5, LockStatement
  <1>7. rwlock.writer # t
    BY <1>1, <1>2, <1>4, <1>6, LockFacts
  <1>8. CASE MayEnter(t, Head(k.prog).op = "wlock")
    <2>1. rwlock.writer = Nothing /\ (Head(k.prog).op = "wlock" => rwlock.readers < 1)
      BY <1>7, <1>8 DEF MayEnter
    <2>2. D2 = [dbcall EXCEPT ![t] = n]
      BY <1>1, <1>3, <1>8 DEF sqlite_lock
    <2>3. D2[t] = n /\ (\A u \in DbThread \ {t} : D2[u] = dbcall[u]) /\ D2 = [u \in DbThread |-> D2[u]]
      BY <1>4, <2>2
    <2>4. \A u \in DbThread : CallGood(dbtype, D2[u])
      BY <1>2, <1>6, <2>3 DEF CallsGood
    <2>5. PICK a, b, e : a = rwlock.readers /\ b = rwlock.level /\ e = rwlock.writer
      OBVIOUS
    <2>6. rwlock = LockRec(a, b, e)
      BY <1>4, <2>5, LockFacts
    <2>7. CASE Head(k.prog).op = "rlock"
      <3>1. rwlock' = [rwlock EXCEPT !.readers = rwlock.readers + 1]
        BY <1>1, <1>8, <2>7 DEF sqlite_lock
      <3>2. PICK m : m = rwlock.readers + 1
        OBVIOUS
      <3>3. w2 = LockRec(m, b, e)
        BY <1>1, <2>6, <3>1, <3>2 DEF LockRec
      <3>4. w2 = LockRec(rwlock.readers + 1, rwlock.level, rwlock.writer)
        BY <2>5, <3>2, <3>3
      <3>5. LockGood(D2, w2)
        BY <1>1, <1>4, <1>6, <2>1, <2>3, <2>7, <3>4, ReaderEnters
      <3> QED
        BY <1>1, <1>2, <2>3, <2>4, <3>5, NoRowGoes DEF DbInv, DbRows
    <2>8. CASE Head(k.prog).op = "wlock"
      <3>1. rwlock' = [rwlock EXCEPT !.level = rwlock.level + 1, !.writer = t]
        BY <1>1, <1>8, <2>8 DEF sqlite_lock
      <3>2. PICK m : m = rwlock.level + 1
        OBVIOUS
      <3>3. w2 = LockRec(a, m, t)
        BY ZenonT(30), <1>1, <2>6, <3>1, <3>2 DEF LockRec
      <3>4. w2 = LockRec(rwlock.readers, rwlock.level + 1, t)
        BY <2>5, <3>2, <3>3
      <3>5. LockGood(D2, w2)
        BY <1>1, <1>4, <1>6, <2>1, <2>3, <2>8, <3>4, WriterEnters
      <3> QED
        BY <1>1, <1>2, <2>3, <2>4, <3>5, NoRowGoes DEF DbInv, DbRows
    <2> QED
      BY <1>2, <2>7, <2>8
  <1>9. CASE ~MayEnter(t, Head(k.prog).op = "wlock")
    <2>1. rwlock.readers > 0 \/ rwlock.writer # Nothing
      <3>1. rwlock.readers \in Nat
        BY <1>4, LockFacts
      <3>2. rwlock.writer # Nothing \/ ~(rwlock.readers < 1)
        BY <1>9 DEF MayEnter
      <3> QED
        BY <3>1, <3>2
    <2>2. PICK m : m = [k EXCEPT !.st = "wait"]
      BY ZenonT(30)
    <2>3. D2 = [dbcall EXCEPT ![t] = m] /\ rwlock' = rwlock
      BY <1>1, <1>9, <2>2 DEF sqlite_lock
    <2>4. CallGood(dbtype, m) /\ m.st = "wait"
      BY <1>2, <1>4, <1>6, <2>2, WaitingCall
    <2>5. ~IsReader(m) /\ ~IsWriter(m)
      BY <2>4 DEF IsReader, IsWriter
    <2>6. ~IsReader(dbcall[t]) /\ ~IsWriter(dbcall[t])
      BY <1>1, <1>2, <1>6
    <2>7. CallsGood(dbtype, D2, rwlock)
      BY ZenonT(30), <1>2, <2>1, <2>3, <2>4, <2>5, <2>6, OneCall
    <2> QED
      BY <1>1, <1>2, <2>3, <2>7, NoRowGoes DEF DbInv, CallsGood, DbRows
  <1> QED
    BY <1>8, <1>9

(* The broadcast wakes every thread that waits.                            *)
LEMMA BroadcastCalls ==
  ASSUME NEW d, NEW D, \A u \in DbThread : CallGood(d, D[u]), NEW E, E = Broadcast(D)
  PROVE  /\ E = [u \in DbThread |-> E[u]]
         /\ \A u \in DbThread : /\ CallGood(d, E[u]) /\ E[u].st # "wait"
                                /\ IsReader(E[u]) <=> IsReader(D[u])
                                /\ IsWriter(E[u]) <=> IsWriter(D[u])
  <1>1. E = [u \in DbThread |-> E[u]]
    BY DEF Broadcast
  <1>2. ASSUME NEW u \in DbThread
        PROVE  /\ CallGood(d, E[u]) /\ E[u].st # "wait"
               /\ IsReader(E[u]) <=> IsReader(D[u])
               /\ IsWriter(E[u]) <=> IsWriter(D[u])
    <2>1. CASE D[u].st = "wait"
      <3>1. E[u] = [D[u] EXCEPT !.st = "run"] /\ CallGood(d, D[u])
        BY <2>1 DEF Broadcast
      <3>2. CallGood(d, E[u]) /\ E[u].st = "run" /\ ~InRead(E[u].prog) /\ ~InWrite(E[u].prog)
        BY ZenonT(30), <2>1, <3>1, WokenCall
      <3> QED
        BY <2>1, <3>2 DEF IsReader, IsWriter
    <2>2. CASE D[u].st # "wait"
      BY <2>2 DEF Broadcast
    <2> QED
      BY <2>1, <2>2
  <1> QED
    BY <1>1, <1>2

LEMMA UnlockStep ==
  ASSUME DbInv, NEW t \in DbThread, sqlite_unlock(t)
  PROVE  DbInv' /\ RowKept
  <1>1. PICK k, D2, w2 : k = dbcall[t] /\ D2 = dbcall' /\ w2 = rwlock'
    OBVIOUS
  <1>2. /\ k.st = "run" /\ k.prog # <<>> /\ Head(k.prog).op \in {"runlock", "wunlock"} /\ db' = db
        /\ dbtype' = dbtype /\ CallsGood(dbtype, dbcall, rwlock)
    BY <1>1 DEF DbInv, sqlite_unlock, CallsGood
  <1>3. PICK n, O : n = Advance(k, "go") /\ O = [dbcall EXCEPT ![t] = n]
    BY ZenonT(30)
  <1>4. CallGood(dbtype, k) /\ LockGood(dbcall, rwlock) /\ dbcall = [u \in DbThread |-> dbcall[u]]
    BY <1>1, <1>2 DEF CallsGood
  <1>5. Head(k.prog).op \in LockOps
    BY <1>2 DEF LockOps
  <1>6. /\ CallGood(dbtype, n) /\ n.st = "run" /\ Head(k.prog).op = k.prog[1].op
        /\ k.prog[1].op = "runlock" => IsReader(k) /\ ~IsWriter(k) /\ ~IsReader(n) /\ ~IsWriter(n)
        /\ k.prog[1].op = "wunlock" => ~IsReader(k) /\ IsWriter(k) /\ ~IsReader(n) /\ ~IsWriter(n)
    BY <1>2, <1>3, <1>4, <1>5, LockStatement
  <1>7. O[t] = n /\ (\A u \in DbThread \ {t} : O[u] = dbcall[u]) /\ O = [u \in DbThread |-> O[u]]
    BY <1>3, <1>4
  <1>8. \A u \in DbThread : CallGood(dbtype, O[u])
    BY <1>2, <1>6, <1>7 DEF CallsGood
  <1>9. PICK B : B = Broadcast(O)
    OBVIOUS
  <1>10. /\ B = [u \in DbThread |-> B[u]]
         /\ \A u \in DbThread : /\ CallGood(dbtype, B[u]) /\ B[u].st # "wait"
                                /\ IsReader(B[u]) <=> IsReader(O[u])
                                /\ IsWriter(B[u]) <=> IsWriter(O[u])
    BY <1>8, <1>9, BroadcastCalls
  <1>11. PICK a, b, e : a = rwlock.readers /\ b = rwlock.level /\ e = rwlock.writer
    OBVIOUS
  <1>12. rwlock = LockRec(a, b, e)
    BY <1>4, <1>11, LockFacts
  <1>13. /\ D2 = B \/ D2 = O
         /\ D2 = [u \in DbThread |-> D2[u]]
         /\ \A u \in DbThread : CallGood(dbtype, D2[u])
         /\ ~IsReader(D2[t]) /\ ~IsWriter(D2[t])
         /\ \A u \in DbThread \ {t} : /\ IsReader(D2[u]) <=> IsReader(dbcall[u])
                                      /\ IsWriter(D2[u]) <=> IsWriter(dbcall[u])
    <2>1. D2 = B \/ D2 = O
      BY <1>1, <1>3, <1>9 DEF sqlite_unlock
    <2>2. ~IsReader(n) /\ ~IsWriter(n)
      BY <1>2, <1>6
    <2>3. CASE D2 = O
      BY <1>7, <1>8, <2>2, <2>3
    <2>4. CASE D2 = B
      BY <1>7, <1>10, <2>2, <2>4
    <2> QED
      BY <2>1, <2>3, <2>4
  <1>14. CASE Head(k.prog).op = "runlock"
    <2>1. IsReader(dbcall[t]) /\ ~IsWriter(dbcall[t])
      BY <1>1, <1>6, <1>14
    <2>2. rwlock' = [rwlock EXCEPT !.readers = rwlock.readers - 1]
      BY <1>1, <1>14 DEF sqlite_unlock
    <2>3. PICK m : m = rwlock.readers - 1
      OBVIOUS
    <2>4. w2 = LockRec(m, b, e)
      BY <1>1, <1>12, <2>2, <2>3 DEF LockRec
    <2>5. w2 = LockRec(rwlock.readers - 1, rwlock.level, rwlock.writer)
      BY <1>11, <2>3, <2>4
    <2>6. rwlock.readers = 1 => \A u \in DbThread : D2[u].st # "wait"
      <3>1. rwlock.readers = 1 => D2 = B
        BY <1>1, <1>3, <1>9, <1>14 DEF sqlite_unlock
      <3> QED
        BY <1>10, <3>1
    <2>7. LockGood(D2, w2)
      BY <1>4, <1>13, <2>1, <2>5, <2>6, ReaderLeaves
    <2> QED
      BY <1>1, <1>2, <1>13, <2>7, NoRowGoes DEF DbInv, DbRows
  <1>15. CASE Head(k.prog).op = "wunlock"
    <2>1. ~IsReader(dbcall[t]) /\ IsWriter(dbcall[t])
      BY <1>1, <1>6, <1>15
    <2>2. rwlock.level = 1
      <3>1. rwlock.writer = t /\ t # Nothing
        BY <1>4, <2>1, LockFacts, UserDbAssumption
      <3> QED
        BY <1>4, <3>1, LockFacts
    <2>3. rwlock' = [rwlock EXCEPT !.level = rwlock.level - 1, !.writer = Nothing]
      BY <1>1, <1>15, <2>2 DEF sqlite_unlock
    <2>4. PICK m : m = rwlock.level - 1
      OBVIOUS
    <2>5. w2 = LockRec(a, m, Nothing)
      BY ZenonT(30), <1>1, <1>12, <2>3, <2>4 DEF LockRec
    <2>6. w2 = LockRec(rwlock.readers, rwlock.level - 1, Nothing)
      BY <1>11, <2>4, <2>5
    <2>7. \A u \in DbThread : D2[u].st # "wait"
      <3>1. D2 = B
        BY <1>1, <1>3, <1>9, <1>15, <2>2 DEF sqlite_unlock
      <3> QED
        BY <1>10, <3>1
    <2>8. LockGood(D2, w2)
      BY <1>4, <1>13, <2>1, <2>6, <2>7, WriterLeaves
    <2> QED
      BY <1>1, <1>2, <1>13, <2>8, NoRowGoes DEF DbInv, DbRows
  <1> QED
    BY <1>2, <1>14, <1>15

LEMMA DbStart ==
  ASSUME UserDbInit
  PROVE  DbInv
  <1>1. DOMAIN db = DbRows /\ db = [r \in DOMAIN db |-> db[r]]
    BY DEF UserDbInit, DbRows
  <1>2. dbcall = [t \in DbThread |-> NoCall] /\ rwlock = LockRec(0, 0, Nothing)
    BY DEF UserDbInit, LockRec
  <1>3. \A t \in DbThread : dbcall[t] = NoCall /\ CallGood(dbtype, dbcall[t]) /\ dbcall[t].st = "idle"
    BY <1>2, GoodIdle
  <1>4. Readers(dbcall) = {} /\ Writers(dbcall) = {}
    BY <1>3 DEF Readers, Writers
  <1>5. Cardinality(Readers(dbcall)) = 0
    BY <1>4, FS_EmptySet
  <1>6. rwlock.readers = 0 /\ rwlock.level = 0 /\ rwlock.writer = Nothing
    BY <1>2 DEF LockRec
  <1>7. LockGood(dbcall, rwlock)
    BY <1>2, <1>3, <1>4, <1>5, <1>6 DEF LockGood
  <1>8. dbcall = [t \in DbThread |-> dbcall[t]]
    BY <1>2
  <1> QED
    BY <1>1, <1>3, <1>7, <1>8 DEF DbInv

LEMMA DbNextStep ==
  ASSUME DbInv, [UserDbNext]_DbVars
  PROVE  DbInv' /\ RowKept
  <1>1. CASE UNCHANGED DbVars
    BY <1>1, NoRowGoes DEF DbVars, DbInv, LockGood, CallGood, Readers, Writers
  <1>2. CASE UserDbNext
    <2>1. PICK t \in DbThread : \/ CallDriver(t) \/ ConnectionLost(t) \/ DbStep(t) \/ CallerGoesOn(t)
      BY <1>2 DEF UserDbNext
    <2>2. CASE ConnectionLost(t)
      <3>1. db' = db /\ dbcall' = dbcall /\ rwlock' = rwlock /\ dbtype' = dbtype
        BY <2>2 DEF ConnectionLost
      <3> QED
        BY <3>1, NoRowGoes DEF DbInv, DbRows
    <2> QED
      BY <2>1, <2>2, CallDriverStep, StatementStep, LockStep, UnlockStep, CallReturnsStep,
         CallerGoesOnStep DEF DbStep
  <1> QED
    BY <1>1, <1>2

(***************************************************************************)
(* No lost wake-up, for any number of threads and calls: a thread waits in *)
(* sqlite_lock only while another one that runs is between its lock and    *)
(* its unlock statement, so that its broadcast is still to come.           *)
(***************************************************************************)
THEOREM AlwaysWaitersAreWoken == UserDbSpec => []WaitersAreWoken
  <1>1. UserDbInit => DbInv
    BY DbStart
  <1>2. DbInv /\ [UserDbNext]_DbVars => DbInv'
    BY DbNextStep
  <1>3. DbInv => WaitersAreWoken
    <2> SUFFICES ASSUME DbInv, NEW t \in DbThread, dbcall[t].st = "wait"
                 PROVE  \E u \in DbThread : u # t /\ InSection(u)
      BY DEF WaitersAreWoken
    <2>1. rwlock.readers > 0 \/ rwlock.writer # Nothing
      BY DEF DbInv, LockGood
    <2>2. LockGood(dbcall, rwlock)
      BY DEF DbInv
    <2>3. PICK u \in DbThread : IsReader(dbcall[u]) \/ IsWriter(dbcall[u])
      <3>1. CASE rwlock.writer # Nothing
        BY <2>2, <3>1, LockFacts
      <3>2. CASE rwlock.readers > 0
        <4>1. rwlock.readers # 0
          BY <3>2
        <4> QED
          BY <2>2, <4>1, LockFacts
      <3> QED
        BY <2>1, <3>1, <3>2
    <2>4. dbcall[u].st = "run" /\ u # t
      BY <2>3 DEF IsReader, IsWriter
    <2>5. PICK p : p = dbcall[u].prog
      OBVIOUS
    <2>6. p \in Seq(DbStmt)
      <3>1. CallGood(dbtype, dbcall[u])
        BY DEF DbInv
      <3>2. CallParts(dbtype, "run", dbcall[u].c, p)
        BY <2>4, <2>5, <3>1, RunningCall
      <3> QED
        BY <3>2 DEF CallParts, WellLocked
    <2>7. PICK i \in 0 + 1 .. Len(p) : /\ p[i].op \in {"runlock", "wunlock"}
                                       /\ \A j \in 0 + 1 .. i - 1 : p[j].op \notin LockOps
      BY ZenonT(30), <2>3, <2>5 DEF IsReader, IsWriter, InRead, InWrite, Section
    <2>8. i \in DOMAIN p /\ \A j \in 1 .. i - 1 : j \in 0 + 1 .. i - 1
      BY <2>6, <2>7
    <2>9. InSection(u)
      BY <2>4, <2>5, <2>7, <2>8 DEF InSection
    <2> QED
      BY <2>4, <2>9
  <1> QED
    BY <1>1, <1>2, <1>3, PTL DEF UserDbSpec

(***************************************************************************)
(* A row that is set again never disappears on the way, for every driver   *)
(* and any interleaving of the calls: a step that empties a row is one of  *)
(* a call that removes it, or of the three functions that remove before    *)
(* they set.                                                               *)
(***************************************************************************)
THEOREM AlwaysRowsKept == UserDbSpec => RowsKept
  <1>1. UserDbInit => DbInv
    BY DbStart
  <1>2. DbInv /\ [UserDbNext]_DbVars => DbInv'
    BY DbNextStep
  <1>3. DbInv /\ [UserDbNext]_DbVars => [RowKept]_DbVars
    BY DbNextStep
  <1> QED
    BY <1>1, <1>2, <1>3, PTL DEF UserDbSpec, RowsKept

(***************************************************************************)
(* sqlite_lock keeps what it is for: while a thread is between wlock and   *)
(* wunlock, no other thread is between a lock and its unlock.              *)
(***************************************************************************)
WritersAlone ==
  \A t, u \in DbThread : IsWriter(dbcall[t]) /\ (IsReader(dbcall[u]) \/ IsWriter(dbcall[u])) => t = u
THEOREM AlwaysWritersAlone == UserDbSpec => []WritersAlone
  <1>1. UserDbInit => DbInv
    BY DbStart
  <1>2. DbInv /\ [UserDbNext]_DbVars => DbInv'
    BY DbNextStep
  <1>3. DbInv => WritersAlone
    <2> SUFFICES ASSUME DbInv, NEW t \in DbThread, NEW u \in DbThread, IsWriter(dbcall[t]),
                        IsReader(dbcall[u]) \/ IsWriter(dbcall[u])
                 PROVE  t = u
      BY DEF WritersAlone
    <2>1. LockGood(dbcall, rwlock)
      BY DEF DbInv
    <2>2. rwlock.writer = t /\ t # Nothing
      BY <2>1, LockFacts, UserDbAssumption
    <2>3. rwlock.readers = 0
      BY <2>1, <2>2, LockFacts
    <2>4. ~IsReader(dbcall[u])
      BY <2>1, <2>3, LockFacts
    <2> QED
      BY <2>1, <2>2, <2>4, LockFacts
  <1> QED
    BY <1>1, <1>2, <1>3, PTL DEF UserDbSpec
=============================================================================
