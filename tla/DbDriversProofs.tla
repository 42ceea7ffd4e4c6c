-------------------------- MODULE DbDriversProofs --------------------------
(***************************************************************************)
(* Proofs about the programs of the database drivers, for any call: what   *)
(* each function of each driver does on every path through its statements. *)
(***************************************************************************)
EXTENDS UserDb, TLAPS

(* A leaf that names no prover goes to the SMT solver, for up to 30 seconds. *)
USE SMTT(30)

-----------------------------------------------------------------------------
(* The statements of a call and SQLite's lock *)

(* What a statement is and what may follow it.                             *)
KeepingOps ==
  {"scan", "find", "any", "insert", "update", "put", "merge", "noop", "save", "keys", "addToDoc",
   "alterDoc", "origins", "defaults", "options", "optionsOrDefaults", "docs", "docDefaults",
   "docOptions", "docOrigins"}
PlainOps == KeepingOps \cup {"delete", "deleteRealm"}
DbOp == PlainOps \cup LockOps
DbOut == {"go", "ok", "stop", "okstop"}
DbStmt == [op : DbOp, good : DbOut, bad : SUBSET DbOut]
DbStops == {"stop", "okstop"}

(* After its statement i a program is in a section that ends with unlock.  *)
Section(p, i, unlock) ==
  \E k \in i + 1 .. Len(p) : /\ p[k].op = unlock
                             /\ \A j \in i + 1 .. k - 1 : p[j].op \notin LockOps

(* Every lock is given back before the next one is asked for, and a        *)
(* program with locks never stops before its end.                          *)
WellLocked(p) ==
  /\ p \in Seq(DbStmt)
  /\ \A i \in 1 .. Len(p) :
       /\ p[i].op = "rlock" => Section(p, i, "runlock") /\ ~Section(p, i, "wunlock")
       /\ p[i].op = "wlock" => Section(p, i, "wunlock") /\ ~Section(p, i, "runlock")
       /\ p[i].op \in {"runlock", "wunlock"} =>
            ~Section(p, i, "runlock") /\ ~Section(p, i, "wunlock")
       /\ p[i].op \in LockOps =>
            \A j \in 1 .. Len(p) : p[j].good \notin DbStops /\ p[j].bad \cap DbStops = {}
InRead(p) == Section(p, 0, "runlock")
InWrite(p) == Section(p, 0, "wunlock")

(* The statements a call may make: only one that removes its row, or sets  *)
(* it by removing it first, deletes.                                       *)
MayDelete(d, c) ==
  \/ Removes(c)
  \/ d = "redis" /\ c.fn = "set_secret"
  \/ d \in {"mysql", "pgsql"} /\ c.fn = "set_realm_option_one"
Deletes(p) == \E i \in 1 .. Len(p) : p[i].op \in {"delete", "deleteRealm"}

-----------------------------------------------------------------------------
(* Sections of a program *)

LEMMA ProgramTail ==
  ASSUME NEW p \in Seq(DbStmt), p # <<>>
  PROVE  /\ Len(p) \in Nat /\ Len(p) > 0 /\ Head(p) = p[1] /\ p[1] \in DbStmt
         /\ Tail(p) \in Seq(DbStmt) /\ Len(Tail(p)) = Len(p) - 1 /\ Tail(p) # p
         /\ \A i \in 1 .. Len(p) - 1 : Tail(p)[i] = p[i + 1]
  <1>1. Len(p) \in Nat /\ Len(p) > 0 /\ Tail(p) \in Seq(DbStmt) /\ Len(Tail(p)) = Len(p) - 1
    OBVIOUS
  <1>2. Head(p) = p[1] /\ p[1] \in DbStmt
    BY <1>1
  <1>3. \A i \in 1 .. Len(p) - 1 : Tail(p)[i] = p[i + 1]
    BY <1>1
  <1>4. Tail(p) # p
    <2>1. ASSUME Tail(p) = p PROVE FALSE
      <3>1. Len(Tail(p)) = Len(p)
        BY <2>1
      <3>2. PICK n : n = Len(p)
        OBVIOUS
      <3>3. n \in Nat /\ n = n - 1
        BY <1>1, <3>1, <3>2, Zenon
      <3> QED
        BY <3>3
    <2> QED
      BY <2>1
  <1> QED
    BY ZenonT(30), <1>1, <1>2, <1>3, <1>4

LEMMA SectionTail ==
  ASSUME NEW p \in Seq(DbStmt), p # <<>>, NEW i \in Nat, NEW x
  PROVE  Section(Tail(p), i, x) <=> Section(p, i + 1, x)
  <1>1. PICK q : q = Tail(p)
    BY ZenonT(30)
  <1>2. /\ Len(p) \in Nat /\ Len(q) = Len(p) - 1
        /\ \A n \in 1 .. Len(p) - 1 : q[n] = p[n + 1]
    BY <1>1, ProgramTail
  <1>3. ASSUME Section(q, i, x) PROVE Section(p, i + 1, x)
    <2>1. PICK k \in i + 1 .. Len(q) : q[k].op = x /\ \A j \in i + 1 .. k - 1 : q[j].op \notin LockOps
      BY <1>3 DEF Section
    <2>2. k + 1 \in i + 2 .. Len(p) /\ p[k + 1].op = x
      BY <1>2, <2>1
    <2>3. ASSUME NEW j \in i + 2 .. k PROVE p[j].op \notin LockOps
      <3>1. j - 1 \in i + 1 .. k - 1 /\ j - 1 \in 1 .. Len(p) - 1 /\ (j - 1) + 1 = j
        BY <1>2, <2>1
      <3> QED
        BY ZenonT(30), <1>2, <2>1, <3>1
    <2>4. (i + 1) + 1 = i + 2 /\ (k + 1) - 1 = k
      BY <2>1
    <2> QED
      BY <2>2, <2>3, <2>4 DEF Section
  <1>4. ASSUME Section(p, i + 1, x) PROVE Section(q, i, x)
    <2>1. PICK k \in (i + 1) + 1 .. Len(p) :
            p[k].op = x /\ \A j \in (i + 1) + 1 .. k - 1 : p[j].op \notin LockOps
      BY <1>4 DEF Section
    <2>2. k - 1 \in i + 1 .. Len(q) /\ q[k - 1].op = x
      <3>1. k - 1 \in i + 1 .. Len(q) /\ k - 1 \in 1 .. Len(p) - 1 /\ (k - 1) + 1 = k
        BY <1>2, <2>1
      <3> QED
        BY <1>2, <2>1, <3>1
    <2>3. ASSUME NEW j \in i + 1 .. (k - 1) - 1 PROVE q[j].op \notin LockOps
      <3>1. j + 1 \in (i + 1) + 1 .. k - 1 /\ j \in 1 .. Len(p) - 1
        BY <1>2, <2>1
      <3> QED
        BY <1>2, <2>1, <3>1
    <2> QED
      BY <2>2, <2>3 DEF Section
  <1> QED
    BY <1>1, <1>3, <1>4

(* The first statement decides, unless it is no lock operation.            *)
LEMMA SectionHead ==
  ASSUME NEW p \in Seq(DbStmt), p # <<>>, NEW x \in LockOps
  PROVE  /\ p[1].op = x => Section(p, 0, x)
         /\ p[1].op \in LockOps /\ p[1].op # x => ~Section(p, 0, x)
         /\ p[1].op \notin LockOps => (Section(p, 0, x) <=> Section(p, 1, x))
  <1>1. Len(p) \in Nat /\ Len(p) > 0
    BY ProgramTail
  <1>2. p[1].op = x => Section(p, 0, x)
    BY <1>1 DEF Section
  <1>3. ASSUME p[1].op \in LockOps, p[1].op # x, Section(p, 0, x) PROVE FALSE
    <2>1. PICK k \in 1 .. Len(p) : p[k].op = x /\ \A j \in 1 .. k - 1 : p[j].op \notin LockOps
      BY <1>3 DEF Section
    <2>2. k # 1
      BY <1>3, <2>1
    <2>3. 1 \in 1 .. k - 1
      BY <2>1, <2>2
    <2> QED
      BY <1>3, <2>1, <2>3
  <1>4. ASSUME p[1].op \notin LockOps, Section(p, 0, x) PROVE Section(p, 1, x)
    <2>1. PICK k \in 1 .. Len(p) : p[k].op = x /\ \A j \in 1 .. k - 1 : p[j].op \notin LockOps
      BY <1>4 DEF Section
    <2>2. k # 1
      BY <1>4, <2>1
    <2>3. k \in 1 + 1 .. Len(p) /\ \A j \in 1 + 1 .. k - 1 : j \in 1 .. k - 1
      BY <2>1, <2>2
    <2> QED
      BY <2>1, <2>3 DEF Section
  <1>5. ASSUME p[1].op \notin LockOps, Section(p, 1, x) PROVE Section(p, 0, x)
    <2>1. PICK k \in 1 + 1 .. Len(p) : p[k].op = x /\ \A j \in 1 + 1 .. k - 1 : p[j].op \notin LockOps
      BY <1>5 DEF Section
    <2>2. k \in 0 + 1 .. Len(p) /\ \A j \in 0 + 1 .. k - 1 : j = 1 \/ j \in 1 + 1 .. k - 1
      BY <2>1
    <2> QED
      BY <1>5, <2>1, <2>2 DEF Section
  <1> QED
    BY <1>2, <1>3, <1>4, <1>5

LEMMA TailWellLocked ==
  ASSUME NEW p, WellLocked(p), p # <<>>
  PROVE  WellLocked(Tail(p))
  <1>1. p \in Seq(DbStmt)
    BY DEF WellLocked
  <1>2. PICK q : q = Tail(p)
    BY ZenonT(30)
  <1>3. /\ q \in Seq(DbStmt) /\ Len(p) \in Nat /\ Len(q) = Len(p) - 1
        /\ \A n \in 1 .. Len(p) - 1 : q[n] = p[n + 1]
    BY <1>1, <1>2, ProgramTail
  <1>4. ASSUME NEW i \in 1 .. Len(q)
        PROVE  /\ i + 1 \in 1 .. Len(p) /\ q[i] = p[i + 1]
               /\ \A x : Section(q, i, x) <=> Section(p, i + 1, x)
    <2>1. i \in Nat /\ i + 1 \in 1 .. Len(p) /\ q[i] = p[i + 1]
      BY <1>3
    <2>2. ASSUME NEW x PROVE Section(q, i, x) <=> Section(p, i + 1, x)
      BY <1>1, <1>2, <2>1, SectionTail
    <2> QED
      BY <2>1, <2>2
  <1>5. ASSUME NEW i \in 1 .. Len(q)
        PROVE  /\ q[i].op = "rlock" => Section(q, i, "runlock") /\ ~Section(q, i, "wunlock")
               /\ q[i].op = "wlock" => Section(q, i, "wunlock") /\ ~Section(q, i, "runlock")
               /\ q[i].op \in {"runlock", "wunlock"} =>
                    ~Section(q, i, "runlock") /\ ~Section(q, i, "wunlock")
    BY <1>4 DEF WellLocked
  <1>6. ASSUME NEW i \in 1 .. Len(q), q[i].op \in LockOps, NEW j \in 1 .. Len(q)
        PROVE  q[j].good \notin DbStops /\ q[j].bad \cap DbStops = {}
    BY <1>4, <1>6 DEF WellLocked
  <1>7. WellLocked(q)
    BY <1>3, <1>5, <1>6 DEF WellLocked
  <1> QED
    BY <1>2, <1>7
-----------------------------------------------------------------------------
(* The functions of the drivers *)

(* A program without locks, and what a driver function is to be.           *)
Uses(p, O) == p \in Seq(DbStmt) /\ \A i \in 1 .. Len(p) : p[i].op \in O
DriverGood(d, c, p) ==
  /\ WellLocked(p) /\ ~InRead(p) /\ ~InWrite(p)
  /\ Deletes(p) => MayDelete(d, c)

LEMMA PlainProgram ==
  ASSUME NEW p, Uses(p, PlainOps)
  PROVE  WellLocked(p) /\ ~InRead(p) /\ ~InWrite(p)
  <1>1. \A i \in 1 .. Len(p) : p[i].op \notin LockOps
    <2>1. PlainOps \cap LockOps = {}
      BY DEF PlainOps, KeepingOps, LockOps
    <2> QED
      BY <2>1 DEF Uses
  <1>2. /\ "rlock" \in LockOps /\ "wlock" \in LockOps /\ "runlock" \in LockOps
        /\ "wunlock" \in LockOps
    BY DEF LockOps
  <1>3. WellLocked(p)
    BY <1>1, <1>2 DEF WellLocked, Uses
  <1>4. ASSUME NEW x \in LockOps PROVE ~Section(p, 0, x)
    BY <1>1 DEF Section
  <1> QED
    BY <1>2, <1>3, <1>4 DEF InRead, InWrite

LEMMA KeepingProgram ==
  ASSUME NEW d, NEW c, NEW p, Uses(p, KeepingOps)
  PROVE  DriverGood(d, c, p)
  <1>1. Uses(p, PlainOps)
    BY DEF Uses, PlainOps
  <1>2. "delete" \notin KeepingOps /\ "deleteRealm" \notin KeepingOps
    BY DEF KeepingOps
  <1>3. ~Deletes(p)
    BY <1>2 DEF Uses, Deletes
  <1> QED
    BY <1>1, <1>3, PlainProgram DEF DriverGood

LEMMA RemovingProgram ==
  ASSUME NEW d, NEW c, MayDelete(d, c), NEW p, Uses(p, PlainOps)
  PROVE  DriverGood(d, c, p)
  BY PlainProgram DEF DriverGood

LEMMA DoStmt ==
  ASSUME NEW op \in DbOp, NEW good \in DbOut, NEW bad \in SUBSET DbOut
  PROVE  /\ Do(op, good, bad) \in DbStmt /\ Do(op, good, bad).op = op
         /\ Do(op, good, bad).good = good /\ Do(op, good, bad).bad = bad
  BY DEF Do, DbStmt

LEMMA UsesOne ==
  ASSUME NEW O \in SUBSET DbOp, NEW op \in O, NEW good \in DbOut, NEW bad \in SUBSET DbOut
  PROVE  Uses(<<Do(op, good, bad)>>, O)
  <1>1. PICK e : e = Do(op, good, bad)
    OBVIOUS
  <1>2. e \in DbStmt /\ e.op \in O
    BY <1>1, DoStmt
  <1>3. Uses(<<e>>, O)
    BY <1>2 DEF Uses
  <1> QED
    BY <1>1, <1>3

LEMMA UsesTwo ==
  ASSUME NEW O, NEW e \in DbStmt, e.op \in O, NEW f \in DbStmt, f.op \in O
  PROVE  Uses(<<e, f>>, O)
  BY DEF Uses

LEMMA UsesBoth ==
  ASSUME NEW O, NEW p, Uses(p, O), NEW q, Uses(q, O)
  PROVE  Uses(p \o q, O)
  <1>1. /\ p \in Seq(DbStmt) /\ q \in Seq(DbStmt) /\ Len(p) \in Nat /\ Len(q) \in Nat
    BY DEF Uses
  <1>2. PICK r : r = p \o q
    BY ZenonT(30)
  <1>3. /\ r \in Seq(DbStmt) /\ Len(r) = Len(p) + Len(q)
        /\ \A i \in 1 .. Len(r) : r[i] = IF i <= Len(p) THEN p[i] ELSE q[i - Len(p)]
    BY <1>1, <1>2
  <1>4. ASSUME NEW i \in 1 .. Len(r) PROVE r[i].op \in O
    <2>1. CASE i <= Len(p)
      BY <1>1, <1>3, <2>1 DEF Uses
    <2>2. CASE i > Len(p)
      <3>1. i - Len(p) \in 1 .. Len(q)
        BY <1>1, <1>3, <2>2
      <3>2. r[i] = q[i - Len(p)]
        BY <1>1, <1>3, <2>2
      <3> QED
        BY <3>1, <3>2 DEF Uses
    <2> QED
      BY <1>1, <1>3, <2>1, <2>2
  <1>5. Uses(r, O)
    BY <1>3, <1>4 DEF Uses
  <1> QED
    BY <1>2, <1>5

LEMMA UsesNone ==
  ASSUME NEW O
  PROVE  Uses(<<>>, O)
  BY DEF Uses

LEMMA OpSets ==
  /\ KeepingOps \in SUBSET DbOp /\ PlainOps \in SUBSET DbOp /\ KeepingOps \subseteq PlainOps
  /\ "delete" \in PlainOps /\ "deleteRealm" \in PlainOps
  /\ "go" \in DbOut /\ "ok" \in DbOut /\ "stop" \in DbOut /\ "okstop" \in DbOut
  /\ {} \in SUBSET DbOut /\ {"go"} \in SUBSET DbOut /\ {"ok"} \in SUBSET DbOut
  /\ {"ok", "go"} \in SUBSET DbOut /\ {"stop"} \in SUBSET DbOut
  /\ {"stop", "go"} \in SUBSET DbOut
  BY DEF PlainOps, DbOp, DbOut

(* The forms that the drivers share.                                       *)
LEMMA SharedForms ==
  ASSUME NEW O \in SUBSET DbOp, NEW op \in O
  PROVE  /\ Uses(Once(op), O) /\ Uses(Regardless(op), O) /\ Uses(Reading(op), O)
         /\ Uses(<<Do(op, "go", {"go"})>>, O) /\ Uses(<<Do(op, "ok", {"ok", "go"})>>, O)
         /\ "save" \in O => Uses(Saved(op), O)
  <1>1. Uses(Once(op), O) /\ Uses(Reading(op), O)
    BY OpSets, UsesOne DEF Once, Reading
  <1>2. Uses(Regardless(op), O)
    BY OpSets, UsesOne DEF Regardless
  <1>3. Uses(<<Do(op, "go", {"go"})>>, O) /\ Uses(<<Do(op, "ok", {"ok", "go"})>>, O)
    BY OpSets, UsesOne
  <1>4. ASSUME "save" \in O PROVE Uses(Saved(op), O)
    <2>0. "save" \in DbOp /\ op \in DbOp
      BY <1>4
    <2>1. /\ Do(op, "ok", {"ok"}) \in DbStmt /\ Do(op, "ok", {"ok"}).op = op
          /\ Do("save", "go", {"go"}) \in DbStmt /\ Do("save", "go", {"go"}).op = "save"
      BY <2>0, OpSets, DoStmt
    <2> QED
      BY <1>4, <2>1, UsesTwo DEF Saved
  <1> QED
    BY <1>1, <1>2, <1>3, <1>4

LEMMA SetForms ==
  /\ \A inserted \in {"okstop", "stop"} : Uses(InsertElseUpdate(inserted), KeepingOps)
  /\ Uses(<<Do("scan", "okstop", {"go"}), Do("scan", "ok", {"go"})>>, KeepingOps)
  /\ \A bad \in SUBSET DbOut : Uses(<<Do("keys", "go", bad), Do("scan", "ok", {"ok"})>>, KeepingOps)
  /\ \A c : Uses(DeleteThenInsert(c), PlainOps)
  <1>1. ASSUME NEW op1 \in KeepingOps, NEW op2 \in KeepingOps, NEW g1 \in DbOut, NEW g2 \in DbOut,
               NEW b1 \in SUBSET DbOut, NEW b2 \in SUBSET DbOut
        PROVE  Uses(<<Do(op1, g1, b1), Do(op2, g2, b2)>>, KeepingOps)
    <2>1. op1 \in DbOp /\ op2 \in DbOp
      BY OpSets
    <2> QED
      BY <2>1, DoStmt, UsesTwo
  <1>2. "insert" \in KeepingOps /\ "update" \in KeepingOps /\ "scan" \in KeepingOps /\ "keys" \in KeepingOps
    BY DEF KeepingOps
  <1>3. \A inserted \in {"okstop", "stop"} : Uses(InsertElseUpdate(inserted), KeepingOps)
    BY <1>1, <1>2, OpSets DEF InsertElseUpdate
  <1>4. Uses(<<Do("scan", "okstop", {"go"}), Do("scan", "ok", {"go"})>>, KeepingOps)
    BY <1>1, <1>2, OpSets
  <1>5. ASSUME NEW bad \in SUBSET DbOut
        PROVE  Uses(<<Do("keys", "go", bad), Do("scan", "ok", {"ok"})>>, KeepingOps)
    BY <1>1, <1>2, OpSets
  <1>6. ASSUME NEW c PROVE Uses(DeleteThenInsert(c), PlainOps)
    <2>1. PICK p : p = <<Do("delete", "go", {"go"})>>
      BY ZenonT(30)
    <2>2. Uses(p, PlainOps) /\ Uses(Once("insert"), PlainOps) /\ Uses(<<>>, PlainOps)
      BY ZenonT(30), <1>2, <2>1, OpSets, SharedForms, UsesNone
    <2>3. PICK q : q = IF c.val = Nothing THEN <<>> ELSE Once("insert")
      OBVIOUS
    <2>4. Uses(q, PlainOps)
      BY <2>2, <2>3
    <2>5. DeleteThenInsert(c) = p \o q
      BY <2>1, <2>3 DEF DeleteThenInsert
    <2> QED
      BY <2>2, <2>4, <2>5, UsesBoth
  <1> QED
    BY <1>3, <1>4, <1>5, <1>6

(* SQLite: one statement between the lock and its release.                 *)
LEMMA LockedProgram ==
  ASSUME NEW lock \in {"rlock", "wlock"}, NEW unlock,
         unlock = IF lock = "rlock" THEN "runlock" ELSE "wunlock",
         NEW a \in DbStmt, a.op = lock, NEW b \in DbStmt, b.op \in PlainOps,
         NEW e \in DbStmt, e.op = unlock,
         \A s \in {a, b, e} : s.good \notin DbStops /\ s.bad \cap DbStops = {},
         NEW p, p = <<a, b, e>>
  PROVE  /\ WellLocked(p) /\ ~InRead(p) /\ ~InWrite(p)
         /\ b.op \in KeepingOps => ~Deletes(p)
  <1>1. p \in Seq(DbStmt) /\ Len(p) = 3 /\ p[1] = a /\ p[2] = b /\ p[3] = e
    OBVIOUS
  <1>2. b.op \notin LockOps /\ lock \in LockOps /\ unlock \in LockOps /\ lock # unlock
    BY DEF PlainOps, KeepingOps, LockOps
  <1>3. \A i \in 1 .. Len(p) : i \in {1, 2, 3}
    BY <1>1
  <1>4. \A x \in LockOps : ~Section(p, 3, x)
    BY <1>1 DEF Section
  <1>5. Section(p, 1, unlock)
    <2>1. 3 \in 1 + 1 .. Len(p) /\ \A j \in 1 + 1 .. 3 - 1 : j = 2
      BY <1>1
    <2> QED
      BY <1>1, <1>2, <2>1 DEF Section
  <1>6. \A x \in LockOps : x # unlock => ~Section(p, 1, x)
    <2>1. \A k \in 1 + 1 .. Len(p) : k = 2 \/ k = 3
      BY <1>1
    <2> QED
      BY <1>1, <1>2, <2>1 DEF Section
  <1>7. \A i \in 1 .. Len(p) : p[i].good \notin DbStops /\ p[i].bad \cap DbStops = {}
    BY <1>1, <1>3
  <1>8. "runlock" \in LockOps /\ "wunlock" \in LockOps
    BY DEF LockOps
  <1>9. WellLocked(p)
    <2> SUFFICES ASSUME NEW i \in 1 .. Len(p)
                 PROVE  /\ p[i].op = "rlock" => Section(p, i, "runlock") /\ ~Section(p, i, "wunlock")
                        /\ p[i].op = "wlock" => Section(p, i, "wunlock") /\ ~Section(p, i, "runlock")
                        /\ p[i].op \in {"runlock", "wunlock"} =>
                             ~Section(p, i, "runlock") /\ ~Section(p, i, "wunlock")
      BY <1>1, <1>7 DEF WellLocked
    <2>1. CASE i = 1
      BY <1>1, <1>5, <1>6, <1>8, <2>1
    <2>2. CASE i = 2
      BY <1>1, <1>2, <2>2 DEF LockOps
    <2>3. CASE i = 3
      BY <1>1, <1>4, <1>8, <2>3
    <2> QED
      BY <1>3, <2>1, <2>2, <2>3
  <1>10. ~InRead(p) /\ ~InWrite(p)
    <2>1. p # <<>>
      BY <1>1
    <2>2. p[1].op \in LockOps /\ p[1].op # "runlock" /\ p[1].op # "wunlock"
      BY <1>1, <1>2
    <2> QED
      BY ZenonT(30), <1>1, <1>8, <2>1, <2>2, SectionHead DEF InRead, InWrite
  <1>11. ASSUME b.op \in KeepingOps PROVE ~Deletes(p)
    <2>1. b.op # "delete" /\ b.op # "deleteRealm"
      BY <1>11 DEF KeepingOps
    <2> QED
      BY <1>1, <1>3, <2>1 DEF Deletes
  <1> QED
    BY <1>9, <1>10, <1>11

LEMMA LockStmts ==
  \A s \in {"rlock", "wlock", "runlock", "wunlock"} :
    /\ Do(s, "go", {}) \in DbStmt /\ Do(s, "go", {}).op = s
    /\ Do(s, "go", {}).good \notin DbStops /\ Do(s, "go", {}).bad \cap DbStops = {}
  <1>1. \A s \in {"rlock", "wlock", "runlock", "wunlock"} : s \in DbOp
    BY DEF DbOp, LockOps
  <1>2. "go" \notin DbStops
    BY DEF DbStops
  <1> QED
    BY <1>1, <1>2, OpSets, DoStmt

LEMMA SqliteForms ==
  ASSUME NEW d, NEW c, NEW op \in PlainOps, op \in KeepingOps \/ MayDelete(d, c)
  PROVE  DriverGood(d, c, Shared(op)) /\ DriverGood(d, c, Exclusive(op))
  <1>1. op \in DbOp
    BY OpSets
  <1>2. "ok" \notin DbStops /\ {"go"} \cap DbStops = {} /\ {"ok", "go"} \cap DbStops = {}
    BY DEF DbStops
  <1>3. PICK b : b = Do(op, "ok", {"go"})
    OBVIOUS
  <1>4. b \in DbStmt /\ b.op = op /\ b.good \notin DbStops /\ b.bad \cap DbStops = {}
    BY <1>1, <1>2, <1>3, OpSets, DoStmt
  <1>5. PICK w : w = Do(op, "ok", {"ok", "go"})
    OBVIOUS
  <1>6. w \in DbStmt /\ w.op = op /\ w.good \notin DbStops /\ w.bad \cap DbStops = {}
    BY <1>1, <1>2, <1>5, OpSets, DoStmt
  <1>7. DriverGood(d, c, Shared(op))
    <2>1. PICK a, e : a = Do("rlock", "go", {}) /\ e = Do("runlock", "go", {})
      OBVIOUS
    <2>2. /\ a \in DbStmt /\ a.op = "rlock" /\ a.good \notin DbStops /\ a.bad \cap DbStops = {}
          /\ e \in DbStmt /\ e.op = "runlock" /\ e.good \notin DbStops /\ e.bad \cap DbStops = {}
      BY <2>1, LockStmts
    <2>3. PICK p : p = <<a, b, e>>
      BY ZenonT(30)
    <2>4. \A s \in {a, b, e} : s.good \notin DbStops /\ s.bad \cap DbStops = {}
      BY <1>4, <2>2
    <2>5. WellLocked(p) /\ ~InRead(p) /\ ~InWrite(p) /\ (b.op \in KeepingOps => ~Deletes(p))
      BY <1>4, <2>2, <2>3, <2>4, LockedProgram
    <2>6. Shared(op) = p
      BY <1>3, <2>1, <2>3 DEF Shared
    <2> QED
      BY <1>4, <2>5, <2>6 DEF DriverGood
  <1>8. DriverGood(d, c, Exclusive(op))
    <2>1. PICK a, e : a = Do("wlock", "go", {}) /\ e = Do("wunlock", "go", {})
      OBVIOUS
    <2>2. /\ a \in DbStmt /\ a.op = "wlock" /\ a.good \notin DbStops /\ a.bad \cap DbStops = {}
          /\ e \in DbStmt /\ e.op = "wunlock" /\ e.good \notin DbStops /\ e.bad \cap DbStops = {}
      BY <2>1, LockStmts
    <2>3. PICK p : p = <<a, w, e>>
      BY ZenonT(30)
    <2>4. \A s \in {a, w, e} : s.good \notin DbStops /\ s.bad \cap DbStops = {}
      BY <1>6, <2>2
    <2>5. WellLocked(p) /\ ~InRead(p) /\ ~InWrite(p) /\ (w.op \in KeepingOps => ~Deletes(p))
      BY <1>6, <2>2, <2>3, <2>4, LockedProgram
    <2>6. Exclusive(op) = p
      BY <1>5, <2>1, <2>3 DEF Exclusive
    <2> QED
      BY <1>6, <2>5, <2>6 DEF DriverGood
  <1> QED
    BY <1>7, <1>8

(* reread_realms takes the lock twice.                                     *)
LEMMA SqliteReread ==
  ASSUME NEW d, NEW c
  PROVE  DriverGood(d, c, sqlite_reread_realms)
  <1>1. PICK a, e, o, f, n :
          /\ a = Do("rlock", "go", {}) /\ e = Do("runlock", "go", {})
          /\ o = Do("origins", "ok", {"go"}) /\ f = Do("defaults", "go", {})
          /\ n = Do("options", "ok", {"go"})
    OBVIOUS
  <1>2. "origins" \in DbOp /\ "defaults" \in DbOp /\ "options" \in DbOp
    BY DEF DbOp, PlainOps, KeepingOps
  <1>3. /\ a \in DbStmt /\ a.op = "rlock" /\ a.good = "go" /\ a.bad = {}
        /\ e \in DbStmt /\ e.op = "runlock" /\ e.good = "go" /\ e.bad = {}
    BY <1>1, LockStmts DEF Do
  <1>4. /\ o \in DbStmt /\ o.op = "origins" /\ o.good = "ok" /\ o.bad = {"go"}
        /\ f \in DbStmt /\ f.op = "defaults" /\ f.good = "go" /\ f.bad = {}
        /\ n \in DbStmt /\ n.op = "options" /\ n.good = "ok" /\ n.bad = {"go"}
    BY <1>1, <1>2, OpSets, DoStmt
  <1>5. PICK s, t, q, p : s = <<a, o, e>> /\ t = <<a, n, e>> /\ q = s \o <<f>> /\ p = q \o t
    BY ZenonT(30)
  <1>6. sqlite_reread_realms = p
    <2>1. Shared("origins") = s /\ Shared("options") = t
      BY <1>1, <1>5 DEF Shared
    <2> QED
      BY ZenonT(30), <1>1, <1>5, <2>1 DEF sqlite_reread_realms
  <1>7. /\ p \in Seq(DbStmt) /\ Len(p) = 7 /\ p[1] = a /\ p[2] = o /\ p[3] = e /\ p[4] = f
        /\ p[5] = a /\ p[6] = n /\ p[7] = e
    <2>1. /\ s \in Seq(DbStmt) /\ Len(s) = 3 /\ s[1] = a /\ s[2] = o /\ s[3] = e
          /\ t \in Seq(DbStmt) /\ Len(t) = 3 /\ t[1] = a /\ t[2] = n /\ t[3] = e
          /\ <<f>> \in Seq(DbStmt) /\ Len(<<f>>) = 1 /\ <<f>>[1] = f
      BY <1>3, <1>4, <1>5
    <2>2. /\ q \in Seq(DbStmt) /\ Len(q) = 4 /\ q[1] = a /\ q[2] = o /\ q[3] = e /\ q[4] = f
      BY <1>5, <2>1
    <2> QED
      BY <1>5, <2>1, <2>2
  <1>8. \A i \in 1 .. Len(p) : i \in {1, 2, 3, 4, 5, 6, 7}
    BY <1>7
  <1>9. \A i \in 1 .. Len(p) : /\ p[i].good \notin DbStops /\ p[i].bad \cap DbStops = {}
                               /\ p[i].op \notin {"delete", "deleteRealm", "wlock", "wunlock"}
    BY <1>3, <1>4, <1>7, <1>8 DEF DbStops
  <1>10. \A i \in Nat : ~Section(p, i, "wunlock")
    <2>1. \A i \in Nat : \A k \in i + 1 .. Len(p) : k \in 1 .. Len(p)
      BY <1>7
    <2> QED
      BY <1>9, <2>1 DEF Section
  <1>11. o.op \notin LockOps /\ n.op \notin LockOps /\ a.op \in LockOps
    BY <1>3, <1>4 DEF LockOps
  <1>12. Section(p, 1, "runlock")
    <2>1. 3 \in 1 + 1 .. Len(p) /\ \A j \in 1 + 1 .. 3 - 1 : j = 2
      BY <1>7
    <2> QED
      BY <1>3, <1>7, <1>11, <2>1 DEF Section
  <1>13. Section(p, 5, "runlock")
    <2>1. 7 \in 5 + 1 .. Len(p) /\ \A j \in 5 + 1 .. 7 - 1 : j = 6
      BY <1>7
    <2> QED
      BY <1>3, <1>7, <1>11, <2>1 DEF Section
  <1>14. ~Section(p, 3, "runlock")
    <2> SUFFICES ASSUME NEW k \in 3 + 1 .. Len(p), p[k].op = "runlock",
                        \A j \in 3 + 1 .. k - 1 : p[j].op \notin LockOps
                 PROVE  FALSE
      BY DEF Section
    <2>1. k \in {4, 5, 6, 7}
      BY <1>7
    <2>2. k = 7
      BY <1>3, <1>4, <1>7, <2>1
    <2>3. 5 \in 3 + 1 .. k - 1
      BY <2>2
    <2> QED
      BY <1>7, <1>11, <2>3
  <1>15. ~Section(p, 7, "runlock")
    BY <1>7 DEF Section
  <1>16. WellLocked(p)
    <2> SUFFICES ASSUME NEW i \in 1 .. Len(p)
                 PROVE  /\ p[i].op = "rlock" => Section(p, i, "runlock")
                        /\ p[i].op = "runlock" => ~Section(p, i, "runlock")
      BY <1>7, <1>9, <1>10 DEF WellLocked
    <2>1. p[i].op = "rlock" => i = 1 \/ i = 5
      BY <1>3, <1>4, <1>7, <1>8
    <2>2. p[i].op = "runlock" => i = 3 \/ i = 7
      BY <1>3, <1>4, <1>7, <1>8
    <2> QED
      BY <1>12, <1>13, <1>14, <1>15, <2>1, <2>2
  <1>17. ~InRead(p) /\ ~InWrite(p)
    <2>1. "runlock" \in LockOps /\ p[1].op \in LockOps /\ p[1].op # "runlock"
      BY <1>3, <1>7 DEF LockOps
    <2>2. p # <<>>
      BY <1>7
    <2> QED
      BY <1>7, <1>10, <2>1, <2>2, SectionHead DEF InRead, InWrite
  <1>18. ~Deletes(p)
    BY <1>9 DEF Deletes
  <1> QED
    BY <1>6, <1>16, <1>17, <1>18 DEF DriverGood

(* The forms of the drivers without a lock.                                *)
LEMMA PlainForms ==
  ASSUME NEW d, NEW c, NEW op \in PlainOps, op \in KeepingOps \/ MayDelete(d, c)
  PROVE  /\ DriverGood(d, c, Once(op)) /\ DriverGood(d, c, Regardless(op))
         /\ DriverGood(d, c, Reading(op)) /\ DriverGood(d, c, <<Do(op, "go", {"go"})>>)
         /\ DriverGood(d, c, <<Do(op, "ok", {"ok", "go"})>>) /\ DriverGood(d, c, Saved(op))
  <1>1. "save" \in KeepingOps /\ "save" \in PlainOps
    BY DEF KeepingOps, PlainOps
  <1>2. CASE op \in KeepingOps
    <2>1. /\ Uses(Once(op), KeepingOps) /\ Uses(Regardless(op), KeepingOps)
          /\ Uses(Reading(op), KeepingOps) /\ Uses(<<Do(op, "go", {"go"})>>, KeepingOps)
          /\ Uses(<<Do(op, "ok", {"ok", "go"})>>, KeepingOps) /\ Uses(Saved(op), KeepingOps)
      BY <1>1, <1>2, OpSets, SharedForms
    <2> QED
      BY <2>1, KeepingProgram
  <1>3. CASE MayDelete(d, c)
    <2>1. /\ Uses(Once(op), PlainOps) /\ Uses(Regardless(op), PlainOps)
          /\ Uses(Reading(op), PlainOps) /\ Uses(<<Do(op, "go", {"go"})>>, PlainOps)
          /\ Uses(<<Do(op, "ok", {"ok", "go"})>>, PlainOps) /\ Uses(Saved(op), PlainOps)
      BY <1>1, OpSets, SharedForms
    <2> QED
      BY <1>3, <2>1, RemovingProgram
  <1> QED
    BY <1>2, <1>3

LEMMA OtherForms ==
  ASSUME NEW d, NEW c
  PROVE  /\ DriverGood(d, c, <<>>)
         /\ DriverGood(d, c, InsertElseUpdate("okstop")) /\ DriverGood(d, c, InsertElseUpdate("stop"))
         /\ DriverGood(d, c, <<Do("scan", "okstop", {"go"}), Do("scan", "ok", {"go"})>>)
         /\ DriverGood(d, c, <<Do("keys", "go", {"go"}), Do("scan", "ok", {"ok"})>>)
         /\ DriverGood(d, c, <<Do("keys", "go", {"stop", "go"}), Do("scan", "ok", {"ok"})>>)
         /\ MayDelete(d, c) => DriverGood(d, c, DeleteThenInsert(c))
  BY OpSets, SetForms, UsesNone, KeepingProgram, RemovingProgram

LEMMA RereadForms ==
  ASSUME NEW d, NEW c
  PROVE  /\ DriverGood(d, c, mysql_reread_realms) /\ DriverGood(d, c, pgsql_reread_realms)
         /\ DriverGood(d, c, redis_reread_realms) /\ DriverGood(d, c, mongo_reread_realms)
  <1>1. ASSUME NEW op1 \in KeepingOps, NEW op2 \in KeepingOps, NEW op3 \in KeepingOps,
               NEW b1 \in SUBSET DbOut, NEW b2 \in SUBSET DbOut, NEW b3 \in SUBSET DbOut
        PROVE  Uses(<<Do(op1, "go", b1), Do(op2, "go", b2), Do(op3, "go", b3)>>, KeepingOps)
    <2>1. op1 \in DbOp /\ op2 \in DbOp /\ op3 \in DbOp
      BY OpSets
    <2>2. PICK e, f, g : e = Do(op1, "go", b1) /\ f = Do(op2, "go", b2) /\ g = Do(op3, "go", b3)
      OBVIOUS
    <2>3. e \in DbStmt /\ e.op = op1 /\ f \in DbStmt /\ f.op = op2 /\ g \in DbStmt /\ g.op = op3
      BY <2>1, <2>2, OpSets, DoStmt
    <2>4. Uses(<<e, f, g>>, KeepingOps)
      BY <2>3 DEF Uses
    <2> QED
      BY <2>2, <2>4
  <1>2. /\ "origins" \in KeepingOps /\ "defaults" \in KeepingOps /\ "options" \in KeepingOps
        /\ "keys" \in KeepingOps /\ "optionsOrDefaults" \in KeepingOps /\ "docs" \in KeepingOps
        /\ "docDefaults" \in KeepingOps /\ "docOptions" \in KeepingOps /\ "docOrigins" \in KeepingOps
    BY DEF KeepingOps
  <1>3. Uses(mysql_reread_realms, KeepingOps) /\ Uses(pgsql_reread_realms, KeepingOps)
    BY <1>1, <1>2, OpSets DEF mysql_reread_realms, pgsql_reread_realms
  <1>4. Uses(redis_reread_realms, KeepingOps)
    BY <1>1, <1>2, OpSets DEF redis_reread_realms
  <1>5. Uses(mongo_reread_realms, KeepingOps)
    <2>1. "docs" \in DbOp /\ "docDefaults" \in DbOp /\ "docOptions" \in DbOp /\ "docOrigins" \in DbOp
      BY <1>2, OpSets
    <2>2. PICK e, f, g, h : /\ e = Do("docs", "go", {"stop"}) /\ f = Do("docDefaults", "go", {})
                            /\ g = Do("docOptions", "go", {}) /\ h = Do("docOrigins", "go", {})
      OBVIOUS
    <2>3. /\ e \in DbStmt /\ e.op = "docs" /\ f \in DbStmt /\ f.op = "docDefaults"
          /\ g \in DbStmt /\ g.op = "docOptions" /\ h \in DbStmt /\ h.op = "docOrigins"
      BY <2>1, <2>2, OpSets, DoStmt
    <2>4. Uses(<<e, f, g, h>>, KeepingOps)
      BY <1>2, <2>3 DEF Uses
    <2> QED
      BY <2>2, <2>4 DEF mongo_reread_realms
  <1> QED
    BY <1>3, <1>4, <1>5, KeepingProgram

(* The operations the functions name.                                      *)
LEMMA NamedOps ==
  /\ "scan" \in KeepingOps /\ "find" \in KeepingOps /\ "any" \in KeepingOps
  /\ "insert" \in KeepingOps /\ "put" \in KeepingOps /\ "merge" \in KeepingOps
  /\ "noop" \in KeepingOps /\ "addToDoc" \in KeepingOps /\ "alterDoc" \in KeepingOps
  BY DEF KeepingOps


LEMMA mysql_good ==
  ASSUME NEW c \in DbCall
  PROVE  DriverGood("mysql", c, mysql_driver(c))
  <1>1. KeepingOps \subseteq PlainOps /\ "delete" \in PlainOps /\ "deleteRealm" \in PlainOps
    BY OpSets
  <1>2. /\ DriverGood("mysql", c, mysql_get_auth_secrets) /\ DriverGood("mysql", c, mysql_get_user_key)
        /\ DriverGood("mysql", c, mysql_get_oauth_key) /\ DriverGood("mysql", c, mysql_list_oauth_keys)
        /\ DriverGood("mysql", c, mysql_set_user_key) /\ DriverGood("mysql", c, mysql_set_oauth_key)
        /\ DriverGood("mysql", c, mysql_list_users) /\ DriverGood("mysql", c, mysql_list_secrets)
    BY ZenonT(30), <1>1, NamedOps, PlainForms, OtherForms
       DEF mysql_get_auth_secrets, mysql_get_user_key, mysql_get_oauth_key,
         mysql_list_oauth_keys, mysql_set_user_key, mysql_set_oauth_key, mysql_list_users,
         mysql_list_secrets
  <1>3. /\ DriverGood("mysql", c, mysql_add_origin) /\ DriverGood("mysql", c, mysql_list_origins)
        /\ DriverGood("mysql", c, mysql_list_realm_options) /\ DriverGood("mysql", c, mysql_auth_ping)
        /\ DriverGood("mysql", c, mysql_get_ip_list) /\ DriverGood("mysql", c, mysql_get_admin_user)
        /\ DriverGood("mysql", c, mysql_set_admin_user) /\ DriverGood("mysql", c, mysql_list_admin_users)
    BY ZenonT(30), <1>1, NamedOps, PlainForms, OtherForms
       DEF mysql_add_origin, mysql_list_origins, mysql_list_realm_options, mysql_auth_ping,
         mysql_get_ip_list, mysql_get_admin_user, mysql_set_admin_user, mysql_list_admin_users
  <1>4. ASSUME c.fn \in DbDeletion
        PROVE  /\ DriverGood("mysql", c, mysql_del_user) /\ DriverGood("mysql", c, mysql_del_oauth_key)
               /\ DriverGood("mysql", c, mysql_del_secret(c)) /\ DriverGood("mysql", c, mysql_del_origin)
               /\ DriverGood("mysql", c, mysql_del_admin_user)
    <2>1. MayDelete("mysql", c)
      BY <1>4, UserDbAssumption DEF MayDelete, Removes
    <2> QED
      BY ZenonT(30), <1>1, <2>1, NamedOps, PlainForms, OtherForms
         DEF mysql_del_user, mysql_del_oauth_key, mysql_del_secret, mysql_del_origin, mysql_del_admin_user
  <1>5. DriverGood("mysql", c, mysql_set_secret)
    BY ZenonT(30), <1>1, NamedOps, PlainForms, OtherForms DEF mysql_set_secret
  <1>6. DriverGood("mysql", c, mysql_set_permission_ip(c))
    <2>1. CASE c.val = Nothing
      <3>1. MayDelete("mysql", c)
        BY <2>1 DEF MayDelete, Removes
      <3> QED
        BY ZenonT(30), <1>1, <2>1, <3>1, PlainForms, OtherForms DEF mysql_set_permission_ip
    <2>2. CASE c.val # Nothing
      BY ZenonT(30), <1>1, <2>2, NamedOps, PlainForms, OtherForms DEF mysql_set_permission_ip
    <2> QED
      BY <2>1, <2>2
  <1>7. ASSUME c.fn = "set_realm_option_one" PROVE DriverGood("mysql", c, mysql_set_realm_option_one(c))
    <2>1. MayDelete("mysql", c)
      BY <1>7 DEF MayDelete
    <2> QED
      BY <2>1, OtherForms DEF mysql_set_realm_option_one
  <1>8. DriverGood("mysql", c, mysql_reread_realms)
    BY RereadForms
  <1>9. ASSUME c.fn \in
                {"get_auth_secrets", "get_user_key", "get_oauth_key", "list_oauth_keys",
                 "set_user_key", "set_oauth_key", "list_users", "list_secrets"}
        PROVE  DriverGood("mysql", c, mysql_driver(c))
    <2>1. PICK m : m = mysql_driver(c)
      OBVIOUS
    <2>2. /\ c.fn = "get_auth_secrets" => m = mysql_get_auth_secrets
          /\ c.fn = "get_user_key" => m = mysql_get_user_key
          /\ c.fn = "get_oauth_key" => m = mysql_get_oauth_key
          /\ c.fn = "list_oauth_keys" => m = mysql_list_oauth_keys
          /\ c.fn = "set_user_key" => m = mysql_set_user_key
          /\ c.fn = "set_oauth_key" => m = mysql_set_oauth_key
          /\ c.fn = "list_users" => m = mysql_list_users
          /\ c.fn = "list_secrets" => m = mysql_list_secrets
      BY <2>1 DEF mysql_driver
    <2>3. DriverGood("mysql", c, m)
      BY <1>2, <1>9, <2>2
    <2> QED
      BY <2>1, <2>3
  <1>10. ASSUME c.fn \in
                {"add_origin", "list_origins", "list_realm_options", "auth_ping",
                 "get_ip_list", "get_admin_user", "set_admin_user", "list_admin_users"}
        PROVE  DriverGood("mysql", c, mysql_driver(c))
    <2>1. PICK m : m = mysql_driver(c)
      OBVIOUS
    <2>2. /\ c.fn = "add_origin" => m = mysql_add_origin
          /\ c.fn = "list_origins" => m = mysql_list_origins
          /\ c.fn = "list_realm_options" => m = mysql_list_realm_options
          /\ c.fn = "auth_ping" => m = mysql_auth_ping
          /\ c.fn = "get_ip_list" => m = mysql_get_ip_list
          /\ c.fn = "get_admin_user" => m = mysql_get_admin_user
          /\ c.fn = "set_admin_user" => m = mysql_set_admin_user
          /\ c.fn = "list_admin_users" => m = mysql_list_admin_users
      BY <2>1 DEF mysql_driver
    <2>3. DriverGood("mysql", c, m)
      BY <1>3, <1>10, <2>2
    <2> QED
      BY <2>1, <2>3
  <1>11. ASSUME c.fn \in
                {"del_user", "del_oauth_key", "del_secret", "del_origin", "del_admin_user"}
        PROVE  DriverGood("mysql", c, mysql_driver(c))
    <2>1. PICK m : m = mysql_driver(c)
      OBVIOUS
    <2>2. /\ c.fn = "del_user" => m = mysql_del_user
          /\ c.fn = "del_oauth_key" => m = mysql_del_oauth_key
          /\ c.fn = "del_secret" => m = mysql_del_secret(c)
          /\ c.fn = "del_origin" => m = mysql_del_origin
          /\ c.fn = "del_admin_user" => m = mysql_del_admin_user
      BY <2>1 DEF mysql_driver
    <2>3. DriverGood("mysql", c, m)
      BY <1>4, <1>11, <2>2 DEF DbDeletion
    <2> QED
      BY <2>1, <2>3
  <1>12. ASSUME c.fn \in
                {"set_secret", "set_permission_ip", "set_realm_option_one", "reread_realms"}
        PROVE  DriverGood("mysql", c, mysql_driver(c))
    <2>1. PICK m : m = mysql_driver(c)
      OBVIOUS
    <2>2. /\ c.fn = "set_secret" => m = mysql_set_secret
          /\ c.fn = "set_permission_ip" => m = mysql_set_permission_ip(c)
          /\ c.fn = "set_realm_option_one" => m = mysql_set_realm_option_one(c)
          /\ c.fn = "reread_realms" => m = mysql_reread_realms
      BY <2>1 DEF mysql_driver
    <2>3. DriverGood("mysql", c, m)
      BY <1>5, <1>6, <1>7, <1>8, <1>12, <2>2
    <2> QED
      BY <2>1, <2>3
  <1> QED
    BY <1>9, <1>10, <1>11, <1>12, UserDbAssumption DEF DbFunction, DbDeletion

LEMMA pgsql_good ==
  ASSUME NEW c \in DbCall
  PROVE  DriverGood("pgsql", c, pgsql_driver(c))
  <1>1. KeepingOps \subseteq PlainOps /\ "delete" \in PlainOps /\ "deleteRealm" \in PlainOps
    BY OpSets
  <1>2. /\ DriverGood("pgsql", c, pgsql_get_auth_secrets) /\ DriverGood("pgsql", c, pgsql_get_user_key)
        /\ DriverGood("pgsql", c, pgsql_get_oauth_key) /\ DriverGood("pgsql", c, pgsql_list_oauth_keys)
        /\ DriverGood("pgsql", c, pgsql_set_user_key) /\ DriverGood("pgsql", c, pgsql_set_oauth_key)
        /\ DriverGood("pgsql", c, pgsql_list_users) /\ DriverGood("pgsql", c, pgsql_list_secrets)
    BY ZenonT(30), <1>1, NamedOps, PlainForms, OtherForms
       DEF pgsql_get_auth_secrets, pgsql_get_user_key, pgsql_get_oauth_key,
         pgsql_list_oauth_keys, pgsql_set_user_key, pgsql_set_oauth_key, pgsql_list_users,
         pgsql_list_secrets
  <1>3. /\ DriverGood("pgsql", c, pgsql_add_origin) /\ DriverGood("pgsql", c, pgsql_list_origins)
        /\ DriverGood("pgsql", c, pgsql_list_realm_options) /\ DriverGood("pgsql", c, pgsql_auth_ping)
        /\ DriverGood("pgsql", c, pgsql_get_ip_list) /\ DriverGood("pgsql", c, pgsql_get_admin_user)
        /\ DriverGood("pgsql", c, pgsql_set_admin_user) /\ DriverGood("pgsql", c, pgsql_list_admin_users)
    BY ZenonT(30), <1>1, NamedOps, PlainForms, OtherForms
       DEF pgsql_add_origin, pgsql_list_origins, pgsql_list_realm_options, pgsql_auth_ping,
         pgsql_get_ip_list, pgsql_get_admin_user, pgsql_set_admin_user, pgsql_list_admin_users
  <1>4. ASSUME c.fn \in DbDeletion
        PROVE  /\ DriverGood("pgsql", c, pgsql_del_user) /\ DriverGood("pgsql", c, pgsql_del_oauth_key)
               /\ DriverGood("pgsql", c, pgsql_del_secret(c)) /\ DriverGood("pgsql", c, pgsql_del_origin)
               /\ DriverGood("pgsql", c, pgsql_del_admin_user)
    <2>1. MayDelete("pgsql", c)
      BY <1>4, UserDbAssumption DEF MayDelete, Removes
    <2> QED
      BY ZenonT(30), <1>1, <2>1, NamedOps, PlainForms, OtherForms
         DEF pgsql_del_user, pgsql_del_oauth_key, pgsql_del_secret, pgsql_del_origin, pgsql_del_admin_user
  <1>5. DriverGood("pgsql", c, pgsql_set_secret)
    BY ZenonT(30), <1>1, NamedOps, PlainForms, OtherForms DEF pgsql_set_secret
  <1>6. DriverGood("pgsql", c, pgsql_set_permission_ip(c))
    <2>1. CASE c.val = Nothing
      <3>1. MayDelete("pgsql", c)
        BY <2>1 DEF MayDelete, Removes
      <3> QED
        BY ZenonT(30), <1>1, <2>1, <3>1, PlainForms, OtherForms DEF pgsql_set_permission_ip
    <2>2. CASE c.val # Nothing
      BY ZenonT(30), <1>1, <2>2, NamedOps, PlainForms, OtherForms DEF pgsql_set_permission_ip
    <2> QED
      BY <2>1, <2>2
  <1>7. ASSUME c.fn = "set_realm_option_one" PROVE DriverGood("pgsql", c, pgsql_set_realm_option_one(c))
    <2>1. MayDelete("pgsql", c)
      BY <1>7 DEF MayDelete
    <2> QED
      BY <2>1, OtherForms DEF pgsql_set_realm_option_one
  <1>8. DriverGood("pgsql", c, pgsql_reread_realms)
    BY RereadForms
  <1>9. ASSUME c.fn \in
                {"get_auth_secrets", "get_user_key", "get_oauth_key", "list_oauth_keys",
                 "set_user_key", "set_oauth_key", "list_users", "list_secrets"}
        PROVE  DriverGood("pgsql", c, pgsql_driver(c))
    <2>1. PICK m : m = pgsql_driver(c)
      OBVIOUS
    <2>2. /\ c.fn = "get_auth_secrets" => m = pgsql_get_auth_secrets
          /\ c.fn = "get_user_key" => m = pgsql_get_user_key
          /\ c.fn = "get_oauth_key" => m = pgsql_get_oauth_key
          /\ c.fn = "list_oauth_keys" => m = pgsql_list_oauth_keys
          /\ c.fn = "set_user_key" => m = pgsql_set_user_key
          /\ c.fn = "set_oauth_key" => m = pgsql_set_oauth_key
          /\ c.fn = "list_users" => m = pgsql_list_users
          /\ c.fn = "list_secrets" => m = pgsql_list_secrets
      BY <2>1 DEF pgsql_driver
    <2>3. DriverGood("pgsql", c, m)
      BY <1>2, <1>9, <2>2
    <2> QED
      BY <2>1, <2>3
  <1>10. ASSUME c.fn \in
                {"add_origin", "list_origins", "list_realm_options", "auth_ping",
                 "get_ip_list", "get_admin_user", "set_admin_user", "list_admin_users"}
        PROVE  DriverGood("pgsql", c, pgsql_driver(c))
    <2>1. PICK m : m = pgsql_driver(c)
      OBVIOUS
    <2>2. /\ c.fn = "add_origin" => m = pgsql_add_origin
          /\ c.fn = "list_origins" => m = pgsql_list_origins
          /\ c.fn = "list_realm_options" => m = pgsql_list_realm_options
          /\ c.fn = "auth_ping" => m = pgsql_auth_ping
          /\ c.fn = "get_ip_list" => m = pgsql_get_ip_list
          /\ c.fn = "get_admin_user" => m = pgsql_get_admin_user
          /\ c.fn = "set_admin_user" => m = pgsql_set_admin_user
          /\ c.fn = "list_admin_users" => m = pgsql_list_admin_users
      BY <2>1 DEF pgsql_driver
    <2>3. DriverGood("pgsql", c, m)
      BY <1>3, <1>10, <2>2
    <2> QED
      BY <2>1, <2>3
  <1>11. ASSUME c.fn \in
                {"del_user", "del_oauth_key", "del_secret", "del_origin", "del_admin_user"}
        PROVE  DriverGood("pgsql", c, pgsql_driver(c))
    <2>1. PICK m : m = pgsql_driver(c)
      OBVIOUS
    <2>2. /\ c.fn = "del_user" => m = pgsql_del_user
          /\ c.fn = "del_oauth_key" => m = pgsql_del_oauth_key
          /\ c.fn = "del_secret" => m = pgsql_del_secret(c)
          /\ c.fn = "del_origin" => m = pgsql_del_origin
          /\ c.fn = "del_admin_user" => m = pgsql_del_admin_user
      BY <2>1 DEF pgsql_driver
    <2>3. DriverGood("pgsql", c, m)
      BY <1>4, <1>11, <2>2 DEF DbDeletion
    <2> QED
      BY <2>1, <2>3
  <1>12. ASSUME c.fn \in
                {"set_secret", "set_permission_ip", "set_realm_option_one", "reread_realms"}
        PROVE  DriverGood("pgsql", c, pgsql_driver(c))
    <2>1. PICK m : m = pgsql_driver(c)
      OBVIOUS
    <2>2. /\ c.fn = "set_secret" => m = pgsql_set_secret
          /\ c.fn = "set_permission_ip" => m = pgsql_set_permission_ip(c)
          /\ c.fn = "set_realm_option_one" => m = pgsql_set_realm_option_one(c)
          /\ c.fn = "reread_realms" => m = pgsql_reread_realms
      BY <2>1 DEF pgsql_driver
    <2>3. DriverGood("pgsql", c, m)
      BY <1>5, <1>6, <1>7, <1>8, <1>12, <2>2
    <2> QED
      BY <2>1, <2>3
  <1> QED
    BY <1>9, <1>10, <1>11, <1>12, UserDbAssumption DEF DbFunction, DbDeletion

LEMMA sqlite_good ==
  ASSUME NEW c \in DbCall
  PROVE  DriverGood("sqlite", c, sqlite_driver(c))
  <1>1. KeepingOps \subseteq PlainOps /\ "delete" \in PlainOps /\ "deleteRealm" \in PlainOps
    BY OpSets
  <1>2. /\ DriverGood("sqlite", c, sqlite_get_auth_secrets) /\ DriverGood("sqlite", c, sqlite_get_user_key)
        /\ DriverGood("sqlite", c, sqlite_get_oauth_key) /\ DriverGood("sqlite", c, sqlite_list_oauth_keys)
        /\ DriverGood("sqlite", c, sqlite_set_user_key) /\ DriverGood("sqlite", c, sqlite_set_oauth_key)
        /\ DriverGood("sqlite", c, sqlite_list_users)
    BY <1>1, NamedOps, SqliteForms
       DEF sqlite_get_auth_secrets, sqlite_get_user_key, sqlite_get_oauth_key,
         sqlite_list_oauth_keys, sqlite_set_user_key, sqlite_set_oauth_key, sqlite_list_users
  <1>3. /\ DriverGood("sqlite", c, sqlite_list_secrets) /\ DriverGood("sqlite", c, sqlite_add_origin)
        /\ DriverGood("sqlite", c, sqlite_list_origins) /\ DriverGood("sqlite", c, sqlite_list_realm_options)
        /\ DriverGood("sqlite", c, sqlite_get_ip_list) /\ DriverGood("sqlite", c, sqlite_get_admin_user)
        /\ DriverGood("sqlite", c, sqlite_set_admin_user) /\ DriverGood("sqlite", c, sqlite_list_admin_users)
    BY <1>1, NamedOps, SqliteForms
       DEF sqlite_list_secrets, sqlite_add_origin, sqlite_list_origins,
         sqlite_list_realm_options, sqlite_get_ip_list, sqlite_get_admin_user,
         sqlite_set_admin_user, sqlite_list_admin_users
  <1>4. ASSUME c.fn \in DbDeletion
        PROVE  /\ DriverGood("sqlite", c, sqlite_del_user) /\ DriverGood("sqlite", c, sqlite_del_oauth_key)
               /\ DriverGood("sqlite", c, sqlite_del_secret(c)) /\ DriverGood("sqlite", c, sqlite_del_origin)
               /\ DriverGood("sqlite", c, sqlite_del_admin_user)
    <2>1. MayDelete("sqlite", c)
      BY <1>4, UserDbAssumption DEF MayDelete, Removes
    <2> QED
      BY <1>1, <2>1, NamedOps, SqliteForms
         DEF sqlite_del_user, sqlite_del_oauth_key, sqlite_del_secret, sqlite_del_origin, sqlite_del_admin_user
  <1>5. DriverGood("sqlite", c, sqlite_set_secret)
    BY <1>1, NamedOps, OtherForms, SqliteForms DEF sqlite_set_secret
  <1>6. DriverGood("sqlite", c, sqlite_set_permission_ip(c))
    <2>1. CASE c.val = Nothing
      <3>1. MayDelete("sqlite", c)
        BY <2>1 DEF MayDelete, Removes
      <3> QED
        BY <1>1, <2>1, <3>1, SqliteForms, OtherForms DEF sqlite_set_permission_ip
    <2>2. CASE c.val # Nothing
      BY <1>1, <2>2, NamedOps, SqliteForms DEF sqlite_set_permission_ip
    <2> QED
      BY <2>1, <2>2
  <1>7. DriverGood("sqlite", c, sqlite_set_realm_option_one(c))
    <2>1. CASE c.val = Nothing
      <3>1. MayDelete("sqlite", c)
        BY <2>1 DEF MayDelete, Removes
      <3> QED
        BY <1>1, <2>1, <3>1, SqliteForms, OtherForms DEF sqlite_set_realm_option_one
    <2>2. CASE c.val # Nothing
      BY <1>1, <2>2, NamedOps, SqliteForms DEF sqlite_set_realm_option_one
    <2> QED
      BY <2>1, <2>2
  <1>8. DriverGood("sqlite", c, sqlite_auth_ping)
    BY <1>1, NamedOps, OtherForms, SqliteForms DEF sqlite_auth_ping
  <1>9. DriverGood("sqlite", c, sqlite_reread_realms)
    BY SqliteReread
  <1>10. ASSUME c.fn \in
                {"get_auth_secrets", "get_user_key", "get_oauth_key", "list_oauth_keys",
                 "set_user_key", "set_oauth_key", "list_users"}
        PROVE  DriverGood("sqlite", c, sqlite_driver(c))
    <2>1. PICK m : m = sqlite_driver(c)
      OBVIOUS
    <2>2. /\ c.fn = "get_auth_secrets" => m = sqlite_get_auth_secrets
          /\ c.fn = "get_user_key" => m = sqlite_get_user_key
          /\ c.fn = "get_oauth_key" => m = sqlite_get_oauth_key
          /\ c.fn = "list_oauth_keys" => m = sqlite_list_oauth_keys
          /\ c.fn = "set_user_key" => m = sqlite_set_user_key
          /\ c.fn = "set_oauth_key" => m = sqlite_set_oauth_key
          /\ c.fn = "list_users" => m = sqlite_list_users
      BY <2>1 DEF sqlite_driver
    <2>3. DriverGood("sqlite", c, m)
      BY <1>2, <1>10, <2>2
    <2> QED
      BY <2>1, <2>3
  <1>11. ASSUME c.fn \in
                {"list_secrets", "add_origin", "list_origins", "list_realm_options",
                 "get_ip_list", "get_admin_user", "set_admin_user", "list_admin_users"}
        PROVE  DriverGood("sqlite", c, sqlite_driver(c))
    <2>1. PICK m : m = sqlite_driver(c)
      OBVIOUS
    <2>2. /\ c.fn = "list_secrets" => m = sqlite_list_secrets
          /\ c.fn = "add_origin" => m = sqlite_add_origin
          /\ c.fn = "list_origins" => m = sqlite_list_origins
          /\ c.fn = "list_realm_options" => m = sqlite_list_realm_options
          /\ c.fn = "get_ip_list" => m = sqlite_get_ip_list
          /\ c.fn = "get_admin_user" => m = sqlite_get_admin_user
          /\ c.fn = "set_admin_user" => m = sqlite_set_admin_user
          /\ c.fn = "list_admin_users" => m = sqlite_list_admin_users
      BY <2>1 DEF sqlite_driver
    <2>3. DriverGood("sqlite", c, m)
      BY <1>3, <1>11, <2>2
    <2> QED
      BY <2>1, <2>3
  <1>12. ASSUME c.fn \in
                {"del_user", "del_oauth_key", "del_secret", "del_origin", "del_admin_user"}
        PROVE  DriverGood("sqlite", c, sqlite_driver(c))
    <2>1. PICK m : m = sqlite_driver(c)
      OBVIOUS
    <2>2. /\ c.fn = "del_user" => m = sqlite_del_user
          /\ c.fn = "del_oauth_key" => m = sqlite_del_oauth_key
          /\ c.fn = "del_secret" => m = sqlite_del_secret(c)
          /\ c.fn = "del_origin" => m = sqlite_del_origin
          /\ c.fn = "del_admin_user" => m = sqlite_del_admin_user
      BY <2>1 DEF sqlite_driver
    <2>3. DriverGood("sqlite", c, m)
      BY <1>4, <1>12, <2>2 DEF DbDeletion
    <2> QED
      BY <2>1, <2>3
  <1>13. ASSUME c.fn \in
                {"set_secret", "set_permission_ip", "set_realm_option_one", "auth_ping",
                 "reread_realms"}
        PROVE  DriverGood("sqlite", c, sqlite_driver(c))
    <2>1. PICK m : m = sqlite_driver(c)
      OBVIOUS
    <2>2. /\ c.fn = "set_secret" => m = sqlite_set_secret
          /\ c.fn = "set_permission_ip" => m = sqlite_set_permission_ip(c)
          /\ c.fn = "set_realm_option_one" => m = sqlite_set_realm_option_one(c)
          /\ c.fn = "auth_ping" => m = sqlite_auth_ping
          /\ c.fn = "reread_realms" => m = sqlite_reread_realms
      BY <2>1 DEF sqlite_driver
    <2>3. DriverGood("sqlite", c, m)
      BY <1>5, <1>6, <1>7, <1>8, <1>9, <1>13, <2>2
    <2> QED
      BY <2>1, <2>3
  <1> QED
    BY <1>10, <1>11, <1>12, <1>13, UserDbAssumption DEF DbFunction, DbDeletion

LEMMA redis_good ==
  ASSUME NEW c \in DbCall
  PROVE  DriverGood("redis", c, redis_driver(c))
  <1>1. KeepingOps \subseteq PlainOps /\ "delete" \in PlainOps /\ "deleteRealm" \in PlainOps
    BY OpSets
  <1>2. /\ DriverGood("redis", c, redis_get_auth_secrets) /\ DriverGood("redis", c, redis_get_user_key)
        /\ DriverGood("redis", c, redis_get_oauth_key) /\ DriverGood("redis", c, redis_list_oauth_keys)
        /\ DriverGood("redis", c, redis_set_user_key) /\ DriverGood("redis", c, redis_set_oauth_key)
        /\ DriverGood("redis", c, redis_list_users) /\ DriverGood("redis", c, redis_list_secrets)
    BY ZenonT(30), <1>1, NamedOps, PlainForms, OtherForms
       DEF redis_get_auth_secrets, redis_get_user_key, redis_get_oauth_key,
         redis_list_oauth_keys, redis_set_user_key, redis_set_oauth_key, redis_list_users,
         redis_list_secrets
  <1>3. /\ DriverGood("redis", c, redis_add_origin) /\ DriverGood("redis", c, redis_list_origins)
        /\ DriverGood("redis", c, redis_list_realm_options) /\ DriverGood("redis", c, redis_auth_ping)
        /\ DriverGood("redis", c, redis_get_ip_list) /\ DriverGood("redis", c, redis_get_admin_user)
        /\ DriverGood("redis", c, redis_set_admin_user) /\ DriverGood("redis", c, redis_list_admin_users)
    BY ZenonT(30), <1>1, NamedOps, PlainForms, OtherForms
       DEF redis_add_origin, redis_list_origins, redis_list_realm_options, redis_auth_ping,
         redis_get_ip_list, redis_get_admin_user, redis_set_admin_user, redis_list_admin_users
  <1>4. ASSUME c.fn \in DbDeletion
        PROVE  /\ DriverGood("redis", c, redis_del_user) /\ DriverGood("redis", c, redis_del_oauth_key)
               /\ DriverGood("redis", c, redis_del_secret(c)) /\ DriverGood("redis", c, redis_del_origin)
               /\ DriverGood("redis", c, redis_del_admin_user)
    <2>1. MayDelete("redis", c)
      BY <1>4, UserDbAssumption DEF MayDelete, Removes
    <2> QED
      BY ZenonT(30), <1>1, <2>1, NamedOps, PlainForms, OtherForms
         DEF redis_del_user, redis_del_oauth_key, redis_del_secret, redis_del_origin, redis_del_admin_user
  <1>5. ASSUME c.fn = "set_secret" PROVE DriverGood("redis", c, redis_set_secret(c))
    <2>1. MayDelete("redis", c)
      BY <1>5 DEF MayDelete
    <2>2. Uses(redis_del_secret(c), PlainOps) /\ Uses(Saved("put"), PlainOps)
      <3>1. "save" \in PlainOps /\ "noop" \in PlainOps /\ "put" \in PlainOps
        BY DEF PlainOps, KeepingOps
      <3> QED
        BY ZenonT(30), <1>1, <3>1, OpSets, SharedForms DEF redis_del_secret
    <2> QED
      BY <2>1, <2>2, UsesBoth, RemovingProgram DEF redis_set_secret
  <1>6. DriverGood("redis", c, redis_set_permission_ip(c))
    <2>1. CASE c.val = Nothing
      <3>1. MayDelete("redis", c)
        BY <2>1 DEF MayDelete, Removes
      <3> QED
        BY ZenonT(30), <1>1, <2>1, <3>1, PlainForms, OtherForms DEF redis_set_permission_ip
    <2>2. CASE c.val # Nothing
      BY ZenonT(30), <1>1, <2>2, NamedOps, PlainForms, OtherForms DEF redis_set_permission_ip
    <2> QED
      BY <2>1, <2>2
  <1>7. DriverGood("redis", c, redis_set_realm_option_one(c))
    <2>1. CASE c.val = Nothing
      <3>1. MayDelete("redis", c)
        BY <2>1 DEF MayDelete, Removes
      <3> QED
        BY ZenonT(30), <1>1, <2>1, <3>1, PlainForms, OtherForms DEF redis_set_realm_option_one
    <2>2. CASE c.val # Nothing
      BY ZenonT(30), <1>1, <2>2, NamedOps, PlainForms, OtherForms DEF redis_set_realm_option_one
    <2> QED
      BY <2>1, <2>2
  <1>8. DriverGood("redis", c, redis_reread_realms)
    BY RereadForms
  <1>9. ASSUME c.fn \in
                {"get_auth_secrets", "get_user_key", "get_oauth_key", "list_oauth_keys",
                 "set_user_key", "set_oauth_key", "list_users", "list_secrets"}
        PROVE  DriverGood("redis", c, redis_driver(c))
    <2>1. PICK m : m = redis_driver(c)
      OBVIOUS
    <2>2. /\ c.fn = "get_auth_secrets" => m = redis_get_auth_secrets
          /\ c.fn = "get_user_key" => m = redis_get_user_key
          /\ c.fn = "get_oauth_key" => m = redis_get_oauth_key
          /\ c.fn = "list_oauth_keys" => m = redis_list_oauth_keys
          /\ c.fn = "set_user_key" => m = redis_set_user_key
          /\ c.fn = "set_oauth_key" => m = redis_set_oauth_key
          /\ c.fn = "list_users" => m = redis_list_users
          /\ c.fn = "list_secrets" => m = redis_list_secrets
      BY <2>1 DEF redis_driver
    <2>3. DriverGood("redis", c, m)
      BY <1>2, <1>9, <2>2
    <2> QED
      BY <2>1, <2>3
  <1>10. ASSUME c.fn \in
                {"add_origin", "list_origins", "list_realm_options", "auth_ping",
                 "get_ip_list", "get_admin_user", "set_admin_user", "list_admin_users"}
        PROVE  DriverGood("redis", c, redis_driver(c))
    <2>1. PICK m : m = redis_driver(c)
      OBVIOUS
    <2>2. /\ c.fn = "add_origin" => m = redis_add_origin
          /\ c.fn = "list_origins" => m = redis_list_origins
          /\ c.fn = "list_realm_options" => m = redis_list_realm_options
          /\ c.fn = "auth_ping" => m = redis_auth_ping
          /\ c.fn = "get_ip_list" => m = redis_get_ip_list
          /\ c.fn = "get_admin_user" => m = redis_get_admin_user
          /\ c.fn = "set_admin_user" => m = redis_set_admin_user
          /\ c.fn = "list_admin_users" => m = redis_list_admin_users
      BY <2>1 DEF redis_driver
    <2>3. DriverGood("redis", c, m)
      BY <1>3, <1>10, <2>2
    <2> QED
      BY <2>1, <2>3
  <1>11. ASSUME c.fn \in
                {"del_user", "del_oauth_key", "del_secret", "del_origin", "del_admin_user"}
        PROVE  DriverGood("redis", c, redis_driver(c))
    <2>1. PICK m : m = redis_driver(c)
      OBVIOUS
    <2>2. /\ c.fn = "del_user" => m = redis_del_user
          /\ c.fn = "del_oauth_key" => m = redis_del_oauth_key
          /\ c.fn = "del_secret" => m = redis_del_secret(c)
          /\ c.fn = "del_origin" => m = redis_del_origin
          /\ c.fn = "del_admin_user" => m = redis_del_admin_user
      BY <2>1 DEF redis_driver
    <2>3. DriverGood("redis", c, m)
      BY <1>4, <1>11, <2>2 DEF DbDeletion
    <2> QED
      BY <2>1, <2>3
  <1>12. ASSUME c.fn \in
                {"set_secret", "set_permission_ip", "set_realm_option_one", "reread_realms"}
        PROVE  DriverGood("redis", c, redis_driver(c))
    <2>1. PICK m : m = redis_driver(c)
      OBVIOUS
    <2>2. /\ c.fn = "set_secret" => m = redis_set_secret(c)
          /\ c.fn = "set_permission_ip" => m = redis_set_permission_ip(c)
          /\ c.fn = "set_realm_option_one" => m = redis_set_realm_option_one(c)
          /\ c.fn = "reread_realms" => m = redis_reread_realms
      BY <2>1 DEF redis_driver
    <2>3. DriverGood("redis", c, m)
      BY <1>5, <1>6, <1>7, <1>8, <1>12, <2>2
    <2> QED
      BY <2>1, <2>3
  <1> QED
    BY <1>9, <1>10, <1>11, <1>12, UserDbAssumption DEF DbFunction, DbDeletion

LEMMA mongo_good ==
  ASSUME NEW c \in DbCall
  PROVE  DriverGood("mongo", c, mongo_driver(c))
  <1>1. KeepingOps \subseteq PlainOps /\ "delete" \in PlainOps /\ "deleteRealm" \in PlainOps
    BY OpSets
  <1>2. /\ DriverGood("mongo", c, mongo_get_auth_secrets) /\ DriverGood("mongo", c, mongo_get_user_key)
        /\ DriverGood("mongo", c, mongo_get_oauth_key) /\ DriverGood("mongo", c, mongo_list_oauth_keys)
        /\ DriverGood("mongo", c, mongo_set_user_key) /\ DriverGood("mongo", c, mongo_set_oauth_key)
        /\ DriverGood("mongo", c, mongo_list_users)
    BY ZenonT(30), <1>1, NamedOps, PlainForms, OtherForms
       DEF mongo_get_auth_secrets, mongo_get_user_key, mongo_get_oauth_key,
         mongo_list_oauth_keys, mongo_set_user_key, mongo_set_oauth_key, mongo_list_users
  <1>3. /\ DriverGood("mongo", c, mongo_list_secrets) /\ DriverGood("mongo", c, mongo_add_origin)
        /\ DriverGood("mongo", c, mongo_list_origins) /\ DriverGood("mongo", c, mongo_list_realm_options)
        /\ DriverGood("mongo", c, mongo_get_ip_list) /\ DriverGood("mongo", c, mongo_get_admin_user)
        /\ DriverGood("mongo", c, mongo_set_admin_user) /\ DriverGood("mongo", c, mongo_list_admin_users)
    BY ZenonT(30), <1>1, NamedOps, PlainForms, OtherForms
       DEF mongo_list_secrets, mongo_add_origin, mongo_list_origins, mongo_list_realm_options,
         mongo_get_ip_list, mongo_get_admin_user, mongo_set_admin_user, mongo_list_admin_users
  <1>4. ASSUME c.fn \in DbDeletion
        PROVE  /\ DriverGood("mongo", c, mongo_del_user) /\ DriverGood("mongo", c, mongo_del_oauth_key)
               /\ DriverGood("mongo", c, mongo_del_secret(c)) /\ DriverGood("mongo", c, mongo_del_origin)
               /\ DriverGood("mongo", c, mongo_del_admin_user)
    <2>1. MayDelete("mongo", c)
      BY <1>4, UserDbAssumption DEF MayDelete, Removes
    <2> QED
      BY ZenonT(30), <1>1, <2>1, NamedOps, PlainForms, OtherForms
         DEF mongo_del_user, mongo_del_oauth_key, mongo_del_secret, mongo_del_origin, mongo_del_admin_user
  <1>5. DriverGood("mongo", c, mongo_set_secret)
    BY ZenonT(30), <1>1, NamedOps, PlainForms, OtherForms DEF mongo_set_secret
  <1>6. DriverGood("mongo", c, mongo_set_permission_ip(c))
    <2>1. CASE c.val = Nothing
      <3>1. MayDelete("mongo", c)
        BY <2>1 DEF MayDelete, Removes
      <3> QED
        BY ZenonT(30), <1>1, <2>1, <3>1, PlainForms, OtherForms DEF mongo_set_permission_ip
    <2>2. CASE c.val # Nothing
      BY ZenonT(30), <1>1, <2>2, NamedOps, PlainForms, OtherForms DEF mongo_set_permission_ip
    <2> QED
      BY <2>1, <2>2
  <1>7. DriverGood("mongo", c, mongo_set_realm_option_one(c))
    BY ZenonT(30), <1>1, NamedOps, PlainForms, OtherForms DEF mongo_set_realm_option_one
  <1>8. DriverGood("mongo", c, mongo_auth_ping)
    BY <1>1, NamedOps, PlainForms, OtherForms DEF mongo_auth_ping
  <1>9. DriverGood("mongo", c, mongo_reread_realms)
    BY RereadForms
  <1>10. ASSUME c.fn \in
                {"get_auth_secrets", "get_user_key", "get_oauth_key", "list_oauth_keys",
                 "set_user_key", "set_oauth_key", "list_users"}
        PROVE  DriverGood("mongo", c, mongo_driver(c))
    <2>1. PICK m : m = mongo_driver(c)
      OBVIOUS
    <2>2. /\ c.fn = "get_auth_secrets" => m = mongo_get_auth_secrets
          /\ c.fn = "get_user_key" => m = mongo_get_user_key
          /\ c.fn = "get_oauth_key" => m = mongo_get_oauth_key
          /\ c.fn = "list_oauth_keys" => m = mongo_list_oauth_keys
          /\ c.fn = "set_user_key" => m = mongo_set_user_key
          /\ c.fn = "set_oauth_key" => m = mongo_set_oauth_key
          /\ c.fn = "list_users" => m = mongo_list_users
      BY <2>1 DEF mongo_driver
    <2>3. DriverGood("mongo", c, m)
      BY <1>2, <1>10, <2>2
    <2> QED
      BY <2>1, <2>3
  <1>11. ASSUME c.fn \in
                {"list_secrets", "add_origin", "list_origins", "list_realm_options",
                 "get_ip_list", "get_admin_user", "set_admin_user", "list_admin_users"}
        PROVE  DriverGood("mongo", c, mongo_driver(c))
    <2>1. PICK m : m = mongo_driver(c)
      OBVIOUS
    <2>2. /\ c.fn = "list_secrets" => m = mongo_list_secrets
          /\ c.fn = "add_origin" => m = mongo_add_origin
          /\ c.fn = "list_origins" => m = mongo_list_origins
          /\ c.fn = "list_realm_options" => m = mongo_list_realm_options
          /\ c.fn = "get_ip_list" => m = mongo_get_ip_list
          /\ c.fn = "get_admin_user" => m = mongo_get_admin_user
          /\ c.fn = "set_admin_user" => m = mongo_set_admin_user
          /\ c.fn = "list_admin_users" => m = mongo_list_admin_users
      BY <2>1 DEF mongo_driver
    <2>3. DriverGood("mongo", c, m)
      BY <1>3, <1>11, <2>2
    <2> QED
      BY <2>1, <2>3
  <1>12. ASSUME c.fn \in
                {"del_user", "del_oauth_key", "del_secret", "del_origin", "del_admin_user"}
        PROVE  DriverGood("mongo", c, mongo_driver(c))
    <2>1. PICK m : m = mongo_driver(c)
      OBVIOUS
    <2>2. /\ c.fn = "del_user" => m = mongo_del_user
          /\ c.fn = "del_oauth_key" => m = mongo_del_oauth_key
          /\ c.fn = "del_secret" => m = mongo_del_secret(c)
          /\ c.fn = "del_origin" => m = mongo_del_origin
          /\ c.fn = "del_admin_user" => m = mongo_del_admin_user
      BY <2>1 DEF mongo_driver
    <2>3. DriverGood("mongo", c, m)
      BY <1>4, <1>12, <2>2 DEF DbDeletion
    <2> QED
      BY <2>1, <2>3
  <1>13. ASSUME c.fn \in
                {"set_secret", "set_permission_ip", "set_realm_option_one", "auth_ping",
                 "reread_realms"}
        PROVE  DriverGood("mongo", c, mongo_driver(c))
    <2>1. PICK m : m = mongo_driver(c)
      OBVIOUS
    <2>2. /\ c.fn = "set_secret" => m = mongo_set_secret
          /\ c.fn = "set_permission_ip" => m = mongo_set_permission_ip(c)
          /\ c.fn = "set_realm_option_one" => m = mongo_set_realm_option_one(c)
          /\ c.fn = "auth_ping" => m = mongo_auth_ping
          /\ c.fn = "reread_realms" => m = mongo_reread_realms
      BY <2>1 DEF mongo_driver
    <2>3. DriverGood("mongo", c, m)
      BY <1>5, <1>6, <1>7, <1>8, <1>9, <1>13, <2>2
    <2> QED
      BY <2>1, <2>3
  <1> QED
    BY <1>10, <1>11, <1>12, <1>13, UserDbAssumption DEF DbFunction, DbDeletion

LEMMA AnyDriver ==
  ASSUME NEW d, NEW c \in DbCall
  PROVE  DriverGood(d, c, get_dbdriver(d, c))
  <1>1. CASE d = "mysql"
    BY <1>1, mysql_good DEF get_dbdriver
  <1>2. CASE d = "pgsql"
    BY <1>2, pgsql_good DEF get_dbdriver
  <1>3. CASE d = "sqlite"
    BY <1>3, sqlite_good DEF get_dbdriver
  <1>4. CASE d = "redis"
    BY <1>4, redis_good DEF get_dbdriver
  <1>5. CASE d \notin {"mysql", "pgsql", "sqlite", "redis"}
    <2>1. get_dbdriver(d, c) = mongo_driver(c)
      BY <1>5 DEF get_dbdriver
    <2>2. MayDelete("mongo", c) => MayDelete(d, c)
      BY DEF MayDelete
    <2> QED
      BY <2>1, <2>2, mongo_good DEF DriverGood
  <1> QED
    BY <1>1, <1>2, <1>3, <1>4, <1>5
-----------------------------------------------------------------------------
(* The steps of one call *)

(* The records of a call, and of one that has returned.                    *)
CallRec(st, c, p, ret, failed, touched, snap) ==
  [st |-> st, c |-> c, prog |-> p, ret |-> ret, failed |-> failed, touched |-> touched,
   snap |-> snap]
DoneRec(c, ret, failed, touched) ==
  [st |-> "done", c |-> c, ret |-> ret, failed |-> failed, touched |-> touched]

CallParts(d, st, c, p) ==
  /\ st \in {"run", "wait"} /\ c \in DbCall /\ WellLocked(p)
  /\ Deletes(p) => MayDelete(d, c)
  /\ st = "wait" => p # <<>> /\ p[1].op \in {"rlock", "wlock"}
CallGood(d, k) ==
  \/ k = NoCall
  \/ k = DoneRec(k.c, k.ret, k.failed, k.touched)
  \/ /\ k = CallRec(k.st, k.c, k.prog, k.ret, k.failed, k.touched, k.snap)
     /\ CallParts(d, k.st, k.c, k.prog)
(* A call before a step, and after it as far as the lock is concerned.     *)
Running(d, k) == CallGood(d, k) /\ k.st = "run"
InStep(d, k) == Running(d, k) /\ k.prog # <<>>
StandsAs(n, k) ==
  /\ n.st = k.st
  /\ k.st \in {"run", "wait"} => n.prog = k.prog
KeepsSection(n, k) ==
  /\ InRead(n.prog) <=> InRead(k.prog)
  /\ InWrite(n.prog) <=> InWrite(k.prog)

LEMMA States ==
  ASSUME NEW d, NEW k, CallGood(d, k)
  PROVE  /\ k.st \in {"idle", "done", "run", "wait"}
         /\ k.st \in {"run", "wait"} =>
              /\ k = CallRec(k.st, k.c, k.prog, k.ret, k.failed, k.touched, k.snap)
              /\ CallParts(d, k.st, k.c, k.prog)
         /\ k.st = "done" => k = DoneRec(k.c, k.ret, k.failed, k.touched)
  <1>1. CASE k = NoCall
    BY <1>1 DEF NoCall
  <1>2. CASE k = DoneRec(k.c, k.ret, k.failed, k.touched)
    <2>1. k.st = "done"
      BY <1>2 DEF DoneRec
    <2> QED
      BY <1>2, <2>1
  <1>3. CASE k # NoCall /\ k # DoneRec(k.c, k.ret, k.failed, k.touched)
    <2>1. k.st \in {"run", "wait"}
      BY <1>3 DEF CallGood, CallParts
    <2> QED
      BY <1>3, <2>1 DEF CallGood
  <1> QED
    BY <1>1, <1>2, <1>3

IsCall(d, k, st, c, p) == CallGood(d, k) /\ k.st = st /\ k.c = c /\ k.prog = p
LEMMA GoodCall ==
  ASSUME NEW d, NEW st, NEW c, NEW p, CallParts(d, st, c, p),
         NEW ret, NEW failed, NEW touched, NEW snap
  PROVE  IsCall(d, CallRec(st, c, p, ret, failed, touched, snap), st, c, p)
  <1>1. PICK k : k = CallRec(st, c, p, ret, failed, touched, snap)
    OBVIOUS
  <1>2. /\ k.st = st /\ k.c = c /\ k.prog = p /\ k.ret = ret
        /\ k.failed = failed /\ k.touched = touched /\ k.snap = snap
    BY <1>1 DEF CallRec
  <1>3. k = CallRec(k.st, k.c, k.prog, k.ret, k.failed, k.touched, k.snap)
    BY <1>1, <1>2
  <1>4. IsCall(d, k, st, c, p)
    BY <1>2, <1>3 DEF CallGood, IsCall
  <1> QED
    BY <1>1, <1>4

LEMMA GoodDone ==
  ASSUME NEW d, NEW c, NEW ret, NEW failed, NEW touched, NEW k, k = DoneRec(c, ret, failed, touched)
  PROVE  CallGood(d, k) /\ k.st = "done"
  <1>1. k.st = "done" /\ k.c = c /\ k.ret = ret /\ k.failed = failed /\ k.touched = touched
    BY DEF DoneRec
  <1> QED
    BY <1>1 DEF CallGood

LEMMA GoodIdle ==
  ASSUME NEW d
  PROVE  CallGood(d, NoCall) /\ NoCall.st = "idle"
  BY DEF CallGood, NoCall

(* Another thread's statement may mark the call, a broadcast wakes it.     *)
LEMMA TouchedCall ==
  ASSUME NEW d, NEW k, CallGood(d, k), k.st # "idle", NEW n, n = [k EXCEPT !.touched = TRUE]
  PROVE  CallGood(d, n) /\ StandsAs(n, k)
  <1>1. CASE k.st \in {"run", "wait"}
    <2>1. PICK st, c, p, ret, failed, snap :
            /\ st = k.st /\ c = k.c /\ p = k.prog /\ ret = k.ret /\ failed = k.failed /\ snap = k.snap
      OBVIOUS
    <2>2. CallParts(d, st, c, p)
      BY <1>1, <2>1, States
    <2>3. PICK old : old = k.touched
      OBVIOUS
    <2>4. k = CallRec(st, c, p, ret, failed, old, snap)
      BY <1>1, <2>1, <2>3, States
    <2>5. PICK mark : n = CallRec(st, c, p, ret, failed, mark, snap)
      BY ZenonT(30), <2>4 DEF CallRec
    <2>6. IsCall(d, n, st, c, p)
      <3>1. IsCall(d, CallRec(st, c, p, ret, failed, mark, snap), st, c, p)
        BY <2>2, GoodCall
      <3> QED
        BY ZenonT(30), <2>5, <3>1
    <2> QED
      BY <2>1, <2>6 DEF StandsAs, IsCall
  <1>2. CASE k.st = "done"
    <2>1. PICK c, ret, failed, old : c = k.c /\ ret = k.ret /\ failed = k.failed /\ old = k.touched
      OBVIOUS
    <2>2. k = DoneRec(c, ret, failed, old)
      BY <1>2, <2>1, States
    <2>3. PICK mark : n = DoneRec(c, ret, failed, mark)
      BY ZenonT(30), <2>2 DEF DoneRec
    <2>4. CallGood(d, n) /\ n.st = "done"
      BY ZenonT(30), <2>3, GoodDone
    <2> QED
      BY <1>2, <2>4 DEF StandsAs
  <1> QED
    BY <1>1, <1>2, States

LEMMA WokenCall ==
  ASSUME NEW d, NEW k, CallGood(d, k), k.st = "wait", NEW n, n = [k EXCEPT !.st = "run"]
  PROVE  CallGood(d, n) /\ n.st = "run" /\ ~InRead(n.prog) /\ ~InWrite(n.prog)
  <1>1. PICK c, p, ret, failed, touched, snap :
          /\ c = k.c /\ p = k.prog /\ ret = k.ret /\ failed = k.failed /\ touched = k.touched
          /\ snap = k.snap
    OBVIOUS
  <1>2. CallParts(d, "wait", c, p)
    BY <1>1, States
  <1>3. k = CallRec("wait", c, p, ret, failed, touched, snap)
    BY <1>1, States
  <1>4. n = CallRec("run", c, p, ret, failed, touched, snap)
    BY <1>3 DEF CallRec
  <1>5. CallGood(d, n) /\ n.st = "run" /\ n.prog = p
    <2>1. CallParts(d, "run", c, p)
      BY <1>2 DEF CallParts
    <2>2. IsCall(d, n, "run", c, p)
      BY <1>4, <2>1, GoodCall
    <2> QED
      BY <2>2 DEF IsCall
  <1>6. p \in Seq(DbStmt) /\ p # <<>> /\ p[1].op \in {"rlock", "wlock"}
    BY <1>2 DEF CallParts, WellLocked
  <1>7. /\ "runlock" \in LockOps /\ "wunlock" \in LockOps /\ p[1].op \in LockOps
        /\ p[1].op # "runlock" /\ p[1].op # "wunlock"
    BY <1>6 DEF LockOps
  <1> QED
    BY <1>5, <1>6, <1>7, SectionHead DEF InRead, InWrite

(* The program after a statement.                                          *)
Rest(p, o) == IF o \in {"stop", "okstop"} THEN <<>> ELSE Tail(p)
LEMMA ShorterProgram ==
  ASSUME NEW d, NEW c, NEW p, CallParts(d, "run", c, p), p # <<>>,
         NEW o, o = "go" \/ o \in {p[1].good} \cup p[1].bad, NEW q, q = Rest(p, o)
  PROVE  /\ CallParts(d, "run", c, q) /\ q # p
         /\ p[1].op \notin LockOps => (InRead(q) <=> InRead(p)) /\ (InWrite(q) <=> InWrite(p))
  <1>1. p \in Seq(DbStmt) /\ WellLocked(p) /\ c \in DbCall /\ (Deletes(p) => MayDelete(d, c))
    BY DEF CallParts, WellLocked
  <1>2. /\ Len(p) \in Nat /\ Len(p) > 0 /\ Tail(p) \in Seq(DbStmt) /\ Len(Tail(p)) = Len(p) - 1
        /\ Tail(p) # p /\ \A i \in 1 .. Len(p) - 1 : Tail(p)[i] = p[i + 1]
    BY <1>1, ProgramTail
  <1>3. 1 \in 1 .. Len(p)
    BY <1>1, ProgramTail
  <1>4. CASE o \in DbStops
    <2>1. q = <<>>
      BY <1>4 DEF DbStops, Rest
    <2>2. ~(p[1].good \notin DbStops /\ p[1].bad \cap DbStops = {})
      <3>1. o # "go"
        BY <1>4 DEF DbStops
      <3> QED
        BY <1>4, <3>1
    <2>3. \A i \in 1 .. Len(p) : p[i].op \notin LockOps
      BY <1>1, <1>3, <2>2 DEF WellLocked
    <2>4. \A x \in LockOps : ~Section(p, 0, x) /\ ~Section(q, 0, x)
      <3>1. Len(q) = 0
        BY <2>1
      <3>2. \A i \in 0 + 1 .. Len(p) : i \in 1 .. Len(p)
        OBVIOUS
      <3> QED
        BY <2>3, <3>1, <3>2 DEF Section
    <2>5. "runlock" \in LockOps /\ "wunlock" \in LockOps
      BY DEF LockOps
    <2>6. ~InRead(p) /\ ~InRead(q) /\ ~InWrite(p) /\ ~InWrite(q)
      BY <2>4, <2>5 DEF InRead, InWrite
    <2>7. WellLocked(q) /\ ~Deletes(q)
      BY <2>1 DEF WellLocked, Deletes
    <2>8. CallParts(d, "run", c, q)
      BY <1>1, <2>7 DEF CallParts
    <2> QED
      BY <2>1, <2>6, <2>8
  <1>5. CASE o \notin DbStops
    <2>1. q = Tail(p)
      BY <1>5 DEF DbStops, Rest
    <2>2. WellLocked(q)
      BY <1>1, <2>1, TailWellLocked
    <2>3. Deletes(q) => Deletes(p)
      <3>1. \A i \in 1 .. Len(q) : i + 1 \in 1 .. Len(p) /\ q[i] = p[i + 1]
        <4>1. PICK m : m = Len(p)
          BY ZenonT(30)
        <4>2. m \in Nat /\ Len(q) = m - 1 /\ \A i \in 1 .. m - 1 : q[i] = p[i + 1]
          BY <1>2, <2>1, <4>1, Zenon
        <4>3. \A i \in 1 .. m - 1 : i + 1 \in 1 .. m
          BY <4>2
        <4> QED
          BY <4>1, <4>2, <4>3
      <3> QED
        BY <3>1 DEF Deletes
    <2>4. CallParts(d, "run", c, q)
      BY <1>1, <2>2, <2>3 DEF CallParts
    <2>5. ASSUME p[1].op \notin LockOps, NEW x \in LockOps PROVE Section(q, 0, x) <=> Section(p, 0, x)
      <3>1. Section(q, 0, x) <=> Section(p, 0 + 1, x)
        BY ZenonT(30), <1>1, <2>1, SectionTail
      <3>2. 0 + 1 = 1
        OBVIOUS
      <3>3. Section(p, 0, x) <=> Section(p, 1, x)
        BY <1>1, <2>5, SectionHead
      <3> QED
        BY <3>1, <3>2, <3>3
    <2>6. "runlock" \in LockOps /\ "wunlock" \in LockOps
      BY DEF LockOps
    <2> QED
      BY ZenonT(30), <1>2, <2>1, <2>4, <2>5, <2>6 DEF InRead, InWrite
  <1> QED
    BY <1>4, <1>5

(* The section a lock statement begins and the one its release ends.       *)
LEMMA LockedNow ==
  ASSUME NEW d, NEW c, NEW p, CallParts(d, "run", c, p), p # <<>>, NEW q, q = Tail(p)
  PROVE  /\ p[1].op = "rlock" => ~InRead(p) /\ ~InWrite(p) /\ InRead(q) /\ ~InWrite(q)
         /\ p[1].op = "wlock" => ~InRead(p) /\ ~InWrite(p) /\ ~InRead(q) /\ InWrite(q)
         /\ p[1].op = "runlock" => InRead(p) /\ ~InWrite(p) /\ ~InRead(q) /\ ~InWrite(q)
         /\ p[1].op = "wunlock" => ~InRead(p) /\ InWrite(p) /\ ~InRead(q) /\ ~InWrite(q)
  <1>1. p \in Seq(DbStmt) /\ WellLocked(p)
    BY DEF CallParts, WellLocked
  <1>2. 1 \in 1 .. Len(p)
    BY <1>1, ProgramTail
  <1>3. \A x : Section(q, 0, x) <=> Section(p, 1, x)
    <2>1. 0 + 1 = 1 /\ 0 \in Nat
      OBVIOUS
    <2> QED
      BY <1>1, <2>1, SectionTail
  <1>4. "rlock" \in LockOps /\ "wlock" \in LockOps /\ "runlock" \in LockOps /\ "wunlock" \in LockOps
    BY DEF LockOps
  <1>5. /\ p[1].op = "rlock" => Section(p, 1, "runlock") /\ ~Section(p, 1, "wunlock")
        /\ p[1].op = "wlock" => Section(p, 1, "wunlock") /\ ~Section(p, 1, "runlock")
        /\ p[1].op \in {"runlock", "wunlock"} => ~Section(p, 1, "runlock") /\ ~Section(p, 1, "wunlock")
    BY <1>1, <1>2 DEF WellLocked
  <1>6. /\ p[1].op = "rlock" => ~InRead(p) /\ ~InWrite(p)
        /\ p[1].op = "wlock" => ~InRead(p) /\ ~InWrite(p)
        /\ p[1].op = "runlock" => InRead(p) /\ ~InWrite(p)
        /\ p[1].op = "wunlock" => ~InRead(p) /\ InWrite(p)
    BY <1>1, <1>4, SectionHead DEF InRead, InWrite
  <1>7. /\ p[1].op = "rlock" => InRead(q) /\ ~InWrite(q)
        /\ p[1].op = "wlock" => ~InRead(q) /\ InWrite(q)
        /\ p[1].op \in {"runlock", "wunlock"} => ~InRead(q) /\ ~InWrite(q)
    BY <1>3, <1>5 DEF InRead, InWrite
  <1> QED
    BY <1>6, <1>7

(* A running call, taken apart, and the records its steps leave.           *)
LEMMA RunningCall ==
  ASSUME NEW d, NEW k, CallGood(d, k), k.st = "run"
  PROVE  /\ k = CallRec("run", k.c, k.prog, k.ret, k.failed, k.touched, k.snap)
         /\ CallParts(d, "run", k.c, k.prog)
  BY States

LEMMA AdvancedCall ==
  ASSUME NEW d, NEW k, CallGood(d, k), k.st = "run", k.prog # <<>>,
         NEW o, o = "go" \/ o \in {k.prog[1].good} \cup k.prog[1].bad,
         NEW n, n = Advance(k, o)
  PROVE  /\ CallGood(d, n) /\ n.st = "run" /\ n.c = k.c /\ n.prog # k.prog
         /\ k.prog[1].op \notin LockOps => KeepsSection(n, k)
         /\ o = "go" => n.prog = Tail(k.prog)
  <1>1. PICK c, p, ret, failed, touched, snap :
          /\ c = k.c /\ p = k.prog /\ ret = k.ret /\ failed = k.failed /\ touched = k.touched
          /\ snap = k.snap
    OBVIOUS
  <1>2. CallParts(d, "run", c, p) /\ p # <<>> /\ (o = "go" \/ o \in {p[1].good} \cup p[1].bad)
    BY <1>1, RunningCall
  <1>3. k = CallRec("run", c, p, ret, failed, touched, snap)
    BY <1>1, RunningCall
  <1>4. PICK q, set : /\ q = Rest(p, o)
                      /\ set = (ret \/ o \in {"ok", "okstop"})
    OBVIOUS
  <1>5. n = CallRec("run", c, q, set, failed, touched, snap)
    <2>1. n = [k EXCEPT !.ret = set, !.prog = q]
      BY <1>1, <1>4 DEF Advance, Rest
    <2> QED
      BY ZenonT(30), <1>3, <2>1 DEF CallRec
  <1>6. /\ CallParts(d, "run", c, q) /\ q # p
        /\ p[1].op \notin LockOps => (InRead(q) <=> InRead(p)) /\ (InWrite(q) <=> InWrite(p))
    BY <1>2, <1>4, ShorterProgram
  <1>7. IsCall(d, n, "run", c, q)
    <2>1. IsCall(d, CallRec("run", c, q, set, failed, touched, snap), "run", c, q)
      BY <1>6, GoodCall
    <2> QED
      BY <1>5, <2>1
  <1> QED
    BY <1>1, <1>4, <1>6, <1>7 DEF IsCall, KeepsSection, Rest

(* Setting failed or snap changes nothing that matters here.               *)
LEMMA MarkedCall ==
  ASSUME NEW d, NEW k, CallGood(d, k), k.st = "run", NEW v
  PROVE  /\ IsCall(d, [k EXCEPT !.failed = v], "run", k.c, k.prog)
         /\ IsCall(d, [k EXCEPT !.snap = v], "run", k.c, k.prog)
  <1>1. PICK c, p, ret, failed, touched, snap :
          /\ c = k.c /\ p = k.prog /\ ret = k.ret /\ failed = k.failed /\ touched = k.touched
          /\ snap = k.snap
    OBVIOUS
  <1>2. CallParts(d, "run", c, p) /\ k = CallRec("run", c, p, ret, failed, touched, snap)
    BY <1>1, RunningCall
  <1>3. /\ [k EXCEPT !.failed = v] = CallRec("run", c, p, ret, v, touched, snap)
        /\ [k EXCEPT !.snap = v] = CallRec("run", c, p, ret, failed, touched, v)
    BY <1>2 DEF CallRec
  <1>4. /\ IsCall(d, CallRec("run", c, p, ret, v, touched, snap), "run", c, p)
        /\ IsCall(d, CallRec("run", c, p, ret, failed, touched, v), "run", c, p)
    BY <1>2, GoodCall
  <1> QED
    BY <1>1, <1>3, <1>4
-----------------------------------------------------------------------------
(* A statement of a call *)

(* What a statement leaves of its own call, and of the others.             *)
AfterStmt(k, n, o) ==
  \/ n = Advance(k, o)
  \/ n = [Advance(k, o) EXCEPT !.failed = TRUE]
  \/ \E x : n = [Advance(k, o) EXCEPT !.snap = x]
Noted(D, t, n, new, old) ==
  [u \in DbThread |->
     IF u = t THEN n
     ELSE IF D[u].st # "idle" /\ \E r \in Concerns(D[u].c) : new[r] # old[r]
          THEN [D[u] EXCEPT !.touched = TRUE] ELSE D[u]]

LEMMA StatementCall ==
  ASSUME NEW d, NEW k, CallGood(d, k), k.st = "run", k.prog # <<>>, k.prog[1].op \notin LockOps,
         NEW o \in {k.prog[1].good} \cup k.prog[1].bad, NEW n, AfterStmt(k, n, o)
  PROVE  CallGood(d, n) /\ n.st = "run" /\ n.prog # k.prog /\ KeepsSection(n, k)
  <1>1. PICK a : a = Advance(k, o)
    OBVIOUS
  <1>2. CallGood(d, a) /\ a.st = "run" /\ a.prog # k.prog /\ KeepsSection(a, k)
    BY <1>1, AdvancedCall
  <1>3. n = a \/ IsCall(d, n, "run", a.c, a.prog)
    <2>1. CASE n = [a EXCEPT !.failed = TRUE]
      BY ZenonT(30), <1>2, <2>1, MarkedCall
    <2>2. CASE \E x : n = [a EXCEPT !.snap = x]
      <3>1. PICK x : n = [a EXCEPT !.snap = x]
        BY ZenonT(30), <2>2
      <3>2. IsCall(d, [a EXCEPT !.snap = x], "run", a.c, a.prog)
        BY ZenonT(30), <1>2, MarkedCall
      <3> QED
        BY <3>1, <3>2
    <2> QED
      BY <1>1, <2>1, <2>2 DEF AfterStmt
  <1>4. n = a \/ (CallGood(d, n) /\ n.st = "run" /\ n.prog = a.prog)
    BY <1>3 DEF IsCall
  <1> QED
    BY <1>2, <1>4 DEF KeepsSection

DbRows == DbRow \cup {Doc(x) : x \in Realms}

(* What a statement does to the rows: it removes one only when it deletes, *)
(* or alters a realm's document to hold no value.                          *)
Empties(op, c) == op \in {"delete", "deleteRealm"} \/ (op = "alterDoc" /\ c.val = Nothing)

LEMMA RowsAfter ==
  ASSUME DOMAIN db = DbRows, db = [r \in DOMAIN db |-> db[r]], NEW op, NEW c \in DbCall,
         NEW B, B = After(op, c)
  PROVE  /\ DOMAIN B = DbRows /\ B = [r \in DOMAIN B |-> B[r]]
         /\ \A r \in DbRows : db[r] # {} /\ B[r] = {} => Empties(op, c)
  <1>1. PICK row : row = Row(c)
    OBVIOUS
  <1>2. row \in DbRows
    BY <1>1 DEF DbRows, DbRow
  <1>3. PICK V : V = {c.val} /\ V # {}
    BY ZenonT(30)
  <1>4. CASE op \in {"insert", "put"}
    <2>1. B = [db EXCEPT ![row] = V]
      BY <1>1, <1>3, <1>4 DEF After
    <2> QED
      BY ZenonT(30), <1>2, <1>3, <2>1
  <1>5. CASE op = "merge"
    <2>1. PICK W : W = Merged(db[row], c.val) /\ W # {}
      BY ZenonT(30) DEF Merged
    <2>2. B = [db EXCEPT ![row] = W]
      BY <1>1, <1>5, <2>1 DEF After
    <2> QED
      BY ZenonT(30), <1>2, <2>1, <2>2
  <1>6. CASE op = "update"
    <2>1. PICK W : W = (IF db[row] = {} THEN {} ELSE V)
      OBVIOUS
    <2>2. B = [db EXCEPT ![row] = W]
      BY <1>1, <1>3, <1>6, <2>1 DEF After
    <2> QED
      BY ZenonT(30), <1>2, <1>3, <2>1, <2>2
  <1>7. CASE op \in {"delete", "deleteRealm"}
    <2>1. Empties(op, c)
      BY <1>7 DEF Empties
    <2>2. CASE op = "delete"
      BY ZenonT(30), <2>1, <2>2 DEF After
    <2>3. CASE op = "deleteRealm"
      BY <2>1, <2>3 DEF After
    <2> QED
      BY <1>7, <2>2, <2>3
  <1>8. CASE op = "addToDoc"
    <2>1. PICK W, doc, M : W = db[row] \cup V /\ doc = Doc(RealmOf(c)) /\ M = {"doc"}
      BY ZenonT(30)
    <2>2. W # {} /\ M # {}
      BY <1>3, <2>1
    <2>3. B = [db EXCEPT ![row] = W, ![doc] = M]
      BY <1>1, <1>3, <1>8, <2>1 DEF After
    <2> QED
      BY ZenonT(30), <1>2, <2>2, <2>3
  <1>9. CASE op = "alterDoc"
    <2>1. CASE db[Doc(c.realm)] = {}
      BY <1>9, <2>1 DEF After
    <2>2. CASE db[Doc(c.realm)] # {}
      <3>1. PICK W : W = (IF c.val = Nothing THEN {} ELSE V)
        BY ZenonT(30)
      <3>2. B = [db EXCEPT ![row] = W]
        BY <1>1, <1>3, <1>9, <2>2, <3>1 DEF After
      <3>3. W = {} => Empties(op, c)
        BY <1>3, <1>9, <3>1 DEF Empties
      <3> QED
        BY ZenonT(30), <1>2, <3>2, <3>3
    <2> QED
      BY <2>1, <2>2
  <1>10. CASE op \notin {"insert", "put", "merge", "update", "delete", "deleteRealm", "addToDoc",
                         "alterDoc"}
    <2>1. B = db
      BY <1>10 DEF After
    <2> QED
      BY <2>1
  <1> QED
    BY <1>4, <1>5, <1>6, <1>7, <1>8, <1>9, <1>10
=============================================================================
