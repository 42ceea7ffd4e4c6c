--------------------------- MODULE CountersProofs ---------------------------
(***************************************************************************)
(* Proofs about the counters that the threads share, for any number of     *)
(* threads, sessions, users, realms and allocations: the quotas, the count *)
(* that a drain waits for, and the bandwidth that is allocated.            *)
(***************************************************************************)
EXTENDS Quota, Lifecycle, BandwidthPool, FiniteSetTheorems, TLAPS

(* A leaf that names no prover goes to the SMT solver, for up to 30 seconds. *)
USE SMTT(30)

-----------------------------------------------------------------------------
(* Quotas: inc_quota and dec_quota *)

(* The counters q beside the users U and realms R of the sessions, with    *)
(* the realms K made: what they count is known, and, unless a session      *)
(* changed its realm, they count it exactly, but for the totals of the     *)
(* realms that were made on the way.                                       *)
CountedFor(q, U, R, r, u) == {s \in q.used : R[s] = r /\ U[s] = u}
CountedIn(q, R, r) == {s \in q.used : R[s] = r}

QuotaShape(q, U, R, K) ==
  /\ q = [total |-> q.total, counter |-> q.counter, used |-> q.used]
  /\ q.total \in [Realm -> Nat] /\ q.counter \in [Realm -> [User -> Nat]]
  /\ q.used \subseteq Sess /\ IsFiniteSet(q.used)
  /\ K \subseteq Realm
  /\ \A s \in q.used : U[s] \in User /\ R[s] \in K

QuotaCount(q, U, R, exact) ==
  \A r \in Realm :
    /\ q.total[r] >= Cardinality(CountedIn(q, R, r))
    /\ exact => q.total[r] = Cardinality(CountedIn(q, R, r))
    /\ TotalQuota # 0 => Cardinality(CountedIn(q, R, r)) <= TotalQuota
    /\ \A u \in User :
         /\ q.counter[r][u] = Cardinality(CountedFor(q, U, R, r, u))
         /\ UserQuota # 0 => Cardinality(CountedFor(q, U, R, r, u)) <= UserQuota

QuotaInv ==
  /\ QuotaShape(Now, user, realm, known)
  /\ known \subseteq Realm /\ Configured \subseteq known
  /\ state \in [Sess -> {"none", "open", "alloc", "parked"}]
  /\ user \in [Sess -> User \cup {NoUser}] /\ realm \in [Sess -> Realm \cup {NoUser}]
  /\ \A s \in Sess : state[s] \in {"alloc", "parked"} => user[s] \in User /\ realm[s] \in known
  /\ ~strayed => QuotaCount(Now, user, realm, known = Configured)

(* Who is counted depends on the users and realms of those that took only. *)
LEMMA QuotaRelabel ==
  ASSUME NEW q, NEW U, NEW R, NEW U2, NEW R2, NEW K, NEW exact \in BOOLEAN,
         \A s \in q.used : U2[s] = U[s] /\ R2[s] = R[s]
  PROVE  /\ QuotaShape(q, U, R, K) => QuotaShape(q, U2, R2, K)
         /\ QuotaCount(q, U, R, exact) => QuotaCount(q, U2, R2, exact)
  <1>1. \A r : CountedIn(q, R2, r) = CountedIn(q, R, r)
    BY DEF CountedIn
  <1>2. \A r, u : CountedFor(q, U2, R2, r, u) = CountedFor(q, U, R, r, u)
    BY DEF CountedFor
  <1>3. QuotaShape(q, U, R, K) => QuotaShape(q, U2, R2, K)
    BY DEF QuotaShape
  <1> QED
    BY <1>1, <1>2, <1>3 DEF QuotaCount

LEMMA QuotaCardinals ==
  ASSUME NEW q, NEW U, NEW R, NEW K, QuotaShape(q, U, R, K)
  PROVE  /\ \A r : IsFiniteSet(CountedIn(q, R, r)) /\ Cardinality(CountedIn(q, R, r)) \in Nat
         /\ \A r, u : /\ IsFiniteSet(CountedFor(q, U, R, r, u))
                      /\ Cardinality(CountedFor(q, U, R, r, u)) \in Nat
  <1>1. \A r : IsFiniteSet(CountedIn(q, R, r))
    BY FS_Subset DEF CountedIn, QuotaShape
  <1>2. \A r, u : IsFiniteSet(CountedFor(q, U, R, r, u))
    BY FS_Subset DEF CountedFor, QuotaShape
  <1> QED
    BY <1>1, <1>2, FS_CardinalityType

(* One session more, or one less, among those that took.                   *)
LEMMA QuotaCounts ==
  ASSUME NEW q, NEW p, NEW U, NEW R, NEW K, QuotaShape(q, U, R, K),
         NEW s, s \notin q.used, p.used = q.used \cup {s}
  PROVE  /\ \A r : /\ IsFiniteSet(CountedIn(p, R, r))
                   /\ Cardinality(CountedIn(p, R, r)) =
                        Cardinality(CountedIn(q, R, r)) + (IF r = R[s] THEN 1 ELSE 0)
         /\ \A r, u : /\ IsFiniteSet(CountedFor(p, U, R, r, u))
                      /\ Cardinality(CountedFor(p, U, R, r, u)) =
                           Cardinality(CountedFor(q, U, R, r, u))
                             + (IF r = R[s] /\ u = U[s] THEN 1 ELSE 0)
  <1>1. ASSUME NEW r
        PROVE  /\ IsFiniteSet(CountedIn(p, R, r))
               /\ Cardinality(CountedIn(p, R, r)) =
                    Cardinality(CountedIn(q, R, r)) + (IF r = R[s] THEN 1 ELSE 0)
    <2>0. IsFiniteSet(CountedIn(q, R, r)) /\ Cardinality(CountedIn(q, R, r)) \in Nat
      BY QuotaCardinals
    <2>1. s \notin CountedIn(q, R, r)
      BY DEF CountedIn
    <2>2. CASE r = R[s]
      <3>1. CountedIn(p, R, r) = CountedIn(q, R, r) \cup {s}
        BY <2>2 DEF CountedIn
      <3>2. /\ IsFiniteSet(CountedIn(p, R, r))
            /\ Cardinality(CountedIn(p, R, r)) = Cardinality(CountedIn(q, R, r)) + 1
        BY <2>0, <2>1, <3>1, FS_AddElement
      <3> QED
        BY <2>2, <3>2
    <2>3. CASE r # R[s]
      <3>1. CountedIn(p, R, r) = CountedIn(q, R, r)
        BY <2>3 DEF CountedIn
      <3> QED
        BY <2>0, <2>3, <3>1
    <2> QED
      BY <2>2, <2>3
  <1>2. ASSUME NEW r, NEW u
        PROVE  /\ IsFiniteSet(CountedFor(p, U, R, r, u))
               /\ Cardinality(CountedFor(p, U, R, r, u)) =
                    Cardinality(CountedFor(q, U, R, r, u))
                      + (IF r = R[s] /\ u = U[s] THEN 1 ELSE 0)
    <2>0. /\ IsFiniteSet(CountedFor(q, U, R, r, u))
          /\ Cardinality(CountedFor(q, U, R, r, u)) \in Nat
      BY QuotaCardinals
    <2>1. s \notin CountedFor(q, U, R, r, u)
      BY DEF CountedFor
    <2>2. CASE r = R[s] /\ u = U[s]
      <3>1. CountedFor(p, U, R, r, u) = CountedFor(q, U, R, r, u) \cup {s}
        BY <2>2 DEF CountedFor
      <3>2. /\ IsFiniteSet(CountedFor(p, U, R, r, u))
            /\ Cardinality(CountedFor(p, U, R, r, u)) = Cardinality(CountedFor(q, U, R, r, u)) + 1
        BY <2>0, <2>1, <3>1, FS_AddElement
      <3> QED
        BY <2>2, <3>2
    <2>3. CASE ~(r = R[s] /\ u = U[s])
      <3>1. CountedFor(p, U, R, r, u) = CountedFor(q, U, R, r, u)
        BY <2>3 DEF CountedFor
      <3> QED
        BY <2>0, <2>3, <3>1
    <2> QED
      BY <2>2, <2>3
  <1> QED
    BY <1>1, <1>2

(* inc_quota takes one for the session, if the quotas admit it.            *)
LEMMA IncCounts ==
  ASSUME NEW q, NEW U, NEW R, NEW K, NEW exact \in BOOLEAN, NEW s \in Sess,
         QuotaShape(q, U, R, K), U[s] \in User, R[s] \in K
  PROVE  /\ QuotaShape(Inc(q, s, U[s], R[s]), U, R, K)
         /\ QuotaCount(q, U, R, exact) => QuotaCount(Inc(q, s, U[s], R[s]), U, R, exact)
  <1> DEFINE u == U[s]
             r == R[s]
             p == Inc(q, s, u, r)
  <1>1. CASE s \in q.used \/ ~Admits(q, u, r)
    BY <1>1 DEF Inc
  <1>2. CASE s \notin q.used /\ Admits(q, u, r)
    <2>1. /\ p.total = [q.total EXCEPT ![r] = @ + 1]
          /\ p.counter = [q.counter EXCEPT ![r][u] = @ + 1]
          /\ p.used = q.used \cup {s}
          /\ p = [total |-> p.total, counter |-> p.counter, used |-> p.used]
      BY <1>2 DEF Inc
    <2> HIDE DEF p
    <2>2. q.total \in [Realm -> Nat] /\ q.counter \in [Realm -> [User -> Nat]] /\ r \in Realm
          /\ u \in User
      BY DEF QuotaShape
    <2>3. /\ p.total[r] = q.total[r] + 1
          /\ \A x \in Realm : x # r => p.total[x] = q.total[x]
          /\ p.counter[r][u] = q.counter[r][u] + 1
          /\ \A x \in Realm, v \in User : (x # r \/ v # u) => p.counter[x][v] = q.counter[x][v]
          /\ p.total \in [Realm -> Nat] /\ p.counter \in [Realm -> [User -> Nat]]
      BY <2>1, <2>2
    <2>4. QuotaShape(p, U, R, K)
      <3>0. IsFiniteSet(q.used)
        BY DEF QuotaShape
      <3>1. IsFiniteSet(q.used \cup {s})
        BY <3>0, FS_AddElement
      <3> QED
        BY <2>1, <2>3, <3>1 DEF QuotaShape
    <2>5. ASSUME QuotaCount(q, U, R, exact) PROVE QuotaCount(p, U, R, exact)
      <3>1. /\ \A x : Cardinality(CountedIn(p, R, x)) =
                        Cardinality(CountedIn(q, R, x)) + (IF x = r THEN 1 ELSE 0)
            /\ \A x, v : Cardinality(CountedFor(p, U, R, x, v)) =
                           Cardinality(CountedFor(q, U, R, x, v))
                             + (IF x = r /\ v = u THEN 1 ELSE 0)
        BY <1>2, <2>1, QuotaCounts
      <3>2. /\ \A x : Cardinality(CountedIn(q, R, x)) \in Nat
            /\ \A x, v : Cardinality(CountedFor(q, U, R, x, v)) \in Nat
        BY QuotaCardinals
      <3>3. /\ TotalQuota # 0 => q.total[r] < TotalQuota
            /\ UserQuota # 0 /\ q.counter[r][u] # 0 => q.counter[r][u] < UserQuota
            /\ TotalQuota \in Nat /\ UserQuota \in Nat
        BY <1>2, <2>2, QuotaAssumption DEF Admits, QuotaFull
      <3>4. ASSUME NEW x \in Realm
            PROVE  /\ p.total[x] >= Cardinality(CountedIn(p, R, x))
                   /\ exact => p.total[x] = Cardinality(CountedIn(p, R, x))
                   /\ TotalQuota # 0 => Cardinality(CountedIn(p, R, x)) <= TotalQuota
        <4>1. /\ q.total[x] >= Cardinality(CountedIn(q, R, x))
              /\ exact => q.total[x] = Cardinality(CountedIn(q, R, x))
              /\ TotalQuota # 0 => Cardinality(CountedIn(q, R, x)) <= TotalQuota
          BY <2>5 DEF QuotaCount
        <4>2. Cardinality(CountedIn(q, R, x)) \in Nat /\ q.total[x] \in Nat
          BY <2>2, <3>2
        <4>3. CASE x = r
          BY <2>3, <3>1, <3>3, <4>1, <4>2, <4>3
        <4>4. CASE x # r
          BY <2>3, <3>1, <4>1, <4>2, <4>4
        <4> QED
          BY <4>3, <4>4
      <3>5. ASSUME NEW x \in Realm, NEW v \in User
            PROVE  /\ p.counter[x][v] = Cardinality(CountedFor(p, U, R, x, v))
                   /\ UserQuota # 0 => Cardinality(CountedFor(p, U, R, x, v)) <= UserQuota
        <4>1. /\ q.counter[x][v] = Cardinality(CountedFor(q, U, R, x, v))
              /\ UserQuota # 0 => Cardinality(CountedFor(q, U, R, x, v)) <= UserQuota
          BY <2>5 DEF QuotaCount
        <4>2. Cardinality(CountedFor(q, U, R, x, v)) \in Nat
          BY <3>2
        <4>3. CASE x = r /\ v = u
          BY <2>3, <3>1, <3>3, <4>1, <4>2, <4>3
        <4>4. CASE ~(x = r /\ v = u)
          BY <2>3, <3>1, <4>1, <4>2, <4>4
        <4> QED
          BY <4>3, <4>4
      <3> QED
        BY <3>4, <3>5 DEF QuotaCount
    <2> QED
      BY <2>4, <2>5 DEF p
  <1> QED
    BY <1>1, <1>2

(* dec_quota gives it back, to the user and realm it was taken from; the   *)
(* counters are above zero then.                                           *)
LEMMA DecCounts ==
  ASSUME NEW q, NEW U, NEW R, NEW K, NEW exact \in BOOLEAN, NEW s \in q.used,
         QuotaShape(q, U, R, K)
  PROVE  /\ QuotaShape(Dec(q, s, U[s], R[s]), U, R, K)
         /\ Dec(q, s, U[s], R[s]).used = q.used \ {s}
         /\ QuotaCount(q, U, R, exact) => QuotaCount(Dec(q, s, U[s], R[s]), U, R, exact)
  <1> DEFINE u == U[s]
             r == R[s]
             p == Dec(q, s, u, r)
  <1>1. /\ p.total = [q.total EXCEPT ![r] = IF @ = 0 THEN 0 ELSE @ - 1]
        /\ p.counter = [q.counter EXCEPT ![r][u] = IF @ = 0 THEN 0 ELSE @ - 1]
        /\ p.used = q.used \ {s}
        /\ p = [total |-> p.total, counter |-> p.counter, used |-> p.used]
    BY DEF Dec
  <1> HIDE DEF p
  <1>2. q.total \in [Realm -> Nat] /\ q.counter \in [Realm -> [User -> Nat]] /\ r \in Realm
        /\ u \in User
    BY DEF QuotaShape
  <1>3. /\ p.total[r] = IF q.total[r] = 0 THEN 0 ELSE q.total[r] - 1
        /\ \A x \in Realm : x # r => p.total[x] = q.total[x]
        /\ p.counter[r][u] = IF q.counter[r][u] = 0 THEN 0 ELSE q.counter[r][u] - 1
        /\ \A x \in Realm, v \in User : (x # r \/ v # u) => p.counter[x][v] = q.counter[x][v]
    BY <1>1, <1>2
  <1>4. p.total \in [Realm -> Nat] /\ p.counter \in [Realm -> [User -> Nat]]
    <2>1. q.total[r] \in Nat /\ q.counter[r] \in [User -> Nat] /\ q.counter[r][u] \in Nat
      BY <1>2
    <2>2. \A k \in Nat : (IF k = 0 THEN 0 ELSE k - 1) \in Nat
      OBVIOUS
    <2>3. /\ (IF q.total[r] = 0 THEN 0 ELSE q.total[r] - 1) \in Nat
          /\ (IF q.counter[r][u] = 0 THEN 0 ELSE q.counter[r][u] - 1) \in Nat
      BY <2>1, <2>2, Zenon
    <2> QED
      BY <1>1, <1>2, <2>1, <2>3
  <1>5. QuotaShape(p, U, R, K)
    <2>0. IsFiniteSet(q.used)
      BY DEF QuotaShape
    <2>1. IsFiniteSet(p.used)
      BY <1>1, <2>0, FS_RemoveElement, Zenon
    <2> QED
      BY <1>1, <1>4, <2>1 DEF QuotaShape
  <1>6. ASSUME QuotaCount(q, U, R, exact) PROVE QuotaCount(p, U, R, exact)
    <2>0. s \notin p.used /\ q.used = p.used \cup {s}
      BY <1>1
    <2>1. /\ \A x : Cardinality(CountedIn(q, R, x)) =
                      Cardinality(CountedIn(p, R, x)) + (IF x = r THEN 1 ELSE 0)
          /\ \A x, v : Cardinality(CountedFor(q, U, R, x, v)) =
                         Cardinality(CountedFor(p, U, R, x, v))
                           + (IF x = r /\ v = u THEN 1 ELSE 0)
      BY <1>5, <2>0, QuotaCounts
    <2>2. /\ \A x : Cardinality(CountedIn(p, R, x)) \in Nat
          /\ \A x, v : Cardinality(CountedFor(p, U, R, x, v)) \in Nat
      BY ZenonT(30), <1>5, QuotaCardinals
    <2>3. TotalQuota \in Nat /\ UserQuota \in Nat
      BY QuotaAssumption
    <2>4. ASSUME NEW x \in Realm
          PROVE  /\ p.total[x] >= Cardinality(CountedIn(p, R, x))
                 /\ exact => p.total[x] = Cardinality(CountedIn(p, R, x))
                 /\ TotalQuota # 0 => Cardinality(CountedIn(p, R, x)) <= TotalQuota
      <3>1. /\ q.total[x] >= Cardinality(CountedIn(q, R, x))
            /\ exact => q.total[x] = Cardinality(CountedIn(q, R, x))
            /\ TotalQuota # 0 => Cardinality(CountedIn(q, R, x)) <= TotalQuota
        BY <1>6 DEF QuotaCount
      <3>2. Cardinality(CountedIn(p, R, x)) \in Nat /\ q.total[x] \in Nat
        BY <1>2, <2>2
      <3>3. CASE x = r
        BY <1>3, <2>1, <2>3, <3>1, <3>2, <3>3
      <3>4. CASE x # r
        BY <1>3, <2>1, <3>1, <3>2, <3>4
      <3> QED
        BY <3>3, <3>4
    <2>5. ASSUME NEW x \in Realm, NEW v \in User
          PROVE  /\ p.counter[x][v] = Cardinality(CountedFor(p, U, R, x, v))
                 /\ UserQuota # 0 => Cardinality(CountedFor(p, U, R, x, v)) <= UserQuota
      <3>1. /\ q.counter[x][v] = Cardinality(CountedFor(q, U, R, x, v))
            /\ UserQuota # 0 => Cardinality(CountedFor(q, U, R, x, v)) <= UserQuota
        BY <1>6 DEF QuotaCount
      <3>2. Cardinality(CountedFor(p, U, R, x, v)) \in Nat
        BY <2>2
      <3>3. CASE x = r /\ v = u
        BY <1>3, <2>1, <2>3, <3>1, <3>2, <3>3
      <3>4. CASE ~(x = r /\ v = u)
        BY <1>3, <2>1, <3>1, <3>2, <3>4
      <3> QED
        BY <3>3, <3>4
    <2> QED
      BY <2>4, <2>5 DEF QuotaCount
  <1> QED
    BY <1>1, <1>5, <1>6 DEF p

(* A realm that is made: nobody took from it yet.                          *)
LEMMA TouchedCounts ==
  ASSUME NEW q, NEW U, NEW R, NEW r \in Realm, Default \in Realm, QuotaShape(q, U, R, known)
  PROVE  /\ QuotaShape(Touched(q, r), U, R, known \cup {r})
         /\ Touched(q, r).used = q.used
         /\ \A e1, e2 \in BOOLEAN :
              QuotaCount(q, U, R, e1) /\ (e2 => e1 /\ r \in known)
                => QuotaCount(Touched(q, r), U, R, e2)
  <1> DEFINE p == Touched(q, r)
  <1>1. CASE r \in known
    <2>1. p = q /\ known \cup {r} = known
      BY <1>1 DEF Touched
    <2> QED
      BY <2>1 DEF QuotaCount
  <1>2. CASE r \notin known
    <2>1. /\ p.total = [q.total EXCEPT ![r] = q.total[Default]]
          /\ p.counter = q.counter /\ p.used = q.used
          /\ p = [total |-> p.total, counter |-> p.counter, used |-> p.used]
      BY ZenonT(30), <1>2 DEF Touched, QuotaShape
    <2> HIDE DEF p
    <2>2. q.total \in [Realm -> Nat] /\ q.counter \in [Realm -> [User -> Nat]]
      BY DEF QuotaShape
    <2>3. p.total[r] \in Nat /\ p.total \in [Realm -> Nat]
          /\ \A x \in Realm : x # r => p.total[x] = q.total[x]
      BY <2>1, <2>2
    <2>4. QuotaShape(p, U, R, known \cup {r})
      BY <2>1, <2>2, <2>3 DEF QuotaShape
    <2>5. /\ \A x : CountedIn(p, R, x) = CountedIn(q, R, x)
          /\ \A x, v : CountedFor(p, U, R, x, v) = CountedFor(q, U, R, x, v)
      BY <2>1 DEF CountedIn, CountedFor
    <2>6. CountedIn(p, R, r) = {}
      BY <1>2, <2>1 DEF CountedIn, QuotaShape
    <2>7. ASSUME NEW e1 \in BOOLEAN, QuotaCount(q, U, R, e1) PROVE QuotaCount(p, U, R, FALSE)
      BY <2>1, <2>3, <2>5, <2>6, <2>7, FS_EmptySet DEF QuotaCount
    <2> QED
      BY <1>2, <2>1, <2>4, <2>7, Zenon DEF p
  <1> QED
    BY <1>1, <1>2

LEMMA QuotaInitInv == QuotaInit => QuotaInv
  <1> SUFFICES ASSUME QuotaInit PROVE QuotaInv
    OBVIOUS
  <1>1. /\ Now.used = {} /\ Now.total = [r \in Realm |-> 0]
        /\ Now.counter = [r \in Realm |-> [u \in User |-> 0]]
        /\ Now = [total |-> Now.total, counter |-> Now.counter, used |-> Now.used]
    BY DEF QuotaInit, Now
  <1>2. QuotaShape(Now, user, realm, known)
    BY <1>1, FS_EmptySet, QuotaAssumption DEF QuotaInit, QuotaShape
  <1>3. QuotaCount(Now, user, realm, known = Configured)
    <2>1. \A r, u : CountedIn(Now, realm, r) = {} /\ CountedFor(Now, user, realm, r, u) = {}
      BY <1>1 DEF CountedIn, CountedFor
    <2> QED
      BY <1>1, <2>1, FS_EmptySet, QuotaAssumption DEF QuotaCount
  <1> QED
    BY <1>2, <1>3, QuotaAssumption DEF QuotaInit, QuotaInv

(* What a handler leaves behind: the rest of the invariant.                *)
LEMMA QuotaBecomes ==
  ASSUME QuotaInv, NEW q, NEW K, NEW U \in [Sess -> User \cup {NoUser}],
         NEW R \in [Sess -> Realm \cup {NoUser}],
         NEW S \in [Sess -> {"none", "open", "alloc", "parked"}],
         Becomes(q), known' = K, user' = U, realm' = R, state' = S,
         known \subseteq K, K \subseteq Realm, QuotaShape(q, U, R, K),
         \A s \in Sess : S[s] \in {"alloc", "parked"} => U[s] \in User /\ R[s] \in K,
         ~strayed' => QuotaCount(q, U, R, K = Configured)
  PROVE  QuotaInv'
  <1>1. Now' = [total |-> q.total, counter |-> q.counter, used |-> q.used]
    BY DEF Becomes, Now
  <1>2. Now' = q
    BY <1>1 DEF QuotaShape
  <1> QED
    BY <1>2, Zenon DEF QuotaInv

LEMMA OpenInv ==
  ASSUME QuotaInv, NEW s \in Sess, Open(s)
  PROVE  QuotaInv'
  <1>1. Now' = Now
    BY DEF Open, Now
  <1>2. \A x \in Sess : state'[x] \in {"alloc", "parked"} => state[x] \in {"alloc", "parked"}
    BY DEF Open, QuotaInv
  <1>3. state' \in [Sess -> {"none", "open", "alloc", "parked"}]
    BY DEF Open, QuotaInv
  <1> QED
    BY <1>1, <1>2, <1>3, Zenon DEF Open, QuotaInv

LEMMA NewRealmInv ==
  ASSUME QuotaInv, NEW r \in Realm, NewRealm(r)
  PROVE  QuotaInv'
  <1> DEFINE p == Touched(Now, r)
             K == known \cup {r}
  <1>0. Default \in Realm /\ QuotaShape(Now, user, realm, known) /\ Configured \subseteq known
    BY QuotaAssumption DEF QuotaInv
  <1>1. /\ QuotaShape(p, user, realm, K)
        /\ QuotaCount(Now, user, realm, known = Configured)
             => QuotaCount(p, user, realm, K = Configured)
    <2>1. K = Configured => known = Configured /\ r \in known
      BY <1>0
    <2> QED
      BY ZenonT(30), <1>0, <2>1, TouchedCounts
  <1> HIDE DEF p
  <1> QED
    BY <1>0, <1>1, QuotaBecomes DEF NewRealm, QuotaInv, p

LEMMA ConnectionBindInv ==
  ASSUME QuotaInv, NEW s \in Sess, NEW r \in Realm, ConnectionBind(s, r)
  PROVE  QuotaInv'
  <1> DEFINE p == Touched(Now, r)
             K == known \cup {r}
             R == [realm EXCEPT ![s] = r]
  <1>0. Default \in Realm /\ QuotaShape(Now, user, realm, known) /\ Configured \subseteq known
    BY QuotaAssumption DEF QuotaInv
  <1>1. /\ QuotaShape(p, user, realm, K) /\ p.used = Now.used
        /\ QuotaCount(Now, user, realm, known = Configured)
             => QuotaCount(p, user, realm, K = Configured)
    <2>1. K = Configured => known = Configured /\ r \in known
      BY <1>0
    <2> QED
      BY ZenonT(30), <1>0, <2>1, TouchedCounts
  <1>2. Becomes(p) /\ known' = K /\ realm' = R /\ UNCHANGED <<state, user>>
    BY DEF ConnectionBind
  <1>3. R \in [Sess -> Realm \cup {NoUser}] /\ R[s] = r /\ \A x \in Sess : x # s => R[x] = realm[x]
    BY DEF QuotaInv
  <1>4. QuotaShape(p, user, R, K)
    BY <1>1, <1>3 DEF QuotaShape
  <1>5. ~strayed' => QuotaCount(p, user, R, K = Configured)
    <2>1. SUFFICES ASSUME ~strayed' PROVE QuotaCount(p, user, R, K = Configured)
      OBVIOUS
    <2>2. ~strayed /\ (s \in used => realm[s] = r)
      BY ZenonT(30), <2>1 DEF ConnectionBind
    <2>3. \A x \in p.used : R[x] = realm[x]
      BY <1>0, <1>1, <1>3, <2>2 DEF Now, QuotaShape
    <2>4. QuotaCount(p, user, realm, K = Configured)
      BY <1>1, <2>2 DEF QuotaInv
    <2> HIDE DEF p, R, K
    <2> QED
      BY ZenonT(30), <2>3, <2>4, QuotaRelabel
  <1>6. \A x \in Sess : state[x] \in {"alloc", "parked"} => user[x] \in User /\ R[x] \in K
    BY <1>3 DEF QuotaInv
  <1>7. K \subseteq Realm /\ known \subseteq K
    BY DEF QuotaInv
  <1> HIDE DEF p, R, K
  <1> QED
    BY <1>2, <1>3, <1>4, <1>5, <1>6, <1>7, QuotaBecomes DEF QuotaInv

LEMMA AllocateInv ==
  ASSUME QuotaInv, NEW s \in Sess, NEW u \in User, NEW r \in Realm, NEW granted \in BOOLEAN,
         Allocate(s, u, r, granted)
  PROVE  QuotaInv'
  <1> DEFINE t == Touched(Now, r)
             p == Inc(t, s, u, r)
             K == known \cup {r}
             U == [user EXCEPT ![s] = u]
             R == [realm EXCEPT ![s] = r]
             S == [state EXCEPT ![s] = IF granted THEN "alloc" ELSE @]
             exact == (K = Configured)
  <1>0. Default \in Realm /\ QuotaShape(Now, user, realm, known) /\ Configured \subseteq known
    BY QuotaAssumption DEF QuotaInv
  <1>1. /\ QuotaShape(t, user, realm, K) /\ t.used = Now.used
        /\ QuotaCount(Now, user, realm, known = Configured) => QuotaCount(t, user, realm, exact)
    <2>1. K = Configured => known = Configured /\ r \in known
      BY <1>0
    <2> QED
      BY ZenonT(30), <1>0, <2>1, TouchedCounts
  <1>2. /\ Becomes(p) /\ known' = K /\ user' = U /\ realm' = R /\ state' = S
        /\ user[s] \in {NoUser, u} /\ realm[s] \in {NoUser, r} /\ state[s] = "open"
        /\ strayed' = strayed
    BY DEF Allocate
  <1>3. /\ U \in [Sess -> User \cup {NoUser}] /\ U[s] = u
        /\ R \in [Sess -> Realm \cup {NoUser}] /\ R[s] = r
        /\ \A x \in Sess : x # s => R[x] = realm[x] /\ U[x] = user[x]
    BY DEF QuotaInv
  <1>4. \A x \in t.used : U[x] = user[x] /\ R[x] = realm[x]
    <2>1. t.used \subseteq Sess /\ (s \in t.used => user[s] \in User /\ realm[s] \in Realm)
      BY <1>1 DEF QuotaShape
    <2>2. s \in t.used => user[s] = u /\ realm[s] = r
      BY <1>2, <2>1, QuotaAssumption
    <2> QED
      BY <1>3, <2>1, <2>2
  <1>5. S \in [Sess -> {"none", "open", "alloc", "parked"}]
    BY DEF QuotaInv
  <1>6. K \subseteq Realm /\ known \subseteq K /\ r \in K
    BY DEF QuotaInv
  <1>7. \A x \in Sess : S[x] \in {"alloc", "parked"} => U[x] \in User /\ R[x] \in K
    <2>1. \A x \in Sess : x # s => S[x] = state[x]
      BY DEF QuotaInv
    <2> HIDE DEF S, U, R
    <2> QED
      BY <1>3, <1>6, <2>1 DEF QuotaInv
  <1>8. exact \in BOOLEAN
    OBVIOUS
  <1> HIDE DEF t, K, U, R, S, exact
  <1>9. /\ QuotaShape(t, U, R, K)
        /\ QuotaCount(t, user, realm, exact) => QuotaCount(t, U, R, exact)
    BY <1>1, <1>4, <1>8, QuotaRelabel
  <1>10. /\ QuotaShape(p, U, R, K)
         /\ QuotaCount(t, U, R, exact) => QuotaCount(p, U, R, exact)
    BY <1>3, <1>6, <1>8, <1>9, IncCounts
  <1>11. ~strayed' => QuotaCount(p, U, R, K = Configured)
    BY <1>1, <1>2, <1>9, <1>10 DEF QuotaInv, exact
  <1> HIDE DEF p
  <1> QED
    BY <1>2, <1>3, <1>5, <1>6, <1>7, <1>10, <1>11, QuotaBecomes

LEMMA ShutdownInv ==
  ASSUME QuotaInv, NEW s \in Sess, NEW force \in BOOLEAN, Shutdown(s, force)
  PROVE  QuotaInv'
  <1> DEFINE parks == ~force /\ s \in Mobile /\ state[s] \in {"alloc", "parked"}
             p == IF s \in used THEN Dec(Now, s, user[s], realm[s]) ELSE Now
             exact == (known = Configured)
             S == [state EXCEPT ![s] = IF parks THEN "parked" ELSE "none"]
             U == IF parks THEN user ELSE [user EXCEPT ![s] = NoUser]
             R == IF parks THEN realm ELSE [realm EXCEPT ![s] = NoUser]
  <1>0. QuotaShape(Now, user, realm, known) /\ Now.used = used /\ exact \in BOOLEAN
    BY DEF QuotaInv, Now
  <1>1. /\ QuotaShape(p, user, realm, known) /\ p.used = used \ {s}
        /\ QuotaCount(Now, user, realm, exact) => QuotaCount(p, user, realm, exact)
    <2>1. CASE s \in used
      <3>1. p = Dec(Now, s, user[s], realm[s]) /\ s \in Now.used
        BY <1>0, <2>1
      <3> HIDE DEF p, exact
      <3> QED
        BY <1>0, <3>1, DecCounts
    <2>2. CASE s \notin used
      BY <1>0, <2>2
    <2> QED
      BY ZenonT(30), <2>1, <2>2
  <1>2. /\ Becomes(p) /\ UNCHANGED <<known, strayed>>
        /\ state' = S /\ user' = U /\ realm' = R
    BY DEF Shutdown
  <1>3. /\ U \in [Sess -> User \cup {NoUser}] /\ R \in [Sess -> Realm \cup {NoUser}]
        /\ \A x \in Sess : x # s => U[x] = user[x] /\ R[x] = realm[x]
    BY <1>2 DEF QuotaInv
  <1>4. /\ S \in [Sess -> {"none", "open", "alloc", "parked"}]
        /\ \A x \in Sess : x # s => S[x] = state[x]
    BY <1>2 DEF QuotaInv
  <1>5. \A x \in Sess :
          S[x] \in {"alloc", "parked"} => U[x] \in User /\ R[x] \in known
    <2>1. S[s] \in {"alloc", "parked"} => parks
      BY <1>2 DEF QuotaInv
    <2>2. parks => U = user /\ R = realm /\ user[s] \in User /\ realm[s] \in known
      BY <1>2 DEF QuotaInv
    <2> HIDE DEF parks
    <2> QED
      BY <1>3, <1>4, <2>1, <2>2 DEF QuotaInv
  <1> HIDE DEF p, exact, S, U, R, parks
  <1>6. \A x \in p.used : U[x] = user[x] /\ R[x] = realm[x]
    BY <1>0, <1>1, <1>3 DEF QuotaShape
  <1>7. /\ QuotaShape(p, U, R, known)
        /\ QuotaCount(p, user, realm, exact) => QuotaCount(p, U, R, exact)
    <2>1. exact \in BOOLEAN /\ QuotaShape(p, user, realm, known)
      BY <1>0, <1>1
    <2> QED
      BY <1>6, <2>1, QuotaRelabel
  <1>8. ~strayed' => QuotaCount(p, U, R, known = Configured)
    BY ZenonT(30), <1>1, <1>2, <1>7 DEF QuotaInv, exact
  <1>9. known \subseteq Realm
    BY DEF QuotaInv
  <1> QED
    BY <1>2, <1>3, <1>4, <1>5, <1>7, <1>8, <1>9, QuotaBecomes

(* copy_auth_parameters moves what session s took to its new user.         *)
LEMMA CopyAuthCounts ==
  ASSUME NEW q, NEW U, NEW R, NEW U2, NEW R2, NEW K, NEW exact \in BOOLEAN, NEW s \in Sess,
         NEW u, NEW r, s \in q.used => u = U[s] /\ r = R[s],
         QuotaShape(q, U, R, K), U2[s] \in User, R2[s] \in K,
         \A x \in q.used : x # s => U2[x] = U[x] /\ R2[x] = R[x]
  PROVE  /\ QuotaShape(CopyAuth(q, s, u, r, U2[s], R2[s]), U2, R2, K)
         /\ QuotaCount(q, U, R, exact)
              => QuotaCount(CopyAuth(q, s, u, r, U2[s], R2[s]), U2, R2, exact)
  <1> DEFINE p == IF s \in q.used THEN Dec(q, s, u, r) ELSE q
  <1>1. /\ QuotaShape(p, U, R, K) /\ p.used = q.used \ {s}
        /\ QuotaCount(q, U, R, exact) => QuotaCount(p, U, R, exact)
    <2>1. CASE s \in q.used
      <3>1. p = Dec(q, s, U[s], R[s])
        BY <2>1
      <3> HIDE DEF p
      <3> QED
        BY <2>1, <3>1, DecCounts
    <2>2. CASE s \notin q.used
      BY <2>2
    <2> QED
      BY ZenonT(30), <2>1, <2>2
  <1>2. CopyAuth(q, s, u, r, U2[s], R2[s]) = Inc(p, s, U2[s], R2[s])
    BY DEF CopyAuth
  <1> HIDE DEF p
  <1>3. \A x \in p.used : U2[x] = U[x] /\ R2[x] = R[x]
    BY <1>1
  <1>4. /\ QuotaShape(p, U2, R2, K)
        /\ QuotaCount(p, U, R, exact) => QuotaCount(p, U2, R2, exact)
    BY <1>1, <1>3, QuotaRelabel
  <1>5. /\ QuotaShape(Inc(p, s, U2[s], R2[s]), U2, R2, K)
        /\ QuotaCount(p, U2, R2, exact) => QuotaCount(Inc(p, s, U2[s], R2[s]), U2, R2, exact)
    BY <1>4, IncCounts
  <1> QED
    BY <1>1, <1>2, <1>4, <1>5

(* What session n is given before the request is authenticated.            *)
FirstQuota(n, s) ==
  IF user[n] = NoUser THEN CopyAuth(Now, n, NoUser, NoUser, user[s], realm[s]) ELSE Now
FirstUser(n, s) == IF user[n] = NoUser THEN [user EXCEPT ![n] = user[s]] ELSE user
FirstRealm(n, s) == [realm EXCEPT ![n] = realm[s]]

LEMMA TransferTypes ==
  ASSUME QuotaInv, NEW n \in Sess, NEW s \in Sess, n # s, state[s] \in {"alloc", "parked"},
         NEW U, NEW R, U = FirstUser(n, s), R = FirstRealm(n, s)
  PROVE  /\ U \in [Sess -> User \cup {NoUser}] /\ R \in [Sess -> Realm \cup {NoUser}]
         /\ U[n] \in User /\ R[n] = realm[s] /\ U[s] = user[s] /\ R[s] = realm[s]
         /\ U[n] = (IF user[n] = NoUser THEN user[s] ELSE user[n])
         /\ \A x \in Sess : x # n => U[x] = user[x] /\ R[x] = realm[x]
         /\ user[s] \in User /\ realm[s] \in known /\ realm[s] \in Realm
  <1>0. user[s] \in User /\ realm[s] \in known /\ realm[s] \in Realm
    BY DEF QuotaInv
  <1> QED
    BY <1>0 DEF QuotaInv, FirstUser, FirstRealm

LEMMA TransferFirst ==
  ASSUME QuotaInv, NEW n \in Sess, NEW s \in Sess, n # s,
         state[s] \in {"alloc", "parked"}, NEW exact \in BOOLEAN,
         NEW q, NEW U, NEW R,
         q = FirstQuota(n, s), U = FirstUser(n, s), R = FirstRealm(n, s)
  PROVE  /\ QuotaShape(q, U, R, known)
         /\ (n \in used => realm[n] = realm[s]) /\ QuotaCount(Now, user, realm, exact)
              => QuotaCount(q, U, R, exact)
  <1>0. /\ QuotaShape(Now, user, realm, known) /\ Now.used = used /\ used \subseteq Sess
    BY DEF QuotaInv, QuotaShape, Now
  <1>1. /\ U[n] \in User /\ R[n] = realm[s] /\ realm[s] \in known
        /\ U[n] = (IF user[n] = NoUser THEN user[s] ELSE user[n])
        /\ \A x \in Sess : x # n => U[x] = user[x] /\ R[x] = realm[x]
    BY TransferTypes
  <1>2. CASE user[n] = NoUser
    <2>1. n \notin used
      BY ZenonT(30), <1>0, <1>2, QuotaAssumption DEF QuotaShape
    <2>2. q = CopyAuth(Now, n, NoUser, NoUser, U[n], R[n])
      BY <1>1, <1>2 DEF FirstQuota
    <2>3. /\ U[n] \in User /\ R[n] \in known /\ n \notin Now.used
          /\ \A x \in Now.used : x # n => U[x] = user[x] /\ R[x] = realm[x]
      BY <1>0, <1>1, <2>1
    <2>4. /\ QuotaShape(q, U, R, known)
          /\ QuotaCount(Now, user, realm, exact) => QuotaCount(q, U, R, exact)
      <3>1. QuotaShape(Now, user, realm, known)
        BY ZenonT(30), <1>0
      <3>2. /\ QuotaShape(CopyAuth(Now, n, NoUser, NoUser, U[n], R[n]), U, R, known)
            /\ QuotaCount(Now, user, realm, exact)
                 => QuotaCount(CopyAuth(Now, n, NoUser, NoUser, U[n], R[n]), U, R, exact)
        BY <2>3, <3>1, CopyAuthCounts
      <3> QED
        BY <2>2, <3>2, Zenon
    <2> QED
      BY ZenonT(30), <2>4
  <1>3. CASE user[n] # NoUser
    <2>1. q = Now /\ U = user
      BY <1>3 DEF FirstQuota, FirstUser
    <2>2. QuotaShape(q, U, R, known)
      BY ZenonT(30), <1>0, <1>1, <2>1 DEF QuotaShape
    <2>3. ASSUME n \in used => realm[n] = realm[s]
          PROVE  QuotaCount(Now, user, realm, exact) => QuotaCount(q, U, R, exact)
      <3>1. \A x \in q.used : U[x] = user[x] /\ R[x] = realm[x]
        BY <1>0, <1>1, <2>1, <2>3
      <3> QED
        BY <2>1, <3>1, QuotaRelabel
    <2> QED
      BY ZenonT(30), <2>2, <2>3
  <1> QED
    BY <1>2, <1>3

LEMMA TransferRefusedInv ==
  ASSUME QuotaInv, NEW n \in Sess, NEW s \in Sess, TransferRefused(n, s)
  PROVE  QuotaInv'
  <1> DEFINE q == FirstQuota(n, s)
             U == FirstUser(n, s)
             R == FirstRealm(n, s)
             exact == (known = Configured)
  <1>1. /\ Becomes(q) /\ user' = U /\ realm' = R /\ UNCHANGED <<known, state>>
        /\ strayed' = (strayed \/ (n \in used /\ realm[n] # realm[s]))
        /\ n # s /\ state[s] \in {"alloc", "parked"} /\ state[n] = "open"
    BY DEF TransferRefused, FirstQuota, FirstUser, FirstRealm
  <1>2. exact \in BOOLEAN
    OBVIOUS
  <1>3. /\ U \in [Sess -> User \cup {NoUser}] /\ R \in [Sess -> Realm \cup {NoUser}]
        /\ \A x \in Sess : x # n => U[x] = user[x] /\ R[x] = realm[x]
    BY <1>1, TransferTypes
  <1>4. /\ QuotaShape(q, U, R, known)
        /\ (n \in used => realm[n] = realm[s]) /\ QuotaCount(Now, user, realm, exact)
             => QuotaCount(q, U, R, exact)
    <2> HIDE DEF exact
    <2> QED
      BY ZenonT(30), <1>1, <1>2, TransferFirst
  <1> HIDE DEF q, U, R
  <1>5. ~strayed' => QuotaCount(q, U, R, known = Configured)
    BY ZenonT(30), <1>1, <1>4 DEF QuotaInv
  <1>6. \A x \in Sess : state[x] \in {"alloc", "parked"} => U[x] \in User /\ R[x] \in known
    BY <1>1, <1>3 DEF QuotaInv
  <1>7. known \subseteq Realm /\ state \in [Sess -> {"none", "open", "alloc", "parked"}]
    BY DEF QuotaInv
  <1> QED
    BY <1>1, <1>3, <1>4, <1>5, <1>6, <1>7, QuotaBecomes

LEMMA TransferInv ==
  ASSUME QuotaInv, NEW n \in Sess, NEW s \in Sess, Transfer(n, s)
  PROVE  QuotaInv'
  <1> DEFINE q1 == FirstQuota(n, s)
             U1 == FirstUser(n, s)
             R1 == FirstRealm(n, s)
             u == IF user[n] = NoUser THEN user[s] ELSE user[n]
             r == realm[s]
             q2 == CopyAuth(q1, s, user[s], r, u, r)
             U2 == [U1 EXCEPT ![s] = u]
             q3 == IF n \in q2.used THEN Dec(q2, n, u, r) ELSE q2
             q4 == Inc(q3, s, u, r)
             U4 == [user EXCEPT ![n] = NoUser, ![s] = u]
             R4 == [realm EXCEPT ![n] = NoUser]
             S4 == [state EXCEPT ![n] = "none", ![s] = "alloc"]
             exact == (known = Configured)
             straight == (n \in used => realm[n] = realm[s])
  <1>1. /\ n # s /\ state[n] = "open" /\ state[s] \in {"alloc", "parked"}
        /\ user' = U4 /\ realm' = R4 /\ state' = S4 /\ known' = known
        /\ strayed' = (strayed \/ (n \in used /\ realm[n] # realm[s]))
    BY DEF Transfer
  <1>2. Becomes(q4)
    <2>1. CASE user[n] = NoUser
      BY <2>1 DEF Transfer, FirstQuota
    <2>2. CASE user[n] # NoUser
      BY <2>2 DEF Transfer, FirstQuota
    <2> QED
      BY ZenonT(30), <2>1, <2>2
  <1>3. exact \in BOOLEAN
    OBVIOUS
  <1>4. /\ U1 \in [Sess -> User \cup {NoUser}] /\ R1 \in [Sess -> Realm \cup {NoUser}]
        /\ U1[n] = u /\ u \in User /\ R1[n] = r /\ U1[s] = user[s] /\ R1[s] = r
        /\ \A x \in Sess : x # n => U1[x] = user[x] /\ R1[x] = realm[x]
        /\ r \in known /\ r \in Realm
    BY <1>1, TransferTypes
  <1>5. /\ QuotaShape(q1, U1, R1, known)
        /\ straight /\ QuotaCount(Now, user, realm, exact) => QuotaCount(q1, U1, R1, exact)
    <2> HIDE DEF exact
    <2> QED
      BY <1>1, <1>3, TransferFirst
  <1> HIDE DEF q1, U1, R1, u, exact
  <1>6. /\ U2[s] = u /\ U2[n] = u /\ \A x \in Sess : x # s => U2[x] = U1[x]
    BY <1>1, <1>4
  <1> HIDE DEF U2
  <1>7. /\ QuotaShape(q2, U2, R1, known)
        /\ QuotaCount(q1, U1, R1, exact) => QuotaCount(q2, U2, R1, exact)
    <2>1. /\ U2[s] \in User /\ R1[s] \in known
          /\ \A x \in q1.used : x # s => U2[x] = U1[x]
          /\ s \in q1.used => user[s] = U1[s] /\ r = R1[s]
      BY <1>4, <1>5, <1>6 DEF QuotaShape
    <2>2. /\ QuotaShape(CopyAuth(q1, s, user[s], r, U2[s], R1[s]), U2, R1, known)
          /\ QuotaCount(q1, U1, R1, exact)
               => QuotaCount(CopyAuth(q1, s, user[s], r, U2[s], R1[s]), U2, R1, exact)
      BY ZenonT(30), <1>3, <1>5, <2>1, CopyAuthCounts
    <2> QED
      BY ZenonT(30), <1>4, <1>6, <2>2
  <1> HIDE DEF q2
  <1>8. /\ QuotaShape(q3, U2, R1, known) /\ q3.used = q2.used \ {n}
        /\ QuotaCount(q2, U2, R1, exact) => QuotaCount(q3, U2, R1, exact)
    <2>1. CASE n \in q2.used
      <3>1. q3 = Dec(q2, n, U2[n], R1[n])
        BY <1>4, <1>6, <2>1
      <3> HIDE DEF q3
      <3> QED
        BY <1>3, <1>7, <2>1, <3>1, DecCounts
    <2>2. CASE n \notin q2.used
      BY <1>7, <2>2
    <2> QED
      BY ZenonT(30), <2>1, <2>2
  <1> HIDE DEF q3
  <1>9. /\ QuotaShape(q4, U2, R1, known)
        /\ QuotaCount(q3, U2, R1, exact) => QuotaCount(q4, U2, R1, exact)
    <2>1. q4 = Inc(q3, s, U2[s], R1[s]) /\ U2[s] \in User /\ R1[s] \in known
      BY <1>4, <1>6
    <2> HIDE DEF q4
    <2> QED
      BY <1>3, <1>8, <2>1, IncCounts
  <1>10. n \notin q4.used
    <2>1. n \notin q3.used
      BY <1>8
    <2>2. q4.used = q3.used \/ q4.used = q3.used \cup {s}
      BY DEF Inc
    <2> QED
      BY <1>1, <2>1, <2>2
  <1> HIDE DEF q4
  <1>11. /\ U4 \in [Sess -> User \cup {NoUser}] /\ R4 \in [Sess -> Realm \cup {NoUser}]
         /\ S4 \in [Sess -> {"none", "open", "alloc", "parked"}]
         /\ U4[s] = u /\ R4[s] = r /\ S4[n] = "none"
         /\ \A x \in Sess \ {n, s} : U4[x] = user[x] /\ S4[x] = state[x]
         /\ \A x \in Sess \ {n} : R4[x] = realm[x]
    BY <1>1, <1>4 DEF QuotaInv
  <1>12. \A x \in Sess : S4[x] \in {"alloc", "parked"} => U4[x] \in User /\ R4[x] \in known
    BY <1>4, <1>11 DEF QuotaInv
  <1> HIDE DEF U4, R4, S4
  <1>13. \A x \in q4.used : U4[x] = U2[x] /\ R4[x] = R1[x]
    <2>1. q4.used \subseteq Sess \ {n}
      BY ZenonT(30), <1>9, <1>10 DEF QuotaShape
    <2> QED
      BY <1>4, <1>6, <1>11, <2>1
  <1>14. /\ QuotaShape(q4, U4, R4, known)
         /\ QuotaCount(q4, U2, R1, exact) => QuotaCount(q4, U4, R4, exact)
    BY <1>3, <1>9, <1>13, QuotaRelabel
  <1>15. ~strayed' => QuotaCount(q4, U4, R4, known = Configured)
    BY ZenonT(30), <1>1, <1>5, <1>7, <1>8, <1>9, <1>14 DEF QuotaInv, exact
  <1>16. known \subseteq Realm
    BY DEF QuotaInv
  <1> QED
    BY ZenonT(30), <1>1, <1>2, <1>11, <1>12, <1>14, <1>15, <1>16, QuotaBecomes

LEMMA QuotaNextInv == QuotaInv /\ [QuotaNext]_quotavars => QuotaInv'
  <1> SUFFICES ASSUME QuotaInv, [QuotaNext]_quotavars PROVE QuotaInv'
    OBVIOUS
  <1>1. CASE UNCHANGED quotavars
    <2>1. Now' = Now
      BY <1>1 DEF quotavars, Now
    <2> QED
      BY <1>1, <2>1, Zenon DEF quotavars, QuotaInv
  <1> QED
    BY <1>1, OpenInv, AllocateInv, ShutdownInv, TransferInv, TransferRefusedInv,
       ConnectionBindInv, NewRealmInv DEF QuotaNext

LEMMA QuotaInvImplies == QuotaInv => CountersMatch /\ TakersWithinQuota
  <1> SUFFICES ASSUME QuotaInv PROVE CountersMatch /\ TakersWithinQuota
    OBVIOUS
  <1>1. /\ \A r : CountedIn(Now, realm, r) = Takers(r)
        /\ \A r, u : CountedFor(Now, user, realm, r, u) = {s \in Takers(r) : user[s] = u}
    BY DEF CountedIn, CountedFor, Takers, Now
  <1>2. Now.total = total /\ Now.counter = counter
    BY DEF Now
  <1>3. ~strayed => QuotaCount(Now, user, realm, known = Configured)
    BY DEF QuotaInv
  <1>4. ASSUME ~strayed, NEW r \in Realm
        PROVE  /\ total[r] >= Cardinality(Takers(r))
               /\ known = Configured => total[r] = Cardinality(Takers(r))
               /\ TotalQuota # 0 => Cardinality(Takers(r)) <= TotalQuota
    BY <1>1, <1>2, <1>3, <1>4 DEF QuotaCount
  <1>5. ASSUME ~strayed, NEW r \in Realm, NEW u \in User
        PROVE  /\ counter[r][u] = Cardinality({s \in Takers(r) : user[s] = u})
               /\ UserQuota # 0 => Cardinality({s \in Takers(r) : user[s] = u}) <= UserQuota
    <2>1. /\ Now.counter[r][u] = Cardinality(CountedFor(Now, user, realm, r, u))
          /\ UserQuota # 0 => Cardinality(CountedFor(Now, user, realm, r, u)) <= UserQuota
      BY <1>3, <1>5 DEF QuotaCount
    <2> QED
      BY <1>1, <1>2, <2>1
  <1>6. CountersMatch
    BY <1>4, <1>5, Zenon DEF CountersMatch
  <1>7. TakersWithinQuota
    BY <1>4, <1>5, Zenon DEF TakersWithinQuota
  <1> QED
    BY <1>6, <1>7

(* Whichever way sessions of all threads allocate, park, hand over and     *)
(* close, inc_quota and dec_quota are called in pairs: the counters of a   *)
(* realm are the sessions that took from it, as long as none changed its   *)
(* realm; the total of a realm made on the way is never too low.           *)
THEOREM AlwaysCountersMatch == QuotaSpec => []CountersMatch
  BY QuotaInitInv, QuotaNextInv, QuotaInvImplies, PTL DEF QuotaSpec

(* So no more sessions count for a realm, or for a user in it, than        *)
(* check_new_allocation_quota admits, whatever quotas are set.             *)
THEOREM AlwaysTakersWithinQuota == QuotaSpec => []TakersWithinQuota
  BY QuotaInitInv, QuotaNextInv, QuotaInvImplies, PTL DEF QuotaSpec

-----------------------------------------------------------------------------
(* The life of the process: a drain *)

LfRelay == [draining : BOOLEAN, busy : BOOLEAN, old : Nat, new : Nat]
LfProcess ==
  [drain : BOOLEAN, phase : {0, 1}, stop : BOOLEAN, why : {"none", "signal", "drain"}, count : Nat]

(* The allocations of the servers S, one by one.                           *)
Allocations(S, R) == UNION {{r} \X (1 .. R[r].old + R[r].new) : r \in S}

(* The count is that of the allocations, and a drain that has ended the    *)
(* process found none: from then on only new ones come.                    *)
LfCounted(S, R, p) ==
  /\ R \in [S -> LfRelay] /\ p \in LfProcess
  /\ IsFiniteSet(Allocations(S, R)) /\ p.count = Cardinality(Allocations(S, R))
LfSpared(S, R, p) == p.why = "drain" => p.drain /\ \A r \in S : R[r].old = 0
LfInv == lcfg \in LfSetup /\ LfCounted(LfServers, lrel, lproc) /\ LfSpared(LfServers, lrel, lproc)

LEMMA AllocationAdded ==
  ASSUME NEW S, NEW R, NEW R2, NEW r \in S, NEW n \in Nat, R[r].old + R[r].new = n,
         R2[r].old + R2[r].new = n + 1, \A q \in S : q # r => R2[q] = R[q],
         IsFiniteSet(Allocations(S, R))
  PROVE  /\ IsFiniteSet(Allocations(S, R2))
         /\ Cardinality(Allocations(S, R2)) = Cardinality(Allocations(S, R)) + 1
  <1> DEFINE e == <<r, n + 1>>
             A == Allocations(S, R)
             B == Allocations(S, R2)
  <1>1. B = A \cup {e}
    <2>1. ASSUME NEW x PROVE x \in B <=> x \in A \cup {e}
      <3>1. x \in B <=> \E u \in S : x \in {u} \X (1 .. R2[u].old + R2[u].new)
        BY DEF Allocations
      <3>2. x \in A <=> \E u \in S : x \in {u} \X (1 .. R[u].old + R[u].new)
        BY DEF Allocations
      <3>3. x \in {r} \X (1 .. n + 1) <=> x \in {r} \X (1 .. n) \/ x = e
        OBVIOUS
      <3> HIDE DEF A, B, e
      <3> QED
        BY <3>1, <3>2, <3>3
    <2> QED
      BY <2>1
  <1>2. e \notin A
    <2>1. ASSUME NEW u \in S, e \in {u} \X (1 .. R[u].old + R[u].new) PROVE FALSE
      BY <2>1
    <2> QED
      BY <2>1 DEF Allocations
  <1> HIDE DEF A, B, e
  <1>3. IsFiniteSet(A)
    BY DEF A
  <1>4. IsFiniteSet(A \cup {e}) /\ Cardinality(A \cup {e}) = Cardinality(A) + 1
    BY <1>2, <1>3, FS_AddElement, FS_CardinalityType
  <1> QED
    BY <1>1, <1>4 DEF A, B

LEMMA AllocationRemoved ==
  ASSUME NEW S, NEW R, NEW R2, NEW r \in S, NEW n \in Nat, R2[r].old + R2[r].new = n,
         R[r].old + R[r].new = n + 1, \A q \in S : q # r => R2[q] = R[q],
         IsFiniteSet(Allocations(S, R))
  PROVE  /\ IsFiniteSet(Allocations(S, R2))
         /\ Cardinality(Allocations(S, R2)) = Cardinality(Allocations(S, R)) - 1
         /\ Cardinality(Allocations(S, R2)) \in Nat
  <1>1. Allocations(S, R2) \subseteq Allocations(S, R)
    <2>1. ASSUME NEW u \in S, NEW x \in {u} \X (1 .. R2[u].old + R2[u].new)
          PROVE  x \in {u} \X (1 .. R[u].old + R[u].new)
      BY <2>1
    <2> QED
      BY <2>1 DEF Allocations
  <1>2. IsFiniteSet(Allocations(S, R2))
    BY <1>1, FS_Subset
  <1>3. Cardinality(Allocations(S, R)) = Cardinality(Allocations(S, R2)) + 1
    BY <1>2, AllocationAdded
  <1> QED
    BY <1>2, <1>3, FS_CardinalityType

LEMMA AllocationsSame ==
  ASSUME NEW S, NEW R, NEW R2, \A q \in S : R2[q].old = R[q].old /\ R2[q].new = R[q].new
  PROVE  Allocations(S, R2) = Allocations(S, R)
  <1>1. ASSUME NEW x PROVE x \in Allocations(S, R2) <=> x \in Allocations(S, R)
    <2>1. x \in Allocations(S, R2) <=> \E u \in S : x \in {u} \X (1 .. R2[u].old + R2[u].new)
      BY DEF Allocations
    <2>2. x \in Allocations(S, R) <=> \E u \in S : x \in {u} \X (1 .. R[u].old + R[u].new)
      BY DEF Allocations
    <2> QED
      BY <2>1, <2>2
  <1> QED
    BY ZenonT(30), <1>1

LEMMA NoneCounted ==
  ASSUME NEW S, NEW R \in [S -> LfRelay], IsFiniteSet(Allocations(S, R)),
         Cardinality(Allocations(S, R)) = 0
  PROVE  \A r \in S : R[r].old = 0
  <1>1. Allocations(S, R) = {}
    BY FS_EmptySet
  <1>2. ASSUME NEW r \in S, R[r].old # 0 PROVE FALSE
    <2>1. R[r].old \in Nat /\ R[r].new \in Nat
      BY DEF LfRelay
    <2>2. <<r, 1>> \in {r} \X (1 .. R[r].old + R[r].new)
      BY <1>2, <2>1
    <2> QED
      BY <1>1, <2>2 DEF Allocations
  <1> QED
    BY <1>2

(* Steps that neither begin nor end an allocation and keep the count.      *)
LEMMA LfQuiet ==
  ASSUME LfInv, UNCHANGED lcfg, lrel' \in [LfServers -> LfRelay], lproc' \in LfProcess,
         \A r \in LfServers : lrel'[r].old = lrel[r].old /\ lrel'[r].new = lrel[r].new,
         lproc'.count = lproc.count, LfSpared(LfServers, lrel', lproc')
  PROVE  LfInv'
  <1>1. LfServers' = LfServers
    BY DEF LfServers, Relays
  <1>2. Allocations(LfServers, lrel') = Allocations(LfServers, lrel)
    <2> DEFINE S == LfServers
    <2> HIDE DEF S
    <2>1. \A r \in S : lrel'[r].old = lrel[r].old /\ lrel'[r].new = lrel[r].new
      BY DEF S
    <2>2. Allocations(S, lrel') = Allocations(S, lrel)
      BY <2>1, AllocationsSame
    <2> QED
      BY <2>2 DEF S
  <1>3. LfCounted(LfServers, lrel', lproc')
    BY <1>2 DEF LfInv, LfCounted
  <1> QED
    BY <1>1, <1>3 DEF LfInv

(* The main thread's own steps on the flags of the process.                *)
LEMMA LfMainInv ==
  ASSUME LfInv, enable_drain_mode \/ shutdown_handler \/ run_listener_server
  PROVE  LfInv'
  <1>0. /\ lproc \in LfProcess /\ lrel \in [LfServers -> LfRelay]
        /\ LfSpared(LfServers, lrel, lproc) /\ IsFiniteSet(Allocations(LfServers, lrel))
        /\ lproc.count = Cardinality(Allocations(LfServers, lrel))
    BY DEF LfInv, LfCounted
  <1>1. UNCHANGED <<lcfg, lrel>>
    BY DEF enable_drain_mode, shutdown_handler, run_listener_server
  <1>2. \/ lproc' = [lproc EXCEPT !.phase = 1]
        \/ lproc' = [lproc EXCEPT !.stop = TRUE, !.why = "signal"]
        \/ /\ lproc.drain /\ lproc.count = 0
           /\ lproc' = [lproc EXCEPT !.stop = TRUE, !.why = "drain"]
        \/ lproc' = lproc
    BY DEF enable_drain_mode, shutdown_handler, run_listener_server
  <1>3. /\ lproc' \in LfProcess /\ lproc'.count = lproc.count /\ lproc'.drain = lproc.drain
        /\ lproc'.why = "drain" => lproc.why = "drain" \/ (lproc.drain /\ lproc.count = 0)
    BY ZenonT(30), <1>0, <1>2 DEF LfProcess
  <1>4. lproc.count = 0 => \A r \in LfServers : lrel[r].old = 0
    BY ZenonT(30), <1>0, NoneCounted
  <1>5. LfSpared(LfServers, lrel, lproc')
    BY <1>0, <1>3, <1>4 DEF LfSpared
  <1> QED
    BY <1>0, <1>1, <1>3, <1>5, LfQuiet

LEMMA DrainServerInv ==
  ASSUME LfInv, DrainServer
  PROVE  LfInv'
  <1>0. /\ lproc \in LfProcess /\ lrel \in [LfServers -> LfRelay]
        /\ LfSpared(LfServers, lrel, lproc)
    BY DEF LfInv, LfCounted
  <1> DEFINE left == {r \in LfServers : ~lrel[r].draining}
             u == CHOOSE u \in left : \A v \in left : u[2] <= v[2]
  <1>1. CASE left = {}
    <2>1. lproc' = [lproc EXCEPT !.drain = TRUE] /\ UNCHANGED <<lcfg, lrel>>
      BY <1>1 DEF DrainServer
    <2>2. lproc' \in LfProcess /\ lproc'.count = lproc.count /\ lproc'.why = lproc.why /\ lproc'.drain
      BY ZenonT(30), <1>0, <2>1 DEF LfProcess
    <2>3. LfSpared(LfServers, lrel, lproc')
      BY <1>0, <2>2 DEF LfSpared
    <2> QED
      BY <1>0, <2>1, <2>2, <2>3, LfQuiet
  <1>2. CASE left # {}
    <2>1. lrel' = [lrel EXCEPT ![u].draining = TRUE] /\ UNCHANGED <<lcfg, lproc>>
      BY <1>2 DEF DrainServer
    <2> HIDE DEF u, left
    <2>2. /\ lrel' \in [LfServers -> LfRelay]
          /\ \A r \in LfServers : lrel'[r].old = lrel[r].old /\ lrel'[r].new = lrel[r].new
      BY ZenonT(30), <1>0, <2>1 DEF LfRelay
    <2>3. LfSpared(LfServers, lrel', lproc')
      BY <1>0, <2>1, <2>2 DEF LfSpared
    <2> QED
      BY <1>0, <2>1, <2>2, <2>3, LfQuiet
  <1> QED
    BY <1>1, <1>2

LEMMA AllocateChecksInv ==
  ASSUME LfInv, NEW r \in LfServers, AllocateChecks(r)
  PROVE  LfInv'
  <1>0. /\ lproc \in LfProcess /\ lrel \in [LfServers -> LfRelay]
        /\ LfSpared(LfServers, lrel, lproc)
    BY DEF LfInv, LfCounted
  <1>1. lrel' = [lrel EXCEPT ![r].busy = TRUE] /\ UNCHANGED <<lcfg, lproc>>
    BY DEF AllocateChecks
  <1>2. /\ lrel' \in [LfServers -> LfRelay]
        /\ \A q \in LfServers : lrel'[q].old = lrel[q].old /\ lrel'[q].new = lrel[q].new
    BY ZenonT(30), <1>0, <1>1 DEF LfRelay
  <1>3. LfSpared(LfServers, lrel', lproc')
    BY <1>0, <1>1, <1>2 DEF LfSpared
  <1> QED
    BY <1>0, <1>1, <1>2, <1>3, LfQuiet

(* What the handlers of allocations leave of a relay thread.               *)
Reported(R, r, drain) ==
  [R EXCEPT ![r].busy = FALSE, ![r].old = IF drain THEN @ ELSE @ + 1,
            ![r].new = IF drain THEN @ + 1 ELSE @]

LEMMA ReportedRelay ==
  ASSUME NEW S, NEW R \in [S -> LfRelay], NEW r \in S, NEW drain \in BOOLEAN,
         NEW N, N = Reported(R, r, drain)
  PROVE  /\ N \in [S -> LfRelay] /\ \A q \in S : q # r => N[q] = R[q]
         /\ R[r].old + R[r].new \in Nat /\ N[r].old + N[r].new = R[r].old + R[r].new + 1
         /\ drain => N[r].old = R[r].old
  <1>1. R[r].old \in Nat /\ R[r].new \in Nat
    BY DEF LfRelay
  <1>2. CASE drain
    BY <1>1, <1>2 DEF Reported, LfRelay
  <1>3. CASE ~drain
    BY <1>1, <1>3 DEF Reported, LfRelay
  <1> QED
    BY <1>2, <1>3

LEMMA AllocateReportsInv ==
  ASSUME LfInv, NEW r \in LfServers, AllocateReports(r)
  PROVE  LfInv'
  <1>0. /\ lproc \in LfProcess /\ lrel \in [LfServers -> LfRelay]
        /\ LfSpared(LfServers, lrel, lproc) /\ IsFiniteSet(Allocations(LfServers, lrel))
        /\ lproc.count = Cardinality(Allocations(LfServers, lrel))
    BY DEF LfInv, LfCounted
  <1>1. CASE lrel' = [lrel EXCEPT ![r].busy = FALSE] /\ UNCHANGED <<lcfg, lproc>>
    <2>1. /\ lrel' \in [LfServers -> LfRelay]
          /\ \A q \in LfServers : lrel'[q].old = lrel[q].old /\ lrel'[q].new = lrel[q].new
      BY ZenonT(30), <1>0, <1>1 DEF LfRelay
    <2>2. LfSpared(LfServers, lrel', lproc')
      BY <1>0, <1>1, <2>1 DEF LfSpared
    <2> QED
      BY <1>0, <1>1, <2>1, <2>2, LfQuiet
  <1>2. CASE /\ lrel' = Reported(lrel, r, lproc.drain) /\ lproc' = [lproc EXCEPT !.count = @ + 1]
             /\ UNCHANGED lcfg
    <2> DEFINE S == LfServers
               N == Reported(lrel, r, lproc.drain)
    <2>1. lproc.drain \in BOOLEAN /\ lproc.count \in Nat
      BY ZenonT(30), <1>0 DEF LfProcess
    <2>2. /\ N \in [S -> LfRelay] /\ \A q \in S : q # r => N[q] = lrel[q]
          /\ lrel[r].old + lrel[r].new \in Nat /\ N[r].old + N[r].new = lrel[r].old + lrel[r].new + 1
          /\ lproc.drain => N[r].old = lrel[r].old
      BY <1>0, <2>1, ReportedRelay
    <2>3. /\ lproc' \in LfProcess /\ lproc'.count = lproc.count + 1 /\ lproc'.why = lproc.why
          /\ lproc'.drain = lproc.drain
      BY <1>0, <1>2, <2>1 DEF LfProcess
    <2> HIDE DEF N
    <2>4. IsFiniteSet(Allocations(S, N)) /\ Cardinality(Allocations(S, N)) = Cardinality(Allocations(S, lrel)) + 1
      <3> HIDE DEF S
      <3> QED
        BY <1>0, <2>2, AllocationAdded DEF S
    <2>5. LfSpared(S, N, lproc')
      BY <1>0, <2>2, <2>3 DEF LfSpared
    <2>6. LfCounted(S, N, lproc')
      BY <1>0, <2>2, <2>3, <2>4 DEF LfCounted
    <2>7. LfServers' = S /\ lrel' = N
      BY <1>2 DEF LfServers, Relays, N
    <2> QED
      BY <1>2, <2>5, <2>6, <2>7 DEF LfInv
  <1> QED
    BY ZenonT(30), <1>1, <1>2 DEF AllocateReports, Reported

LEMMA AllocationEndsInv ==
  ASSUME LfInv, NEW r \in LfServers, AllocationEnds(r)
  PROVE  LfInv'
  <1> DEFINE S == LfServers
  <1>0. /\ lproc \in LfProcess /\ lrel \in [S -> LfRelay]
        /\ LfSpared(S, lrel, lproc) /\ IsFiniteSet(Allocations(S, lrel))
        /\ lproc.count = Cardinality(Allocations(S, lrel))
    BY DEF LfInv, LfCounted
  <1>1. /\ lproc' = [lproc EXCEPT !.count = @ - 1] /\ UNCHANGED lcfg
        /\ \/ lrel[r].old > 0 /\ lrel' = [lrel EXCEPT ![r].old = @ - 1]
           \/ lrel[r].new > 0 /\ lrel' = [lrel EXCEPT ![r].new = @ - 1]
    BY DEF AllocationEnds
  <1>2. lrel[r].old \in Nat /\ lrel[r].new \in Nat /\ lproc.count \in Nat
    BY <1>0 DEF LfRelay, LfProcess
  <1>3. /\ lrel' \in [S -> LfRelay] /\ \A q \in S : q # r => lrel'[q] = lrel[q]
        /\ lrel'[r].old + lrel'[r].new \in Nat
        /\ lrel[r].old + lrel[r].new = lrel'[r].old + lrel'[r].new + 1
        /\ lrel'[r].old <= lrel[r].old /\ lrel'[r].old \in Nat
    <2>1. CASE lrel[r].old > 0 /\ lrel' = [lrel EXCEPT ![r].old = @ - 1]
      BY <1>0, <1>2, <2>1 DEF LfRelay
    <2>2. CASE lrel[r].new > 0 /\ lrel' = [lrel EXCEPT ![r].new = @ - 1]
      BY <1>0, <1>2, <2>2 DEF LfRelay
    <2> QED
      BY <1>1, <2>1, <2>2
  <1>4. /\ IsFiniteSet(Allocations(S, lrel'))
        /\ Cardinality(Allocations(S, lrel')) = Cardinality(Allocations(S, lrel)) - 1
        /\ Cardinality(Allocations(S, lrel')) \in Nat
    <2> HIDE DEF S
    <2> QED
      BY <1>0, <1>3, AllocationRemoved DEF S
  <1>5. /\ lproc' \in LfProcess /\ lproc'.count = lproc.count - 1 /\ lproc'.why = lproc.why
        /\ lproc'.drain = lproc.drain
    <2>1. lproc.count - 1 \in Nat
      BY <1>0, <1>4
    <2> QED
      BY <1>0, <1>1, <2>1 DEF LfProcess
  <1>6. LfSpared(S, lrel', lproc')
    BY <1>0, <1>2, <1>3, <1>5 DEF LfSpared
  <1>7. LfCounted(S, lrel', lproc')
    BY <1>0, <1>3, <1>4, <1>5 DEF LfCounted
  <1>8. LfServers' = S
    BY <1>1 DEF LfServers, Relays
  <1> QED
    BY <1>1, <1>6, <1>7, <1>8 DEF LfInv

LEMMA LfNextInv ==
  ASSUME LfInv, [LfNext]_LfVars
  PROVE  LfInv'
  <1>1. ASSUME UNCHANGED <<lcfg, lrel, lproc>> PROVE LfInv'
    BY <1>1 DEF LfInv, LfServers, Relays
  <1>2. CASE UNCHANGED LfVars
    BY <1>1, <1>2 DEF LfVars
  <1>3. CASE LfMain
    <2>1. UNCHANGED <<lcfg, lrel, lproc>>
      BY <1>3 DEF LfMain, setup_listener, setup_general_relay_servers, WaitForRelays,
         setup_udp_listeners, setup_auth_servers, setup_admin_server, WaitForAll, Creates
    <2> QED
      BY <1>1, <2>1
  <1>4. ASSUME NEW t \in LfThread, LfThreadStep(t) \/ update_ssl_ctx(t) PROVE LfInv'
    <2>1. UNCHANGED <<lcfg, lrel, lproc>>
      BY <1>4 DEF LfThreadStep, CopyContext, set_ssl_ctx, setup_thread, run_general_relay_thread,
         JoinAll, update_ssl_ctx
    <2> QED
      BY <1>1, <2>1
  <1>5. CASE reload_ssl_certs
    BY <1>1, <1>5 DEF reload_ssl_certs
  <1>6. CASE LfNext
    BY <1>3, <1>4, <1>5, <1>6, LfMainInv, DrainServerInv, AllocateChecksInv, AllocateReportsInv,
       AllocationEndsInv DEF LfNext
  <1> QED
    BY <1>2, <1>6

LEMMA LfInitInv == LfInit => LfInv
  <1> SUFFICES ASSUME LfInit PROVE LfInv
    OBVIOUS
  <1> DEFINE S == LfServers
  <1>1. lrel \in [S -> LfRelay] /\ \A r \in S : lrel[r].old = 0 /\ lrel[r].new = 0
    BY DEF LfInit, LfRelay
  <1>2. lproc \in LfProcess /\ lproc.count = 0 /\ lproc.why = "none" /\ lcfg \in LfSetup
    BY DEF LfInit, LfProcess
  <1> HIDE DEF S
  <1>3. Allocations(S, lrel) = {}
    <2>1. ASSUME NEW r \in S, NEW x \in {r} \X (1 .. lrel[r].old + lrel[r].new) PROVE FALSE
      BY <1>1, <2>1
    <2> QED
      BY <2>1 DEF Allocations
  <1>4. LfCounted(S, lrel, lproc)
    BY <1>1, <1>2, <1>3, FS_EmptySet DEF LfCounted
  <1> QED
    BY <1>2, <1>4 DEF LfInv, LfSpared, S

(* A drain ends the process only when no allocation is left that was       *)
(* reported before the drain mode was set, for any number of relay threads *)
(* and allocations: global_allocation_count is exactly what the relay      *)
(* threads hold (run_listener_server, turn_report_allocation_set,          *)
(* turn_report_allocation_delete).                                         *)
THEOREM AlwaysDrainSpares == LfSpec => []DrainSpares
  <1>1. LfInv /\ [LfNext]_LfVars => LfInv'
    BY LfNextInv
  <1>2. LfInv => DrainSpares
    BY DEF LfInv, LfSpared, DrainSpares
  <1> QED
    BY LfInitInv, <1>1, <1>2, PTL DEF LfSpec

-----------------------------------------------------------------------------
(* Bandwidth: allocate_bps *)

(* Two sessions' shares are counted apart: a share added to the others.    *)
LEMMA UnitsAdded ==
  ASSUME NEW f \in [Thread -> Nat], NEW t \in Thread, NEW n \in Nat, f[t] = 0,
         IsFiniteSet(Units(f))
  PROVE  /\ IsFiniteSet(Units([f EXCEPT ![t] = n]))
         /\ Cardinality(Units([f EXCEPT ![t] = n])) = Cardinality(Units(f)) + n
  <1> DEFINE g == [f EXCEPT ![t] = n]
             share == {t} \X (1 .. n)
  <1>1. Units(g) = Units(f) \cup share
    <2>1. ASSUME NEW x PROVE x \in Units(g) <=> x \in Units(f) \cup share
      <3>1. x \in Units(g) <=> \E u \in Thread : x \in {u} \X (1 .. g[u])
        BY DEF Units
      <3>2. x \in Units(f) <=> \E u \in Thread : x \in {u} \X (1 .. f[u])
        BY DEF Units
      <3>3. {t} \X (1 .. f[t]) = {} /\ {t} \X (1 .. g[t]) = share
        OBVIOUS
      <3>4. \A u \in Thread : u # t => g[u] = f[u]
        OBVIOUS
      <3> QED
        BY <3>1, <3>2, <3>3, <3>4
    <2> QED
      BY ZenonT(30), <2>1
  <1>2. Units(f) \cap share = {}
    <2>1. ASSUME NEW u \in Thread, NEW x \in {u} \X (1 .. f[u]), x \in share PROVE FALSE
      BY <2>1
    <2> QED
      BY <2>1 DEF Units
  <1>3. IsFiniteSet(1 .. n) /\ Cardinality(1 .. n) = n
    <2>1. 1 \in Int /\ n \in Int
      OBVIOUS
    <2>2. IsFiniteSet(1 .. n) /\ Cardinality(1 .. n) = IF 1 > n THEN 0 ELSE n - 1 + 1
      BY <2>1, FS_Interval, Zenon
    <2> QED
      BY <2>2
  <1>4. IsFiniteSet(share) /\ Cardinality(share) = n
    <2>1. IsFiniteSet({t}) /\ Cardinality({t}) = 1
      BY FS_Singleton
    <2>2. IsFiniteSet(share) /\ Cardinality(share) = Cardinality({t}) * Cardinality(1 .. n)
      BY <1>3, <2>1, FS_Product, Zenon
    <2> QED
      BY <1>3, <2>1, <2>2
  <1>5. Cardinality(Units(f)) \in Nat
    BY FS_CardinalityType
  <1> HIDE DEF g, share
  <1>6. /\ IsFiniteSet(Units(g))
        /\ Cardinality(Units(g)) = Cardinality(Units(f)) + Cardinality(share) - Cardinality({})
    BY <1>1, <1>2, <1>4, FS_Union, Zenon
  <1>7. /\ IsFiniteSet(Units(g))
        /\ Cardinality(Units(g)) = Cardinality(Units(f)) + n
    BY <1>4, <1>5, <1>6, FS_EmptySet
  <1> QED
    BY <1>7 DEF g

(* A share given back. *)
LEMMA UnitsRemoved ==
  ASSUME NEW f \in [Thread -> Nat], NEW t \in Thread, IsFiniteSet(Units(f))
  PROVE  /\ IsFiniteSet(Units([f EXCEPT ![t] = 0]))
         /\ Cardinality(Units([f EXCEPT ![t] = 0])) = Cardinality(Units(f)) - f[t]
         /\ f[t] <= Cardinality(Units(f))
  <1> DEFINE g == [f EXCEPT ![t] = 0]
  <1>1. g \in [Thread -> Nat] /\ g[t] = 0 /\ f = [g EXCEPT ![t] = f[t]]
    BY ZenonT(30)
  <1>2. \A u \in Thread : g[u] = f[u] \/ g[u] = 0
    OBVIOUS
  <1> HIDE DEF g
  <1>3. Units(g) \subseteq Units(f)
    <2>1. \A u \in Thread : {u} \X (1 .. g[u]) \subseteq {u} \X (1 .. f[u])
      BY <1>1, <1>2
    <2> QED
      BY <2>1 DEF Units
  <1>4. IsFiniteSet(Units(g))
    BY <1>3, FS_Subset
  <1>5. Cardinality(Units(f)) = Cardinality(Units(g)) + f[t]
    BY <1>1, <1>4, UnitsAdded
  <1>6. Cardinality(Units(g)) \in Nat /\ f[t] \in Nat
    BY <1>4, FS_CardinalityType
  <1> QED
    BY <1>4, <1>5, <1>6 DEF g

BpsWord == 0 .. Word - 1
BpsTypeOK ==
  /\ bps_capacity \in Capacity /\ bps_capacity_allocated \in BpsWord
  /\ pc \in [Thread -> {"idle", "capacity", "add", "load", "cas", "rload", "rcas"}]
  /\ want \in [Thread -> BpsWord] /\ cap \in [Thread -> BpsWord]
  /\ old_alloc \in [Thread -> BpsWord] /\ held \in [Thread -> BpsWord]
  /\ lowered \in BOOLEAN /\ wrapped \in BOOLEAN

(* What a thread knows of its own session between two atomic accesses.     *)
BpsLocals ==
  \A t \in Thread :
    /\ pc[t] \in {"capacity", "add", "load", "cas"} => held[t] = 0
    /\ pc[t] \in {"rload", "rcas"} => want[t] = held[t] /\ held[t] > 0
    /\ pc[t] = "cas" => old_alloc[t] < cap[t]

BpsCounted ==
  /\ IsFiniteSet(Units(held))
  /\ ~wrapped => bps_capacity_allocated = Held

(* Under a capacity that nobody changes no thread adds without looking.    *)
BpsKept ==
  ~lowered /\ bps_capacity # 0 =>
    /\ ~wrapped /\ bps_capacity_allocated <= bps_capacity
    /\ \A t \in Thread :
         /\ pc[t] # "add"
         /\ pc[t] \in {"load", "cas"} => cap[t] = bps_capacity

BpsInv == BpsTypeOK /\ BpsLocals /\ BpsCounted /\ BpsKept

LEMMA BpsInitInv == BpsInit => BpsInv
  <1> SUFFICES ASSUME BpsInit PROVE BpsInv
    OBVIOUS
  <1>1. BpsTypeOK
    <2>1. 0 \in BpsWord
      BY BandwidthAssumption DEF BpsWord
    <2>2. lowered \in BOOLEAN /\ wrapped \in BOOLEAN
      BY ZenonT(30) DEF BpsInit
    <2> QED
      BY <2>1, <2>2 DEF BpsInit, BpsTypeOK
  <1>2. Units(held) = {}
    <2>1. \A t \in Thread : {t} \X (1 .. held[t]) = {}
      BY DEF BpsInit
    <2> QED
      BY <2>1 DEF Units
  <1>3. BpsCounted
    BY <1>2, FS_EmptySet DEF BpsInit, BpsCounted, Held
  <1>4. BpsLocals
    BY DEF BpsInit, BpsLocals
  <1>5. BpsKept
    BY BandwidthAssumption DEF BpsInit, BpsKept
  <1> QED
    BY <1>1, <1>3, <1>4, <1>5 DEF BpsInv

(* Steps that leave the counter and the shares alone.                      *)
LEMMA BpsCountedKept ==
  ASSUME BpsCounted, UNCHANGED <<bps_capacity_allocated, held, wrapped>>
  PROVE  BpsCounted'
  BY DEF BpsCounted, Held

LEMMA BpsRequestInv ==
  ASSUME BpsInv, NEW t \in Thread, NEW b \in Bps, BpsRequest(t, b)
  PROVE  BpsInv'
  <1>1. BpsTypeOK'
    BY BandwidthAssumption DEF BpsInv, BpsTypeOK, BpsRequest, Goto, BpsWord
  <1>2. BpsLocals'
    BY DEF BpsInv, BpsTypeOK, BpsLocals, BpsRequest, Goto
  <1>3. BpsKept'
    BY DEF BpsInv, BpsTypeOK, BpsKept, BpsRequest, Goto
  <1> QED
    BY <1>1, <1>2, <1>3, BpsCountedKept DEF BpsInv, BpsRequest

LEMMA LoadCapacityInv ==
  ASSUME BpsInv, NEW t \in Thread, LoadCapacity(t)
  PROVE  BpsInv'
  <1>1. BpsTypeOK'
    BY BandwidthAssumption DEF BpsInv, BpsTypeOK, LoadCapacity, Goto, BpsWord
  <1>2. BpsLocals'
    BY DEF BpsInv, BpsTypeOK, BpsLocals, LoadCapacity, Goto
  <1>3. BpsKept'
    BY ZenonT(30) DEF BpsInv, BpsTypeOK, BpsKept, LoadCapacity, Goto
  <1> QED
    BY <1>1, <1>2, <1>3, BpsCountedKept DEF BpsInv, LoadCapacity

LEMMA ReleaseInv ==
  ASSUME BpsInv, NEW t \in Thread, Release(t)
  PROVE  BpsInv'
  <1>1. BpsTypeOK'
    BY DEF BpsInv, BpsTypeOK, Release, Goto
  <1>2. BpsLocals'
    BY DEF BpsInv, BpsTypeOK, BpsLocals, Release, Goto, BpsWord
  <1>3. BpsKept'
    BY DEF BpsInv, BpsTypeOK, BpsKept, Release, Goto
  <1> QED
    BY <1>1, <1>2, <1>3, BpsCountedKept DEF BpsInv, Release

LEMMA SetCapacityInv ==
  ASSUME BpsInv, NEW v \in Capacity, SetCapacity(v)
  PROVE  BpsInv'
  <1>1. BpsTypeOK'
    BY DEF BpsInv, BpsTypeOK, SetCapacity, locals
  <1>2. BpsLocals' /\ BpsKept'
    BY DEF BpsInv, BpsLocals, BpsKept, SetCapacity, locals
  <1> QED
    BY <1>1, <1>2, BpsCountedKept DEF BpsInv, SetCapacity

(* Without a capacity: the counter may overflow, and says so.              *)
LEMMA FetchAddInv ==
  ASSUME BpsInv, NEW t \in Thread, FetchAdd(t)
  PROVE  BpsInv'
  <1> DEFINE sum == bps_capacity_allocated + want[t]
  <1>0. /\ pc[t] = "add" /\ held[t] = 0 /\ want[t] \in BpsWord /\ sum \in Nat
        /\ bps_capacity_allocated' = sum % Word /\ wrapped' = (wrapped \/ sum >= Word)
        /\ held \in [Thread -> Nat] /\ held' = [held EXCEPT ![t] = want[t]]
    BY BandwidthAssumption DEF FetchAdd, Return, BpsInv, BpsTypeOK, BpsLocals, BpsWord
  <1>1. BpsTypeOK'
    <2>1. sum % Word \in BpsWord
      BY <1>0, BandwidthAssumption DEF BpsWord
    <2>2. 0 \in BpsWord
      BY BandwidthAssumption DEF BpsWord
    <2>3. wrapped' \in BOOLEAN
      BY <1>0
    <2> HIDE DEF sum
    <2> QED
      BY ZenonT(30), <1>0, <2>1, <2>2, <2>3 DEF FetchAdd, Return, Goto, BpsInv, BpsTypeOK
  <1>2. BpsLocals'
    BY DEF FetchAdd, Return, Goto, BpsInv, BpsTypeOK, BpsLocals
  <1>3. BpsCounted'
    <2>0. want[t] \in Nat /\ IsFiniteSet(Units(held))
      BY <1>0, BandwidthAssumption DEF BpsWord, BpsInv, BpsCounted
    <2>1. /\ IsFiniteSet(Units(held'))
          /\ Cardinality(Units(held')) = Cardinality(Units(held)) + want[t]
      BY ZenonT(30), <1>0, <2>0, UnitsAdded
    <2>2. sum < Word => sum % Word = sum
      BY <1>0, BandwidthAssumption
    <2>3. ~wrapped' => ~wrapped /\ ~(sum >= Word)
      BY <1>0, Zenon
    <2>4. ~wrapped' => bps_capacity_allocated' = Cardinality(Units(held'))
      BY <1>0, <2>1, <2>2, <2>3, BandwidthAssumption DEF BpsInv, BpsCounted, Held
    <2> QED
      BY <2>1, <2>4 DEF BpsCounted, Held
  <1>4. BpsKept'
    BY ZenonT(30), <1>0 DEF FetchAdd, BpsInv, BpsKept
  <1> QED
    BY <1>1, <1>2, <1>3, <1>4 DEF BpsInv

(* A call that returns 0, holding nothing or keeping nothing.              *)
LEMMA LoadInv ==
  ASSUME BpsInv, NEW t \in Thread, Load(t)
  PROVE  BpsInv'
  <1>0. 0 \in BpsWord
    BY BandwidthAssumption DEF BpsWord
  <1>1. held' = held
    BY DEF Load, Return, BpsInv, BpsTypeOK, BpsLocals
  <1>2. BpsTypeOK'
    BY <1>0 DEF Load, Return, Goto, BpsInv, BpsTypeOK
  <1>3. BpsLocals'
    BY DEF Load, Return, Goto, BpsInv, BpsTypeOK, BpsLocals
  <1>4. BpsKept'
    BY DEF Load, Return, Goto, BpsInv, BpsTypeOK, BpsKept
  <1> QED
    BY <1>1, <1>2, <1>3, <1>4, BpsCountedKept DEF BpsInv, Load

(* What is taken is what is added, and fits under the capacity that the    *)
(* call read: nobody changed the counter since it was read.                *)
LEMMA CasInv ==
  ASSUME BpsInv, NEW t \in Thread, Cas(t)
  PROVE  BpsInv'
  <1> DEFINE n == ToAlloc(t)
  <1>0. /\ pc[t] = "cas" /\ held[t] = 0 /\ want[t] \in Nat /\ cap[t] \in BpsWord
        /\ old_alloc[t] \in Nat /\ old_alloc[t] < cap[t] /\ held \in [Thread -> Nat]
    BY BandwidthAssumption DEF Cas, BpsInv, BpsTypeOK, BpsLocals, BpsWord
  <1>1. n \in Nat /\ n <= cap[t] - old_alloc[t] /\ n <= want[t]
    BY <1>0, BandwidthAssumption DEF ToAlloc, BpsWord
  <1>2. CASE bps_capacity_allocated # old_alloc[t]
    <2>1. /\ pc' = [pc EXCEPT ![t] = "load"]
          /\ UNCHANGED <<bps_capacity, bps_capacity_allocated, want, cap, old_alloc, held,
                         lowered, wrapped>>
      BY <1>2 DEF Cas, Goto, locals
    <2>2. BpsTypeOK' /\ BpsLocals'
      BY <1>0, <2>1 DEF BpsInv, BpsTypeOK, BpsLocals
    <2>3. BpsKept'
      BY <1>0, <2>1 DEF BpsInv, BpsTypeOK, BpsKept
    <2> QED
      BY <2>1, <2>2, <2>3, BpsCountedKept DEF BpsInv
  <1>3. CASE bps_capacity_allocated = old_alloc[t]
    <2>1. /\ bps_capacity_allocated' = old_alloc[t] + n
          /\ held' = [held EXCEPT ![t] = n] /\ Return(t, n)
          /\ UNCHANGED <<bps_capacity, lowered, wrapped>>
      BY <1>3 DEF Cas, Return
    <2> HIDE DEF n
    <2>2. old_alloc[t] + n <= cap[t] /\ old_alloc[t] + n \in BpsWord /\ n \in BpsWord
          /\ 0 \in BpsWord
      BY <1>0, <1>1, BandwidthAssumption DEF BpsWord
    <2>3. BpsTypeOK'
      BY <2>1, <2>2 DEF Return, Goto, BpsInv, BpsTypeOK
    <2>4. BpsLocals'
      BY <2>1 DEF Return, Goto, BpsInv, BpsTypeOK, BpsLocals
    <2>5. BpsCounted'
      <3>1. /\ IsFiniteSet(Units(held'))
            /\ Cardinality(Units(held')) = Cardinality(Units(held)) + n
        BY ZenonT(30), <1>0, <1>1, <2>1, UnitsAdded DEF BpsInv, BpsCounted
      <3> QED
        BY <1>3, <2>1, <3>1 DEF BpsInv, BpsCounted, Held
    <2>6. BpsKept'
      BY ZenonT(30), <1>0, <2>1, <2>2 DEF Return, Goto, BpsInv, BpsTypeOK, BpsKept
    <2> QED
      BY <2>3, <2>4, <2>5, <2>6 DEF BpsInv
  <1> QED
    BY <1>2, <1>3

(* The counter is never 0 while a session holds a share: the call that     *)
(* returns early gives nothing up, unless the counter overflowed.          *)
LEMMA LoadToReleaseInv ==
  ASSUME BpsInv, NEW t \in Thread, LoadToRelease(t)
  PROVE  BpsInv'
  <1>0. /\ 0 \in BpsWord /\ held \in [Thread -> Nat] /\ pc[t] = "rload" /\ held[t] > 0
        /\ IsFiniteSet(Units(held))
    BY BandwidthAssumption
       DEF LoadToRelease, BpsInv, BpsTypeOK, BpsLocals, BpsCounted, BpsWord
  <1>1. BpsTypeOK'
    BY <1>0 DEF LoadToRelease, Return, Goto, BpsInv, BpsTypeOK
  <1>2. BpsLocals'
    BY DEF LoadToRelease, Return, Goto, BpsInv, BpsTypeOK, BpsLocals
  <1>3. BpsKept'
    BY DEF LoadToRelease, Return, Goto, BpsInv, BpsTypeOK, BpsKept
  <1>4. CASE bps_capacity_allocated = 0 /\ Return(t, 0)
    <2>1. /\ IsFiniteSet(Units(held'))
          /\ held[t] <= Cardinality(Units(held))
      BY ZenonT(30), <1>0, <1>4, UnitsRemoved DEF Return
    <2>2. Cardinality(Units(held)) \in Nat /\ held[t] \in Nat
      BY <1>0, FS_CardinalityType
    <2>3. wrapped
      BY <1>0, <1>4, <2>1, <2>2 DEF BpsInv, BpsCounted, Held
    <2> QED
      BY ZenonT(30), <1>1, <1>2, <1>3, <2>1, <2>3 DEF BpsInv, BpsCounted, LoadToRelease
  <1>5. CASE held' = held
    BY <1>1, <1>2, <1>3, <1>5, BpsCountedKept DEF BpsInv, LoadToRelease
  <1> QED
    BY <1>4, <1>5 DEF LoadToRelease

LEMMA CasToReleaseInv ==
  ASSUME BpsInv, NEW t \in Thread, CasToRelease(t)
  PROVE  BpsInv'
  <1> DEFINE n == IF old_alloc[t] >= want[t] THEN old_alloc[t] - want[t] ELSE 0
  <1>0. /\ pc[t] = "rcas" /\ held[t] > 0 /\ want[t] = held[t] /\ want[t] \in Nat
        /\ old_alloc[t] \in BpsWord /\ old_alloc[t] \in Nat /\ held \in [Thread -> Nat]
        /\ IsFiniteSet(Units(held))
    BY BandwidthAssumption
       DEF CasToRelease, BpsInv, BpsTypeOK, BpsLocals, BpsCounted, BpsWord
  <1>1. n \in Nat /\ n <= old_alloc[t] /\ (held[t] <= old_alloc[t] => n = old_alloc[t] - held[t])
    BY <1>0
  <1>2. CASE bps_capacity_allocated # old_alloc[t]
    <2>1. /\ pc' = [pc EXCEPT ![t] = "rload"]
          /\ UNCHANGED <<bps_capacity, bps_capacity_allocated, want, cap, old_alloc, held,
                         lowered, wrapped>>
      BY ZenonT(30), <1>2 DEF CasToRelease, Goto, locals
    <2>2. BpsTypeOK' /\ BpsLocals'
      BY <1>0, <2>1 DEF BpsInv, BpsTypeOK, BpsLocals
    <2>3. BpsKept'
      BY <1>0, <2>1 DEF BpsInv, BpsTypeOK, BpsKept
    <2> QED
      BY <2>1, <2>2, <2>3, BpsCountedKept DEF BpsInv
  <1>3. CASE bps_capacity_allocated = old_alloc[t]
    <2>1. /\ bps_capacity_allocated' = n
          /\ held' = [held EXCEPT ![t] = 0] /\ Return(t, 0)
          /\ UNCHANGED <<bps_capacity, lowered, wrapped>>
      BY ZenonT(30), <1>3 DEF CasToRelease, Return
    <2> HIDE DEF n
    <2>2. n \in BpsWord /\ 0 \in BpsWord
      BY <1>0, <1>1, BandwidthAssumption DEF BpsWord
    <2>3. BpsTypeOK'
      BY <2>1, <2>2 DEF Return, Goto, BpsInv, BpsTypeOK
    <2>4. BpsLocals'
      BY <2>1 DEF Return, Goto, BpsInv, BpsTypeOK, BpsLocals
    <2>5. BpsCounted'
      <3>1. /\ IsFiniteSet(Units(held'))
            /\ Cardinality(Units(held')) = Cardinality(Units(held)) - held[t]
            /\ held[t] <= Cardinality(Units(held))
        BY ZenonT(30), <1>0, <2>1, UnitsRemoved
      <3> QED
        BY <1>1, <1>3, <2>1, <3>1 DEF BpsInv, BpsCounted, Held
    <2>6. BpsKept'
      <3>1. bps_capacity \in Nat
        BY BandwidthAssumption DEF BpsInv, BpsTypeOK
      <3> QED
        BY <1>0, <1>1, <1>3, <2>1, <3>1 DEF Return, Goto, BpsInv, BpsTypeOK, BpsKept
    <2> QED
      BY <2>3, <2>4, <2>5, <2>6 DEF BpsInv
  <1> QED
    BY <1>2, <1>3

LEMMA BpsNextInv == BpsInv /\ [BpsNext]_bpsvars => BpsInv'
  <1> SUFFICES ASSUME BpsInv, [BpsNext]_bpsvars PROVE BpsInv'
    OBVIOUS
  <1>1. ASSUME NEW t \in Thread, Step(t) PROVE BpsInv'
    BY <1>1, LoadCapacityInv, FetchAddInv, LoadInv, CasInv, LoadToReleaseInv, CasToReleaseInv
       DEF Step
  <1>2. ASSUME NEW t \in Thread, Release(t) PROVE BpsInv'
    BY <1>2, ReleaseInv
  <1>3. ASSUME NEW t \in Thread, NEW b \in Bps, BpsRequest(t, b) PROVE BpsInv'
    BY <1>3, BpsRequestInv
  <1>4. ASSUME NEW v \in Capacity, SetCapacity(v) PROVE BpsInv'
    BY <1>4, SetCapacityInv
  <1>5. CASE UNCHANGED bpsvars
    <2>1. BpsTypeOK' /\ BpsLocals' /\ BpsKept'
      BY <1>5 DEF bpsvars, BpsInv, BpsTypeOK, BpsLocals, BpsKept
    <2> QED
      BY <1>5, <2>1, BpsCountedKept DEF bpsvars, BpsInv
  <1> QED
    BY <1>1, <1>2, <1>3, <1>4, <1>5 DEF BpsNext

(* allocate_bps keeps the pool exact without a lock: whichever way loads   *)
(* and compare-and-swaps of the threads interleave, the counter is the sum *)
(* of the sessions' shares until it overflows, and under a capacity that   *)
(* nobody changes the shares stay within it.                               *)
THEOREM AlwaysWithinCapacity == BpsSpec => []WithinCapacity
  <1>1. BpsInv => WithinCapacity
    BY DEF BpsInv, BpsCounted, BpsKept, WithinCapacity
  <1> QED
    BY <1>1, BpsInitInv, BpsNextInv, PTL DEF BpsSpec

=============================================================================
