-------------------------- MODULE PeerSideProofs ---------------------------
(***************************************************************************)
(* Proofs about the tables in which one request must find what others      *)
(* left: the permissions and channels kept for the peers, for tables of    *)
(* any size, any hosts and channels, any cap, and the admin thread's list  *)
(* of the sessions the relay threads report, for any sessions and users.   *)
(***************************************************************************)
EXTENDS PermissionTable, AdminServer, TLAPS

(* A leaf that names no prover goes to the SMT solver, for up to 30 seconds. *)
USE SMTT(30)

-----------------------------------------------------------------------------
(* The table of permissions and channels: PermissionTable *)

(* A host is in the bucket of its hash, below extra_sz, and only once; the *)
(* same for channel numbers.                                               *)
Placed ==
  /\ \A s \in Slot : addr[s] # NoEntry => s[1] = HashOf[addr[s]] /\ s[2] <= MainSlots + extra[s[1]]
  /\ \A s, t \in Slot : addr[s] # NoEntry /\ addr[s] = addr[t] => s = t

ChPlaced ==
  /\ \A c \in Slot : cnum[c] # NoEntry => c[1] = ChHashOf[cnum[c]] /\ c[2] <= MainSlots + cextra[c[1]]
  /\ \A c, d \in Slot : cnum[c] # NoEntry /\ cnum[c] = cnum[d] => c = d

(* The two halves of the type invariant. *)
PermType ==
  /\ extra \in [Bucket -> 0..MaxExtra]
  /\ addr \in [Slot -> Host \cup {NoEntry}]
  /\ wild \subseteq Slot
  /\ links \in [Slot -> [PortNo -> Slot \cup {NoEntry}]]

ChanType ==
  /\ cextra \in [Bucket -> 0..MaxExtra]
  /\ cnum \in [Slot -> ChNum \cup {NoEntry}]
  /\ cpeer \in [Slot -> Peer \cup {NoPeer}]
  /\ owner \in [Slot -> Slot \cup {NoEntry}]

TableInv == PermType /\ ChanType /\ Placed /\ ChPlaced /\ PointersAgree

LEMMA Nothing == NoEntry \notin Host /\ NoEntry \notin ChNum /\ NoEntry \notin Slot /\ NoPeer \notin Peer
  BY TableAssumption

LEMMA SlotParts ==
  ASSUME NEW s \in Slot
  PROVE  s[1] \in Bucket /\ s[2] \in 1..MainSlots + MaxExtra /\ s = <<s[1], s[2]>>
  BY DEF Slot

LEMMA SlotsAre ==
  ASSUME NEW b \in Bucket, NEW x \in 0..MaxExtra, NEW s
  PROVE  s \in Slots(b, x) <=> s \in Slot /\ s[1] = b /\ s[2] <= MainSlots + x
<1>1. ASSUME s \in Slots(b, x) PROVE s \in Slot /\ s[1] = b /\ s[2] <= MainSlots + x
  BY <1>1, TableAssumption DEF Slots, Slot
<1>2. ASSUME s \in Slot, s[1] = b, s[2] <= MainSlots + x PROVE s \in Slots(b, x)
  BY <1>2, SlotParts, TableAssumption DEF Slots
<1> QED  BY <1>1, <1>2

LEMMA TableInitInv == TableInit => TableInv
  BY TableAssumption, Nothing DEF TableInit, TableInv, PermType, ChanType, Placed, ChPlaced, PointersAgree

-----------------------------------------------------------------------------
(* Adding a permission *)

(* allocation_add_permission takes a slot of the bucket that is not in use. *)
LEMMA AddedFacts ==
  ASSUME TableInv, NEW h \in Host, Matches(h) = {}, NEW s \in Slot, Added(h, s)
  PROVE  /\ addr[s] = NoEntry
         /\ addr' = [addr EXCEPT ![s] = h]
         /\ s[1] = HashOf[h]
         /\ s[2] <= MainSlots + extra'[s[1]]
         /\ extra' \in [Bucket -> 0..MaxExtra]
         /\ \A b \in Bucket : extra[b] <= extra'[b]
         /\ wild' = wild
<1> DEFINE b == HashOf[h]
<1>0. b \in Bucket /\ extra[b] \in 0..MaxExtra
  BY TableAssumption DEF TableInv, PermType
<1>1. CASE First(s, Free(b)) /\ extra' = extra
  <2>1. s \in Slots(b, extra[b]) /\ addr[s] = NoEntry
    BY <1>1 DEF First, Free
  <2>2. s[1] = b /\ s[2] <= MainSlots + extra[b]
    BY <2>1, <1>0, SlotsAre
  <2> QED  BY <1>0, <1>1, <2>1, <2>2 DEF Added, TableInv, PermType
<1>2. CASE Full(b) /\ s = NextSlot(b) /\ extra' = [extra EXCEPT ![b] = @ + 1]
  <2>1. s[1] = b /\ s[2] = MainSlots + extra[b] + 1
    BY <1>2 DEF NextSlot
  <2>2. addr[s] = NoEntry
    BY <2>1, <1>0, TableAssumption DEF TableInv, Placed
  <2>3. extra[b] + 1 \in 0..MaxExtra
    BY <1>0, <1>2, TableAssumption DEF Full
  <2>4. extra' \in [Bucket -> 0..MaxExtra] /\ extra'[b] = extra[b] + 1
    BY <1>0, <1>2, <2>3 DEF TableInv, PermType
  <2>5. \A a \in Bucket : extra[a] <= extra'[a]
    BY <1>0, <1>2 DEF TableInv, PermType
  <2>6. s[2] <= MainSlots + extra'[s[1]]
    BY <1>0, <2>1, <2>4, TableAssumption
  <2> QED  BY <2>1, <2>2, <2>4, <2>5, <2>6 DEF Added
<1> QED  BY <1>1, <1>2 DEF Added

(* No slot holds a host that is not found. *)
LEMMA NotFound ==
  ASSUME TableInv, NEW h \in Host, Matches(h) = {}
  PROVE  \A s \in Slot : addr[s] # h
<1>1. HashOf[h] \in Bucket /\ extra[HashOf[h]] \in 0..MaxExtra
  BY TableAssumption DEF TableInv, PermType
<1> SUFFICES ASSUME NEW s \in Slot, addr[s] = h PROVE FALSE
  OBVIOUS
<1>a. addr[s] # NoEntry
  BY Nothing
<1>2. s[1] = HashOf[h] /\ s[2] <= MainSlots + extra[HashOf[h]]
  BY <1>a DEF TableInv, Placed
<1>3. s \in Slots(HashOf[h], extra[HashOf[h]])
  BY <1>1, <1>2, SlotsAre
<1> QED  BY <1>3 DEF Matches

LEMMA AddedPlaced ==
  ASSUME TableInv, NEW h \in Host, Matches(h) = {}, NEW s \in Slot, Added(h, s)
  PROVE  addr' \in [Slot -> Host \cup {NoEntry}] /\ Placed'
<1>0. addr' = [addr EXCEPT ![s] = h]
  BY AddedFacts
<1>1. addr' \in [Slot -> Host \cup {NoEntry}]
  BY <1>0 DEF TableInv, PermType
<1>2. \A t \in Slot : addr'[t] # NoEntry => t[1] = HashOf[addr'[t]] /\ t[2] <= MainSlots + extra'[t[1]]
  <2> SUFFICES ASSUME NEW t \in Slot, addr'[t] # NoEntry
               PROVE  t[1] = HashOf[addr'[t]] /\ t[2] <= MainSlots + extra'[t[1]]
    OBVIOUS
  <2>1. CASE t = s
    BY <2>1, AddedFacts DEF TableInv, PermType
  <2>2. CASE t # s
    <3>1. addr'[t] = addr[t]
      BY <2>2, AddedFacts DEF TableInv, PermType
    <3>2. t[1] = HashOf[addr[t]] /\ t[2] <= MainSlots + extra[t[1]] /\ t[1] \in Bucket /\ t[2] \in Int
      BY <3>1, SlotParts, TableAssumption DEF TableInv, Placed
    <3>3. extra[t[1]] \in Int /\ extra'[t[1]] \in Int /\ extra[t[1]] <= extra'[t[1]]
      BY <3>2, AddedFacts DEF TableInv, PermType
    <3> QED  BY <3>1, <3>2, <3>3, TableAssumption
  <2> QED  BY <2>1, <2>2
<1>3. \A t, u \in Slot : addr'[t] # NoEntry /\ addr'[t] = addr'[u] => t = u
  BY AddedFacts, NotFound, Nothing DEF TableInv, PermType, Placed
<1> QED  BY <1>1, <1>2, <1>3 DEF Placed

LEMMA NotAddedStep ==
  ASSUME TableInv, NEW h \in Host, NotAdded(h)
  PROVE  addr' = addr /\ extra' \in [Bucket -> 0..MaxExtra] /\ wild' \subseteq Slot /\ Placed'
<1> DEFINE b == HashOf[h]
<1>0. b \in Bucket /\ extra[b] \in 0..MaxExtra /\ Full(b)
  BY TableAssumption DEF TableInv, PermType, NotAdded
<1>1. CASE UNCHANGED <<extra, wild>>
  BY <1>1 DEF NotAdded, TableInv, PermType, Placed
<1>2. CASE extra' = [extra EXCEPT ![b] = @ + 1] /\ wild' = wild \cup {NextSlot(b)}
  <2>1. extra[b] + 1 \in 0..MaxExtra
    BY <1>0, TableAssumption DEF Full
  <2>2. NextSlot(b) \in Slot
    BY <1>0, <2>1, TableAssumption DEF NextSlot, Slot
  <2>3. extra' \in [Bucket -> 0..MaxExtra] /\ \A a \in Bucket : extra[a] <= extra'[a]
    BY <1>0, <1>2, <2>1 DEF TableInv, PermType
  <2>4. addr' = addr
    BY DEF NotAdded
  <2>5. Placed'
    <3> SUFFICES ASSUME NEW t \in Slot, addr[t] # NoEntry PROVE t[2] <= MainSlots + extra'[t[1]]
      BY <2>4 DEF TableInv, Placed
    <3>1. t[2] <= MainSlots + extra[t[1]] /\ t[1] \in Bucket /\ t[2] \in Int
      BY SlotParts, TableAssumption DEF TableInv, Placed
    <3>2. extra[t[1]] \in Int /\ extra'[t[1]] \in Int /\ extra[t[1]] <= extra'[t[1]]
      BY <3>1, <2>3 DEF TableInv, PermType
    <3> QED  BY <3>1, <3>2, TableAssumption
  <2> QED  BY <1>2, <2>2, <2>3, <2>4, <2>5 DEF TableInv, PermType
<1> QED  BY <1>1, <1>2 DEF NotAdded

-----------------------------------------------------------------------------
(* Adding a channel *)

LEMMA NoSuchChannel ==
  ASSUME TableInv, NEW n \in ChNum, Channels(n) = {}
  PROVE  \A c \in Slot : cnum[c] # n
<1>1. ChHashOf[n] \in Bucket /\ cextra[ChHashOf[n]] \in 0..MaxExtra
  BY TableAssumption DEF TableInv, ChanType
<1> SUFFICES ASSUME NEW c \in Slot, cnum[c] = n PROVE FALSE
  OBVIOUS
<1>2. cnum[c] # NoEntry
  BY Nothing
<1>3. c[1] = ChHashOf[n] /\ c[2] <= MainSlots + cextra[ChHashOf[n]]
  BY <1>2 DEF TableInv, ChPlaced
<1>4. c \in Slots(ChHashOf[n], cextra[ChHashOf[n]])
  BY <1>1, <1>3, SlotsAre
<1> QED  BY <1>4 DEF Channels

LEMMA TakeFacts ==
  ASSUME TableInv, NEW n \in ChNum, NEW c \in Slot, TakeChannel(n, c)
  PROVE  /\ cnum[c] = NoEntry
         /\ c[1] = ChHashOf[n]
         /\ c[2] <= MainSlots + cextra'[c[1]]
         /\ cextra' \in [Bucket -> 0..MaxExtra]
         /\ \A b \in Bucket : cextra[b] <= cextra'[b]
<1> DEFINE b == ChHashOf[n]
<1>0. b \in Bucket /\ cextra[b] \in 0..MaxExtra
  BY TableAssumption DEF TableInv, ChanType
<1>1. CASE First(c, FreeChannel(b)) /\ cextra' = cextra
  <2>1. c \in Slots(b, cextra[b]) /\ cnum[c] = NoEntry
    BY <1>1 DEF First, FreeChannel
  <2>2. c[1] = b /\ c[2] <= MainSlots + cextra[b]
    BY <2>1, <1>0, SlotsAre
  <2> QED  BY <1>0, <1>1, <2>1, <2>2 DEF TableInv, ChanType
<1>2. CASE /\ cextra[b] < MaxExtra
           /\ c = <<b, MainSlots + cextra[b] + 1>>
           /\ cextra' = [cextra EXCEPT ![b] = @ + 1]
  <2>1. c[1] = b /\ c[2] = MainSlots + cextra[b] + 1
    BY <1>2
  <2>2. cnum[c] = NoEntry
    BY <2>1, <1>0, TableAssumption DEF TableInv, ChPlaced
  <2>3. cextra[b] + 1 \in 0..MaxExtra
    BY <1>0, <1>2, TableAssumption
  <2>4. cextra' \in [Bucket -> 0..MaxExtra] /\ cextra'[b] = cextra[b] + 1
    BY <1>0, <1>2, <2>3 DEF TableInv, ChanType
  <2>5. \A a \in Bucket : cextra[a] <= cextra'[a]
    BY <1>0, <1>2 DEF TableInv, ChanType
  <2>6. c[2] <= MainSlots + cextra'[c[1]]
    BY <1>0, <2>1, <2>4, TableAssumption
  <2> QED  BY <2>1, <2>2, <2>4, <2>5, <2>6
<1> QED  BY <1>1, <1>2 DEF TakeChannel

(* The channel half of Link: a free slot of the number's bucket is taken. *)
LEMMA LinkChannels ==
  ASSUME TableInv, NEW n \in ChNum, Channels(n) = {}, NEW p \in Peer, NEW s \in Slot,
         NEW c \in Slot, TakeChannel(n, c),
         cnum' = [cnum EXCEPT ![c] = n],
         cpeer' = [cpeer EXCEPT ![c] = p],
         owner' = [owner EXCEPT ![c] = s]
  PROVE  ChanType' /\ ChPlaced'
<1>1. ChanType'
  BY TakeFacts DEF TableInv, ChanType
<1>2. \A d \in Slot : cnum'[d] # NoEntry => d[1] = ChHashOf[cnum'[d]] /\ d[2] <= MainSlots + cextra'[d[1]]
  <2> SUFFICES ASSUME NEW d \in Slot, cnum'[d] # NoEntry
               PROVE  d[1] = ChHashOf[cnum'[d]] /\ d[2] <= MainSlots + cextra'[d[1]]
    OBVIOUS
  <2>1. CASE d = c
    BY <2>1, TakeFacts DEF TableInv, ChanType
  <2>2. CASE d # c
    <3>1. cnum'[d] = cnum[d]
      BY <2>2 DEF TableInv, ChanType
    <3>2. d[1] = ChHashOf[cnum[d]] /\ d[2] <= MainSlots + cextra[d[1]] /\ d[1] \in Bucket /\ d[2] \in Int
      BY <3>1, SlotParts, TableAssumption DEF TableInv, ChPlaced
    <3>3. cextra[d[1]] \in Int /\ cextra'[d[1]] \in Int /\ cextra[d[1]] <= cextra'[d[1]]
      BY <3>2, TakeFacts DEF TableInv, ChanType
    <3> QED  BY <3>1, <3>2, <3>3, TableAssumption
  <2> QED  BY <2>1, <2>2
<1>3. \A d, e \in Slot : cnum'[d] # NoEntry /\ cnum'[d] = cnum'[e] => d = e
  BY NoSuchChannel, TakeFacts DEF TableInv, ChanType, ChPlaced
<1> QED  BY <1>1, <1>2, <1>3 DEF ChPlaced

(* The pointers after Link: the new channel and the permission's entry     *)
(* for its port point at each other.                                       *)
LEMMA LinkPointers ==
  ASSUME TableInv, NEW n \in ChNum, NEW p \in Peer, NEW s \in Slot, NEW c \in Slot,
         cnum[c] = NoEntry,
         links[s][p[2]] = NoEntry,
         addr'[s] = p[1],
         \A t \in Slot : addr[t] # NoEntry => addr'[t] = addr[t],
         cnum' = [cnum EXCEPT ![c] = n],
         cpeer' = [cpeer EXCEPT ![c] = p],
         owner' = [owner EXCEPT ![c] = s],
         links' = [links EXCEPT ![s][p[2]] = c]
  PROVE  links' \in [Slot -> [PortNo -> Slot \cup {NoEntry}]] /\ PointersAgree'
<1>0. p[1] \in Host /\ p[2] \in PortNo
  BY DEF Peer
<1>1. links' \in [Slot -> [PortNo -> Slot \cup {NoEntry}]]
  BY <1>0 DEF TableInv, PermType
<1>2. links'[s][p[2]] = c /\ \A t \in Slot, q \in PortNo : t # s \/ q # p[2] => links'[t][q] = links[t][q]
  BY <1>0 DEF TableInv, PermType
<1>3. cnum'[c] = n /\ cpeer'[c] = p /\ owner'[c] = s
      /\ \A d \in Slot : d # c => cnum'[d] = cnum[d] /\ cpeer'[d] = cpeer[d] /\ owner'[d] = owner[d]
  BY DEF TableInv, ChanType
<1>4. \A d \in Slot : cnum'[d] # NoEntry =>
        /\ cpeer'[d] \in Peer
        /\ owner'[d] \in Slot
        /\ addr'[owner'[d]] = cpeer'[d][1]
        /\ links'[owner'[d]][cpeer'[d][2]] = d
  <2> SUFFICES ASSUME NEW d \in Slot, cnum'[d] # NoEntry
               PROVE  /\ cpeer'[d] \in Peer
                      /\ owner'[d] \in Slot
                      /\ addr'[owner'[d]] = cpeer'[d][1]
                      /\ links'[owner'[d]][cpeer'[d][2]] = d
    OBVIOUS
  <2>1. CASE d = c
    BY <2>1, <1>2, <1>3
  <2>2. CASE d # c
    <3>1. /\ cpeer[d] \in Peer /\ owner[d] \in Slot
          /\ addr[owner[d]] = cpeer[d][1] /\ links[owner[d]][cpeer[d][2]] = d
      BY <1>3, <2>2 DEF TableInv, PointersAgree
    <3>2. cpeer[d][1] \in Host /\ cpeer[d][2] \in PortNo
      BY <3>1 DEF Peer
    <3>3. addr[owner[d]] # NoEntry /\ d # NoEntry
      BY <3>1, <3>2, Nothing
    <3>4. links'[owner[d]][cpeer[d][2]] = d
      BY <3>1, <3>2, <3>3, <1>2
    <3> QED  BY <1>3, <2>2, <3>1, <3>3, <3>4
  <2> QED  BY <2>1, <2>2
<1>5. \A t \in Slot, q \in PortNo : links'[t][q] # NoEntry =>
        /\ cnum'[links'[t][q]] # NoEntry
        /\ owner'[links'[t][q]] = t
        /\ cpeer'[links'[t][q]][2] = q
  <2> SUFFICES ASSUME NEW t \in Slot, NEW q \in PortNo, links'[t][q] # NoEntry
               PROVE  /\ cnum'[links'[t][q]] # NoEntry
                      /\ owner'[links'[t][q]] = t
                      /\ cpeer'[links'[t][q]][2] = q
    OBVIOUS
  <2>1. CASE t = s /\ q = p[2]
    BY <2>1, <1>2, <1>3, Nothing
  <2>2. CASE t # s \/ q # p[2]
    <3>1. links'[t][q] = links[t][q] /\ links[t][q] \in Slot
      BY <2>2, <1>2 DEF TableInv, PermType
    <3>2. /\ cnum[links[t][q]] # NoEntry /\ owner[links[t][q]] = t /\ cpeer[links[t][q]][2] = q
      BY <3>1 DEF TableInv, PointersAgree
    <3> QED  BY <3>1, <3>2, <1>3
  <2> QED  BY <2>1, <2>2
<1> QED  BY <1>1, <1>4, <1>5 DEF PointersAgree

(* A slot that is not in use has no channels. *)
LEMMA FreeSlotHasNoLinks ==
  ASSUME TableInv, NEW s \in Slot, addr[s] = NoEntry, NEW q \in PortNo
  PROVE  links[s][q] = NoEntry
<1> SUFFICES ASSUME links[s][q] # NoEntry PROVE FALSE
  OBVIOUS
<1>1. links[s][q] \in Slot /\ cnum[links[s][q]] # NoEntry /\ owner[links[s][q]] = s
  BY DEF TableInv, PermType, PointersAgree
<1>2. cpeer[links[s][q]] \in Peer /\ addr[s] = cpeer[links[s][q]][1]
  BY <1>1 DEF TableInv, PointersAgree
<1> QED  BY <1>2, Nothing DEF Peer

-----------------------------------------------------------------------------
(* The actions *)

LEMMA CreatePermissionStep ==
  ASSUME TableInv, NEW h \in Host, CreatePermission(h)
  PROVE  TableInv'
<1>1. Matches(h) = {} /\ links' = links /\ UNCHANGED channels
  BY DEF CreatePermission
<1>2. ChanType' /\ ChPlaced'
  BY <1>1 DEF TableInv, ChanType, ChPlaced, channels
<1>3. CASE NotAdded(h)
  BY <1>1, <1>2, <1>3, NotAddedStep DEF TableInv, PermType, PointersAgree, channels
<1>4. CASE \E s \in Slot : Added(h, s)
  <2>1. PICK s \in Slot : Added(h, s)
    BY <1>4
  <2>2. addr' \in [Slot -> Host \cup {NoEntry}] /\ Placed'
    BY <1>1, <2>1, AddedPlaced
  <2>3. addr[s] = NoEntry /\ addr' = [addr EXCEPT ![s] = h] /\ extra' \in [Bucket -> 0..MaxExtra] /\ wild' = wild
    BY <1>1, <2>1, AddedFacts
  <2>4. \A t \in Slot : addr[t] # NoEntry => addr'[t] = addr[t]
    BY <2>3 DEF TableInv, PermType
  <2>5. PointersAgree'
    <3>1. \A c \in Slot : cnum[c] # NoEntry => addr'[owner[c]] = cpeer[c][1]
      <4> SUFFICES ASSUME NEW c \in Slot, cnum[c] # NoEntry PROVE addr'[owner[c]] = cpeer[c][1]
        OBVIOUS
      <4>1. cpeer[c] \in Peer /\ owner[c] \in Slot /\ addr[owner[c]] = cpeer[c][1]
        BY DEF TableInv, PointersAgree
      <4> QED  BY <4>1, <2>4, Nothing DEF Peer
    <3> QED  BY <1>1, <3>1 DEF TableInv, PointersAgree, channels
  <2> QED  BY <1>1, <1>2, <2>2, <2>3, <2>5 DEF TableInv, PermType
<1> QED  BY <1>3, <1>4 DEF CreatePermission

LEMMA LinkStep ==
  ASSUME TableInv, NEW n \in ChNum, Channels(n) = {}, NEW p \in Peer, NEW s \in Slot,
         links[s][p[2]] = NoEntry,
         addr' \in [Slot -> Host \cup {NoEntry}], Placed',
         extra' \in [Bucket -> 0..MaxExtra],
         wild' \subseteq Slot,
         addr'[s] = p[1],
         \A t \in Slot : addr[t] # NoEntry => addr'[t] = addr[t],
         Link(n, p, s)
  PROVE  TableInv'
<1>1. CASE \E c \in Slot :
             /\ TakeChannel(n, c)
             /\ cnum' = [cnum EXCEPT ![c] = n]
             /\ cpeer' = [cpeer EXCEPT ![c] = p]
             /\ owner' = [owner EXCEPT ![c] = s]
             /\ links' = [links EXCEPT ![s][p[2]] = c]
  <2>1. PICK c \in Slot :
             /\ TakeChannel(n, c)
             /\ cnum' = [cnum EXCEPT ![c] = n]
             /\ cpeer' = [cpeer EXCEPT ![c] = p]
             /\ owner' = [owner EXCEPT ![c] = s]
             /\ links' = [links EXCEPT ![s][p[2]] = c]
    BY <1>1, ZenonT(30)
  <2>2. ChanType' /\ ChPlaced'
    BY <2>1, LinkChannels, ZenonT(30)
  <2>3. cnum[c] = NoEntry
    BY <2>1, TakeFacts
  <2>4. links' \in [Slot -> [PortNo -> Slot \cup {NoEntry}]] /\ PointersAgree'
    BY <2>1, <2>3, LinkPointers, ZenonT(30)
  <2> QED  BY <2>2, <2>4 DEF TableInv, PermType
<1>2. CASE UNCHANGED <<links, channels>>
  <2>1. \A c \in Slot : cnum[c] # NoEntry => addr'[owner[c]] = cpeer[c][1]
    <3> SUFFICES ASSUME NEW c \in Slot, cnum[c] # NoEntry PROVE addr'[owner[c]] = cpeer[c][1]
      OBVIOUS
    <3>1. cpeer[c] \in Peer /\ owner[c] \in Slot /\ addr[owner[c]] = cpeer[c][1]
      BY DEF TableInv, PointersAgree
    <3> QED  BY ZenonT(30), <3>1, Nothing DEF Peer
  <2> QED  BY <1>2, <2>1 DEF TableInv, PermType, ChanType, ChPlaced, PointersAgree, channels
<1> QED  BY <1>1, <1>2 DEF Link

LEMMA ChannelBindStep ==
  ASSUME TableInv, NEW n \in ChNum, NEW p \in Peer, ChannelBind(n, p)
  PROVE  TableInv'
<1>0. Channels(n) = {} /\ ~BoundPeer(p) /\ p[1] \in Host /\ p[2] \in PortNo
  BY DEF ChannelBind, Peer
<1>1. CASE (\E s \in Slot : First(s, Matches(p[1])) /\ Link(n, p, s)) /\ UNCHANGED <<extra, addr, wild>>
  <2>1. PICK s \in Slot : First(s, Matches(p[1])) /\ Link(n, p, s)
    BY <1>1
  <2>2. links[s][p[2]] = NoEntry
    BY <1>0, <2>1 DEF BoundPeer
  <2>3. addr[s] = p[1]
    BY <2>1 DEF First, Matches
  <2>4. Placed' /\ addr' \in [Slot -> Host \cup {NoEntry}] /\ extra' \in [Bucket -> 0..MaxExtra] /\ wild' \subseteq Slot
    BY ZenonT(30), <1>1 DEF TableInv, PermType, Placed
  <2> QED  BY <1>0, <1>1, <2>1, <2>2, <2>3, <2>4, LinkStep
<1>2. CASE Matches(p[1]) = {} /\ NotAdded(p[1]) /\ UNCHANGED <<links, channels>>
  BY <1>0, <1>2, NotAddedStep DEF TableInv, PermType, ChanType, ChPlaced, PointersAgree, channels
<1>3. CASE Matches(p[1]) = {} /\ \E s \in Slot : Added(p[1], s) /\ Link(n, p, s)
  <2>1. PICK s \in Slot : Added(p[1], s) /\ Link(n, p, s)
    BY <1>3
  <2>2. Placed' /\ addr' \in [Slot -> Host \cup {NoEntry}]
    BY <1>0, <1>3, <2>1, AddedPlaced
  <2>3. addr[s] = NoEntry /\ addr' = [addr EXCEPT ![s] = p[1]] /\ extra' \in [Bucket -> 0..MaxExtra] /\ wild' = wild
    BY ZenonT(30), <1>0, <1>3, <2>1, AddedFacts
  <2>4. addr'[s] = p[1] /\ (\A t \in Slot : addr[t] # NoEntry => addr'[t] = addr[t]) /\ wild' \subseteq Slot
    BY <2>3 DEF TableInv, PermType
  <2>5. links[s][p[2]] = NoEntry
    BY <1>0, <2>3, FreeSlotHasNoLinks
  <2> QED  BY ZenonT(30), <1>0, <2>1, <2>2, <2>3, <2>4, <2>5, LinkStep
<1> QED  BY ZenonT(30), <1>1, <1>2, <1>3 DEF ChannelBind

(* Cleaning channels leaves the others as they are. *)
LEMMA CleanChannels ==
  ASSUME TableInv, NEW C \in SUBSET Slot, Clean(C), cextra' = cextra
  PROVE  /\ ChanType' /\ ChPlaced'
         /\ \A c \in Slot \ C : cnum'[c] = cnum[c] /\ cpeer'[c] = cpeer[c] /\ owner'[c] = owner[c]
         /\ \A c \in C : cnum'[c] = NoEntry
<1>1. ChanType'
  BY DEF TableInv, ChanType, Clean
<1>2. \A c \in Slot \ C : cnum'[c] = cnum[c] /\ cpeer'[c] = cpeer[c] /\ owner'[c] = owner[c]
  BY DEF Clean
<1>3. \A c \in C : cnum'[c] = NoEntry
  BY DEF Clean
<1>4. ChPlaced'
  BY <1>2, <1>3 DEF TableInv, ChPlaced
<1> QED  BY <1>1, <1>2, <1>3, <1>4

LEMMA DeleteChannelStep ==
  ASSUME TableInv, NEW c \in Slot, DeleteChannel(c)
  PROVE  TableInv'
<1>0. /\ cnum[c] # NoEntry /\ UNCHANGED <<extra, addr, wild, cextra>> /\ Clean({c})
      /\ links' = [links EXCEPT ![owner[c]][cpeer[c][2]] = NoEntry]
  BY DEF DeleteChannel
<1>1. cpeer[c] \in Peer /\ owner[c] \in Slot /\ links[owner[c]][cpeer[c][2]] = c
  BY <1>0 DEF TableInv, PointersAgree
<1>2. cpeer[c][2] \in PortNo
  BY <1>1 DEF Peer
<1>3. ChanType' /\ ChPlaced' /\ cnum'[c] = NoEntry
      /\ \A d \in Slot : d # c => cnum'[d] = cnum[d] /\ cpeer'[d] = cpeer[d] /\ owner'[d] = owner[d]
  <2>1. {c} \in SUBSET Slot
    OBVIOUS
  <2> QED  BY <1>0, <2>1, CleanChannels
<1>4. PermType' /\ links'[owner[c]][cpeer[c][2]] = NoEntry
      /\ \A t \in Slot, q \in PortNo : t # owner[c] \/ q # cpeer[c][2] => links'[t][q] = links[t][q]
  BY <1>0, <1>1, <1>2 DEF TableInv, PermType
<1>5. Placed'
  BY <1>0 DEF TableInv, Placed
<1>6. \A d \in Slot : cnum'[d] # NoEntry =>
        /\ cpeer'[d] \in Peer
        /\ owner'[d] \in Slot
        /\ addr'[owner'[d]] = cpeer'[d][1]
        /\ links'[owner'[d]][cpeer'[d][2]] = d
  <2> SUFFICES ASSUME NEW d \in Slot, cnum'[d] # NoEntry
               PROVE  /\ cpeer'[d] \in Peer
                      /\ owner'[d] \in Slot
                      /\ addr'[owner'[d]] = cpeer'[d][1]
                      /\ links'[owner'[d]][cpeer'[d][2]] = d
    OBVIOUS
  <2>1. d # c
    BY <1>3
  <2>2. /\ cpeer[d] \in Peer /\ owner[d] \in Slot
        /\ addr[owner[d]] = cpeer[d][1] /\ links[owner[d]][cpeer[d][2]] = d
    BY ZenonT(30), <1>3, <2>1 DEF TableInv, PointersAgree
  <2>3. cpeer[d][2] \in PortNo
    BY <2>2 DEF Peer
  <2>4. links'[owner[d]][cpeer[d][2]] = d
    BY <1>1, <1>4, <2>1, <2>2, <2>3
  <2> QED  BY ZenonT(30), <1>0, <1>3, <2>1, <2>2, <2>4
<1>7. \A t \in Slot, q \in PortNo : links'[t][q] # NoEntry =>
        /\ cnum'[links'[t][q]] # NoEntry
        /\ owner'[links'[t][q]] = t
        /\ cpeer'[links'[t][q]][2] = q
  <2> SUFFICES ASSUME NEW t \in Slot, NEW q \in PortNo, links'[t][q] # NoEntry
               PROVE  /\ cnum'[links'[t][q]] # NoEntry
                      /\ owner'[links'[t][q]] = t
                      /\ cpeer'[links'[t][q]][2] = q
    OBVIOUS
  <2>1. links'[t][q] = links[t][q] /\ (t # owner[c] \/ q # cpeer[c][2])
    BY <1>4
  <2>2. /\ links[t][q] \in Slot /\ cnum[links[t][q]] # NoEntry
        /\ owner[links[t][q]] = t /\ cpeer[links[t][q]][2] = q
    BY <2>1 DEF TableInv, PermType, PointersAgree
  <2>3. links[t][q] # c
    BY <2>1, <2>2
  <2> QED  BY <1>3, <2>1, <2>2, <2>3
<1> QED  BY <1>3, <1>4, <1>5, <1>6, <1>7 DEF TableInv, PointersAgree

(* The channels a permission points to. *)
Linked(s) == {links[s][q] : q \in PortNo} \ {NoEntry}

LEMMA CleanPermissionFacts ==
  ASSUME TableInv, NEW s \in Slot, CleanPermission(s)
  PROVE  /\ addr[s] # NoEntry /\ addr' = [addr EXCEPT ![s] = NoEntry]
         /\ Linked(s) \in SUBSET Slot
         /\ \A c \in Slot : cnum[c] # NoEntry => (c \in Linked(s) <=> owner[c] = s)
         /\ UNCHANGED <<extra, wild, cextra>>
         /\ ChanType' /\ ChPlaced'
         /\ \A c \in Slot \ Linked(s) : cnum'[c] = cnum[c] /\ cpeer'[c] = cpeer[c] /\ owner'[c] = owner[c]
         /\ \A c \in Linked(s) : cnum'[c] = NoEntry
<1>1. /\ addr[s] # NoEntry /\ addr' = [addr EXCEPT ![s] = NoEntry]
      /\ UNCHANGED <<extra, wild, cextra>> /\ Clean(Linked(s))
  BY DEF CleanPermission, Linked
<1>2. Linked(s) \in SUBSET Slot
  BY DEF TableInv, PermType, Linked
<1>3. \A c \in Slot : cnum[c] # NoEntry => (c \in Linked(s) <=> owner[c] = s)
  <2> SUFFICES ASSUME NEW c \in Slot, cnum[c] # NoEntry PROVE c \in Linked(s) <=> owner[c] = s
    OBVIOUS
  <2>1. ASSUME owner[c] = s PROVE c \in Linked(s)
    BY <2>1, Nothing DEF TableInv, PointersAgree, Linked, Peer
  <2>2. ASSUME c \in Linked(s) PROVE owner[c] = s
    BY <2>2 DEF TableInv, PointersAgree, Linked
  <2> QED  BY <2>1, <2>2
<1> QED  BY <1>1, <1>2, <1>3, CleanChannels

LEMMA CleanPermissionStep ==
  ASSUME TableInv, NEW s \in Slot, CleanPermission(s)
  PROVE  TableInv'
<1>0. links' = [links EXCEPT ![s] = [q \in PortNo |-> NoEntry]]
  BY DEF CleanPermission
<1>1. PermType'
  BY ZenonT(30), <1>0, CleanPermissionFacts DEF TableInv, PermType
<1>2. /\ \A q \in PortNo : links'[s][q] = NoEntry
      /\ \A t \in Slot : t # s => links'[t] = links[t] /\ addr'[t] = addr[t]
  BY <1>0, CleanPermissionFacts DEF TableInv, PermType
<1>a. addr'[s] = NoEntry /\ extra' = extra
  BY CleanPermissionFacts DEF TableInv, PermType
<1>3. Placed'
  BY <1>2, <1>a DEF TableInv, Placed
<1>4. \A d \in Slot : cnum'[d] # NoEntry =>
        /\ cpeer'[d] \in Peer
        /\ owner'[d] \in Slot
        /\ addr'[owner'[d]] = cpeer'[d][1]
        /\ links'[owner'[d]][cpeer'[d][2]] = d
  <2> SUFFICES ASSUME NEW d \in Slot, cnum'[d] # NoEntry
               PROVE  /\ cpeer'[d] \in Peer
                      /\ owner'[d] \in Slot
                      /\ addr'[owner'[d]] = cpeer'[d][1]
                      /\ links'[owner'[d]][cpeer'[d][2]] = d
    OBVIOUS
  <2>1. d \notin Linked(s)
    BY ZenonT(30), CleanPermissionFacts
  <2>2. cnum'[d] = cnum[d] /\ cpeer'[d] = cpeer[d] /\ owner'[d] = owner[d]
    BY <2>1, CleanPermissionFacts
  <2>3. owner[d] # s
    BY <2>1, <2>2, CleanPermissionFacts
  <2>4. /\ cpeer[d] \in Peer /\ owner[d] \in Slot
        /\ addr[owner[d]] = cpeer[d][1] /\ links[owner[d]][cpeer[d][2]] = d
    BY <2>2 DEF TableInv, PointersAgree
  <2> QED  BY <1>2, <2>2, <2>3, <2>4
<1>5. \A t \in Slot, q \in PortNo : links'[t][q] # NoEntry =>
        /\ cnum'[links'[t][q]] # NoEntry
        /\ owner'[links'[t][q]] = t
        /\ cpeer'[links'[t][q]][2] = q
  <2> SUFFICES ASSUME NEW t \in Slot, NEW q \in PortNo, links'[t][q] # NoEntry
               PROVE  /\ cnum'[links'[t][q]] # NoEntry
                      /\ owner'[links'[t][q]] = t
                      /\ cpeer'[links'[t][q]][2] = q
    OBVIOUS
  <2>1. t # s /\ links'[t][q] = links[t][q]
    BY <1>2
  <2>2. /\ links[t][q] \in Slot /\ cnum[links[t][q]] # NoEntry
        /\ owner[links[t][q]] = t /\ cpeer[links[t][q]][2] = q
    BY <2>1 DEF TableInv, PermType, PointersAgree
  <2>3. links[t][q] \notin Linked(s)
    BY ZenonT(30), <2>1, <2>2, CleanPermissionFacts
  <2> QED  BY <2>1, <2>2, <2>3, CleanPermissionFacts
<1> QED  BY ZenonT(30), <1>1, <1>3, <1>4, <1>5, CleanPermissionFacts DEF TableInv, PointersAgree

LEMMA ClearStep ==
  ASSUME TableInv, Clear
  PROVE  TableInv'
<1>1. PermType'
  BY TableAssumption DEF Clear, PermType
<1>2. cextra' \in [Bucket -> 0..MaxExtra]
  BY TableAssumption DEF Clear
<1>3. ChanType'
  BY <1>2 DEF Clear, Clean, TableInv, ChanType
<1>a. \A c \in Slot : cnum'[c] = NoEntry /\ addr'[c] = NoEntry /\ \A q \in PortNo : links'[c][q] = NoEntry
  BY DEF Clear, Clean
<1>4. Placed' /\ ChPlaced' /\ PointersAgree'
  BY <1>a DEF Placed, ChPlaced, PointersAgree
<1> QED  BY <1>1, <1>3, <1>4 DEF TableInv

LEMMA TableNextInv ==
  ASSUME TableInv, [TableNext]_tablevars
  PROVE  TableInv'
<1>1. CASE \E h \in Host : CreatePermission(h)
  BY <1>1, CreatePermissionStep
<1>2. CASE \E n \in ChNum, p \in Peer : ChannelBind(n, p)
  BY <1>2, ChannelBindStep
<1>3. CASE \E s \in Slot : DeleteChannel(s)
  BY <1>3, DeleteChannelStep
<1>4. CASE \E s \in Slot : CleanPermission(s)
  BY <1>4, CleanPermissionStep
<1>5. CASE Clear
  BY ZenonT(30), <1>5, ClearStep
<1>6. CASE UNCHANGED tablevars
  BY <1>6 DEF TableInv, PermType, ChanType, Placed, ChPlaced, PointersAgree, tablevars, permissions, channels
<1> QED  BY <1>1, <1>2, <1>3, <1>4, <1>5, <1>6 DEF TableNext

LEMMA TableInvariance == TableSpec => []TableInv
  BY TableInitInv, TableNextInv, PTL DEF TableSpec

(* The pointers between permissions and channels agree in every reachable  *)
(* state: no channel outlives its permission's slot, and no permission     *)
(* points to a channel slot that was cleaned or given to another number.   *)
THEOREM PointersAlwaysAgree == TableSpec => []PointersAgree
<1>1. TableInv => PointersAgree
  BY DEF TableInv
<1> QED  BY <1>1, TableInvariance, PTL

-----------------------------------------------------------------------------
(* The tables implement PeerTable. *)

Perms == {addr[s] : s \in {t \in Slot : addr[t] # NoEntry}}
Chan == [n \in ChNum |-> IF Channels(n) = {} THEN NoPeer ELSE cpeer[CHOOSE c \in Channels(n) : TRUE]]

(* Chan reads the one slot that has the number. *)
LEMMA ChanIs ==
  ASSUME TableInv, NEW n \in ChNum
  PROVE  /\ \A c \in Slot : cnum[c] = n => Chan[n] = cpeer[c]
         /\ (\A c \in Slot : cnum[c] # n) => Chan[n] = NoPeer
<1>1. ChHashOf[n] \in Bucket /\ cextra[ChHashOf[n]] \in 0..MaxExtra
  BY TableAssumption DEF TableInv, ChanType
<1>2. \A c : c \in Channels(n) => c \in Slot /\ cnum[c] = n
  BY <1>1, SlotsAre DEF Channels
<1>3. ASSUME NEW c \in Slot, cnum[c] = n PROVE Chan[n] = cpeer[c]
  <2>1. Channels(n) # {}
    BY <1>3, NoSuchChannel
  <2>2. PICK d : d = CHOOSE e \in Channels(n) : TRUE
    OBVIOUS
  <2>3. d \in Channels(n)
    BY <2>1, <2>2
  <2>4. d = c
    BY <1>2, <1>3, <2>3, Nothing DEF TableInv, ChPlaced
  <2> QED  BY <2>1, <2>2, <2>4, ZenonT(30) DEF Chan
<1>4. ASSUME \A c \in Slot : cnum[c] # n PROVE Chan[n] = NoPeer
  BY <1>2, <1>4 DEF Chan
<1> QED  BY <1>3, <1>4

ChanReads ==
  \A n \in ChNum :
    /\ \A c \in Slot : cnum[c] = n => Chan[n] = cpeer[c]
    /\ (\A c \in Slot : cnum[c] # n) => Chan[n] = NoPeer

LEMMA ChanReadsInv == TableInv => ChanReads
  BY ChanIs DEF ChanReads

LEMMA ChanReadsNext == TableInv' => ChanReads'
  BY ChanReadsInv, PTL

(* Every channel's peer is a peer, so NoPeer means unbound. *)
LEMMA ChanBound ==
  ASSUME TableInv, NEW n \in ChNum, Chan[n] # NoPeer
  PROVE  \E c \in Slot : cnum[c] = n /\ Chan[n] = cpeer[c] /\ cpeer[c] \in Peer /\ owner[c] \in Slot
                        /\ addr[owner[c]] = cpeer[c][1] /\ links[owner[c]][cpeer[c][2]] = c
<1>1. PICK c \in Slot : cnum[c] = n
  BY ChanIs
<1> QED  BY <1>1, ChanIs, Nothing DEF TableInv, PointersAgree

(* A step that cleans nothing and takes no channel slot leaves Chan alone. *)
LEMMA SameChan ==
  ASSUME UNCHANGED channels
  PROVE  Chan' = Chan
  BY DEF Chan, Channels, channels

LEMMA SamePerms ==
  ASSUME addr' = addr
  PROVE  Perms' = Perms
  BY DEF Perms

LEMMA MorePerms ==
  ASSUME PermType, NEW h \in Host, NEW s \in Slot, addr[s] = NoEntry, addr' = [addr EXCEPT ![s] = h]
  PROVE  Perms' = Perms \cup {h}
<1>1. addr'[s] = h /\ h # NoEntry /\ \A t \in Slot : t # s => addr'[t] = addr[t]
  BY Nothing DEF PermType
<1>2. \A x : x \in Perms' <=> \E t \in Slot : addr'[t] # NoEntry /\ addr'[t] = x
  BY DEF Perms
<1>3. \A x : x \in Perms <=> \E t \in Slot : addr[t] # NoEntry /\ addr[t] = x
  BY DEF Perms
<1>4. \A x : x \in Perms' <=> x \in Perms \/ x = h
  BY <1>1, <1>2, <1>3
<1> QED  BY <1>4

LEMMA CreatePermissionMaps ==
  ASSUME TableInv, NEW h \in Host, CreatePermission(h)
  PROVE  Chan' = Chan /\ (Perms' = Perms \/ Perms' = Perms \cup {h})
<1>1. Matches(h) = {} /\ UNCHANGED channels
  BY DEF CreatePermission
<1>2. Chan' = Chan
  BY <1>1, SameChan
<1>3. CASE NotAdded(h)
  BY <1>2, <1>3, NotAddedStep, SamePerms
<1>4. CASE \E s \in Slot : Added(h, s)
  <2>1. PICK s \in Slot : Added(h, s)
    BY <1>4
  <2>2. addr[s] = NoEntry /\ addr' = [addr EXCEPT ![s] = h]
    BY <1>1, <2>1, AddedFacts
  <2> QED  BY <1>2, <2>2, MorePerms, ZenonT(30) DEF TableInv
<1> QED  BY <1>3, <1>4 DEF CreatePermission

(* If each channel number keeps its slot's peer, Chan keeps it. *)
LEMMA ChanKept ==
  ASSUME TableInv, TableInv', NEW m \in ChNum,
         \A d \in Slot : cnum[d] = m <=> cnum'[d] = m,
         \A d \in Slot : cnum[d] = m => cpeer'[d] = cpeer[d]
  PROVE  Chan'[m] = Chan[m]
<1>1. ChanReads /\ ChanReads'
  BY ChanReadsInv, ChanReadsNext
<1>2. CASE \E d \in Slot : cnum[d] = m
  BY <1>1, <1>2 DEF ChanReads
<1>3. CASE \A d \in Slot : cnum[d] # m
  BY <1>1, <1>3 DEF ChanReads
<1> QED  BY <1>2, <1>3

LEMMA LinkMaps ==
  ASSUME TableInv, TableInv', NEW n \in ChNum, Channels(n) = {}, NEW p \in Peer, NEW s \in Slot, Link(n, p, s)
  PROVE  Chan' = Chan \/ Chan' = [Chan EXCEPT ![n] = p]
<1>1. CASE UNCHANGED <<links, channels>>
  BY <1>1, SameChan
<1>2. CASE \E c \in Slot :
             /\ TakeChannel(n, c)
             /\ cnum' = [cnum EXCEPT ![c] = n]
             /\ cpeer' = [cpeer EXCEPT ![c] = p]
  <2>1. PICK c \in Slot :
             /\ TakeChannel(n, c)
             /\ cnum' = [cnum EXCEPT ![c] = n]
             /\ cpeer' = [cpeer EXCEPT ![c] = p]
    BY <1>2, ZenonT(30)
  <2>2. cnum[c] = NoEntry
    BY <2>1, TakeFacts
  <2>3. cnum'[c] = n /\ cpeer'[c] = p
        /\ \A d \in Slot : d # c => cnum'[d] = cnum[d] /\ cpeer'[d] = cpeer[d]
    BY <2>1 DEF TableInv, ChanType
  <2>4. ASSUME NEW m \in ChNum, m # n PROVE Chan'[m] = Chan[m]
    <3>1. \A d \in Slot : cnum[d] = m <=> cnum'[d] = m
      BY <2>2, <2>3, <2>4, Nothing
    <3>2. \A d \in Slot : cnum[d] = m => cpeer'[d] = cpeer[d]
      BY <2>2, <2>3, Nothing
    <3> QED  BY <2>4, <3>1, <3>2, ChanKept
  <2>5. Chan'[n] = p
    BY <2>3, ChanReadsNext DEF ChanReads
  <2>6. DOMAIN Chan = ChNum /\ DOMAIN Chan' = ChNum
    BY DEF Chan
  <2>7. Chan = [m \in ChNum |-> Chan[m]] /\ Chan' = [m \in ChNum |-> Chan'[m]]
    BY DEF Chan
  <2> QED  BY <2>4, <2>5, <2>6, <2>7
<1> QED  BY <1>1, <1>2 DEF Link

LEMMA DeleteChannelMaps ==
  ASSUME TableInv, TableInv', NEW c \in Slot, DeleteChannel(c)
  PROVE  \E n \in ChNum : Chan' = [Chan EXCEPT ![n] = NoPeer] /\ Perms' = Perms
<1>1. cnum[c] # NoEntry /\ Clean({c}) /\ cextra' = cextra /\ addr' = addr
  BY DEF DeleteChannel
<1>2. {c} \in SUBSET Slot
  OBVIOUS
<1>3. cnum'[c] = NoEntry
      /\ \A d \in Slot : d # c => cnum'[d] = cnum[d] /\ cpeer'[d] = cpeer[d]
  BY <1>1, <1>2, CleanChannels
<1>4. PICK n \in ChNum : cnum[c] = n
  BY <1>1 DEF TableInv, ChanType
<1>5. ASSUME NEW m \in ChNum, m # n PROVE Chan'[m] = Chan[m]
  <2>1. \A d \in Slot : cnum[d] = m <=> cnum'[d] = m
    BY <1>3, <1>4, <1>5, Nothing
  <2>2. \A d \in Slot : cnum[d] = m => cpeer'[d] = cpeer[d]
    BY <1>3, <1>4, <1>5
  <2> QED  BY <1>5, <2>1, <2>2, ChanKept
<1>6. \A d \in Slot : cnum'[d] # n
  BY <1>3, <1>4, Nothing DEF TableInv, ChPlaced
<1>7. Chan'[n] = NoPeer
  BY <1>6, ChanReadsNext DEF ChanReads
<1>8. Perms' = Perms
  BY <1>1, SamePerms
<1>9. Chan = [m \in ChNum |-> Chan[m]] /\ Chan' = [m \in ChNum |-> Chan'[m]]
  BY DEF Chan
<1>10. Chan' = [Chan EXCEPT ![n] = NoPeer]
  BY <1>5, <1>7, <1>9
<1> QED  BY <1>8, <1>10, ZenonT(30)

LEMMA CleanPermissionMaps ==
  ASSUME TableInv, TableInv', NEW s \in Slot, CleanPermission(s)
  PROVE  /\ addr[s] \in Host
         /\ Perms' = Perms \ {addr[s]}
         /\ Chan' = [n \in ChNum |-> IF Chan[n] \in {addr[s]} \X PortNo THEN NoPeer ELSE Chan[n]]
<1> DEFINE h == addr[s]
<1>1. h \in Host /\ addr'[s] = NoEntry /\ \A t \in Slot : t # s => addr'[t] = addr[t] /\ addr[t] # h
  BY CleanPermissionFacts DEF TableInv, PermType, Placed
<1>2. Perms' = Perms \ {h}
  <2>1. \A x : x \in Perms' <=> \E t \in Slot : addr'[t] # NoEntry /\ addr'[t] = x
    BY DEF Perms
  <2>2. \A x : x \in Perms <=> \E t \in Slot : addr[t] # NoEntry /\ addr[t] = x
    BY DEF Perms
  <2>3. \A x : x \in Perms' <=> x \in Perms /\ x # h
    BY <1>1, <2>1, <2>2
  <2> QED  BY <2>3
<1>3. ASSUME NEW n \in ChNum, Chan[n] \in {h} \X PortNo PROVE Chan'[n] = NoPeer
  <2>1. Chan[n] # NoPeer
    BY ZenonT(30), <1>1, <1>3, Nothing DEF Peer
  <2>2. PICK c \in Slot : cnum[c] = n /\ Chan[n] = cpeer[c] /\ owner[c] \in Slot /\ addr[owner[c]] = cpeer[c][1]
    BY <2>1, ChanBound
  <2>3. owner[c] = s
    BY <1>1, <1>3, <2>2
  <2>4. c \in Linked(s) /\ cnum'[c] = NoEntry
    BY ZenonT(30), <2>2, <2>3, CleanPermissionFacts, Nothing
  <2>5. \A d \in Slot : cnum'[d] # n
    BY <2>2, <2>4, CleanPermissionFacts, Nothing DEF TableInv, ChPlaced
  <2> QED  BY ZenonT(30), <2>5, ChanReadsNext DEF ChanReads
<1>4. ASSUME NEW n \in ChNum, Chan[n] \notin {h} \X PortNo PROVE Chan'[n] = Chan[n]
  <2>1. \A d \in Slot : cnum[d] = n => d \notin Linked(s)
    <3> SUFFICES ASSUME NEW d \in Slot, cnum[d] = n, d \in Linked(s) PROVE FALSE
      OBVIOUS
    <3>1. cnum[d] # NoEntry /\ owner[d] = s
      BY CleanPermissionFacts, Nothing, SMTT(60)
    <3>2. cpeer[d] \in Peer /\ cpeer[d][1] = h
      BY <3>1 DEF TableInv, PointersAgree
    <3>3. Chan[n] = cpeer[d]
      BY ZenonT(30), ChanReadsInv DEF ChanReads
    <3> QED  BY <1>4, <3>2, <3>3 DEF Peer
  <2>2. \A d \in Slot : cnum[d] = n <=> cnum'[d] = n
    BY <2>1, CleanPermissionFacts, Nothing
  <2>3. \A d \in Slot : cnum[d] = n => cpeer'[d] = cpeer[d]
    BY <2>1, CleanPermissionFacts
  <2> QED  BY <2>2, <2>3, ChanKept
<1> QED  BY <1>1, <1>2, <1>3, <1>4 DEF Chan

LEMMA ChannelBindMaps ==
  ASSUME TableInv, TableInv', NEW n \in ChNum, NEW p \in Peer, ChannelBind(n, p)
  PROVE  \/ Chan' = Chan /\ Perms' = Perms
         \/ Chan' = Chan /\ Perms' = Perms \cup {p[1]}
         \/ /\ Chan[n] = NoPeer /\ \A m \in ChNum : Chan[m] # p
            /\ Chan' = [Chan EXCEPT ![n] = p] /\ Perms' = Perms \cup {p[1]}
<1>0. Channels(n) = {} /\ ~BoundPeer(p) /\ p[1] \in Host /\ p[2] \in PortNo
  BY DEF ChannelBind, Peer
<1>1. Chan[n] = NoPeer
  BY <1>0 DEF Chan
<1>2. \A m \in ChNum : Chan[m] # p
  <2> SUFFICES ASSUME NEW m \in ChNum, Chan[m] = p PROVE FALSE
    OBVIOUS
  <2>1. Chan[m] # NoPeer
    BY Nothing
  <2>2. PICK c \in Slot : cpeer[c] = p /\ owner[c] \in Slot /\ addr[owner[c]] = p[1] /\ links[owner[c]][p[2]] = c
    BY <2>1, ChanBound
  <2>3. First(owner[c], Matches(p[1]))
    <3>1. HashOf[p[1]] \in Bucket /\ extra[HashOf[p[1]]] \in 0..MaxExtra
      BY <1>0, TableAssumption DEF TableInv, PermType
    <3>2. \A t : t \in Matches(p[1]) => t \in Slot /\ addr[t] = p[1]
      BY <3>1, SlotsAre DEF Matches
    <3>3. \A t \in Matches(p[1]) : t = owner[c]
      BY <1>0, <2>2, <3>2, Nothing DEF TableInv, Placed
    <3>4. Matches(p[1]) # {}
      BY <1>0, <2>2, NotFound
    <3>5. owner[c][2] \in Int
      BY <2>2, SlotParts, TableAssumption
    <3> QED  BY <3>3, <3>4, <3>5 DEF First
  <2> QED  BY <1>0, <2>2, <2>3, Nothing DEF BoundPeer
<1>3. CASE (\E s \in Slot : First(s, Matches(p[1])) /\ Link(n, p, s)) /\ UNCHANGED <<extra, addr, wild>>
  <2>1. PICK s \in Slot : First(s, Matches(p[1])) /\ Link(n, p, s)
    BY ZenonT(30), <1>3
  <2>2. addr[s] = p[1] /\ addr[s] # NoEntry
    BY <1>0, <2>1, Nothing DEF First, Matches
  <2>3. p[1] \in Perms
    BY <2>2 DEF Perms
  <2>4. Perms' = Perms /\ Perms = Perms \cup {p[1]}
    BY <1>3, <2>3, SamePerms
  <2> QED  BY <1>0, <1>1, <1>2, <2>1, <2>4, LinkMaps
<1>4. CASE Matches(p[1]) = {} /\ NotAdded(p[1]) /\ UNCHANGED <<links, channels>>
  BY <1>0, <1>4, NotAddedStep, SamePerms, SameChan
<1>5. CASE Matches(p[1]) = {} /\ \E s \in Slot : Added(p[1], s) /\ Link(n, p, s)
  <2>1. PICK s \in Slot : Added(p[1], s) /\ Link(n, p, s)
    BY <1>5
  <2>2. addr[s] = NoEntry /\ addr' = [addr EXCEPT ![s] = p[1]]
    BY ZenonT(30), <1>0, <1>5, <2>1, AddedFacts
  <2>3. Perms' = Perms \cup {p[1]}
    BY <1>0, <2>2, MorePerms, ZenonT(30) DEF TableInv
  <2> QED  BY <1>0, <1>1, <1>2, <2>1, <2>3, LinkMaps
<1> QED  BY ZenonT(30), <1>3, <1>4, <1>5 DEF ChannelBind

LEMMA ClearMaps ==
  ASSUME TableInv', Clear
  PROVE  Perms' = {} /\ Chan' = [n \in ChNum |-> NoPeer]
<1>1. \A c \in Slot : cnum'[c] = NoEntry /\ addr'[c] = NoEntry
  BY DEF Clear, Clean
<1>2. Perms' = {}
  BY <1>1 DEF Perms
<1>3. \A n \in ChNum : Chan'[n] = NoPeer
  BY <1>1, ChanReadsNext, Nothing DEF ChanReads
<1> QED  BY <1>2, <1>3 DEF Chan

(* The hash tables with their slots, extra slots and pointers behave as    *)
(* PeerTable does: a host is found exactly while it is permitted, a        *)
(* channel number is bound to one peer, a peer to one number, and a        *)
(* permission takes its channels with it.                                  *)
THEOREM TablesImplementPeerTable == TableSpec => ImplementsPeerTable
<1>1. TableInit => Abstract!Init
  <2> SUFFICES ASSUME TableInit PROVE Abstract!Init
    OBVIOUS
  <2>1. TableInv
    BY TableInitInv
  <2>2. \A c \in Slot : cnum[c] = NoEntry /\ addr[c] = NoEntry
    BY DEF TableInit
  <2>3. Perms = {}
    BY <2>2 DEF Perms
  <2>4. \A n \in ChNum : Chan[n] = NoPeer
    BY <2>1, <2>2, ChanReadsInv, Nothing DEF ChanReads
  <2>5. Chan = [n \in ChNum |-> NoPeer]
    BY <2>4 DEF Chan
  <2> QED  BY <2>3, <2>5 DEF Abstract!Init, Perms, Chan
<1>2. TableInv /\ TableInv' /\ [TableNext]_tablevars => [Abstract!Next]_(Abstract!vars)
  <2> SUFFICES ASSUME TableInv, TableInv', [TableNext]_tablevars PROVE [Abstract!Next]_(Abstract!vars)
    OBVIOUS
  <2>1. CASE \E h \in Host : CreatePermission(h)
    BY <2>1, CreatePermissionMaps, ZenonT(30) DEF Abstract!Next, Abstract!Grant, Abstract!vars, Perms, Chan
  <2>2. CASE \E n \in ChNum, p \in Peer : ChannelBind(n, p)
    <3>1. PICK n \in ChNum, p \in Peer : ChannelBind(n, p)
      BY <2>2
    <3>2. p \in Abstract!Peer /\ p[1] \in Host
      BY DEF Peer, Abstract!Peer
    <3>3. CASE Chan' = Chan /\ Perms' = Perms
      BY <3>3 DEF Abstract!vars, Perms, Chan
    <3>4. CASE Chan' = Chan /\ Perms' = Perms \cup {p[1]}
      BY <3>2, <3>4, ZenonT(30) DEF Abstract!Next, Abstract!Grant, Perms, Chan
    <3>5. CASE /\ Chan[n] = NoPeer /\ \A m \in ChNum : Chan[m] # p
               /\ Chan' = [Chan EXCEPT ![n] = p] /\ Perms' = Perms \cup {p[1]}
      <4>1. Abstract!Bind(n, p)
        BY <3>5 DEF Abstract!Bind, Perms, Chan
      <4> QED  BY <3>2, <4>1 DEF Abstract!Next
    <3> QED  BY <3>1, <3>3, <3>4, <3>5, ChannelBindMaps
  <2>3. CASE \E s \in Slot : DeleteChannel(s)
    <3>1. PICK n \in ChNum : Chan' = [Chan EXCEPT ![n] = NoPeer] /\ Perms' = Perms
      BY <2>3, DeleteChannelMaps
    <3>2. Abstract!Unbind(n)
      BY <3>1, ZenonT(30) DEF Abstract!Unbind, Perms, Chan
    <3> QED  BY <3>2 DEF Abstract!Next
  <2>4. CASE \E s \in Slot : CleanPermission(s)
    <3>1. PICK s \in Slot : CleanPermission(s)
      BY <2>4
    <3>2. PICK h \in Host : h = addr[s]
      BY <3>1, CleanPermissionMaps
    <3>3. Abstract!Revoke(h)
      BY <3>1, <3>2, CleanPermissionMaps, SMTT(60) DEF Abstract!Revoke, Perms, Chan
    <3> QED  BY <3>3 DEF Abstract!Next
  <2>5. CASE Clear
    <3>1. Abstract!Clear
      BY <2>5, ClearMaps DEF Abstract!Clear, Perms, Chan
    <3> QED  BY ZenonT(30), <3>1 DEF Abstract!Next
  <2>6. CASE UNCHANGED tablevars
    <3>1. Perms' = Perms /\ Chan' = Chan
      BY <2>6, SamePerms, SameChan DEF tablevars, permissions
    <3> QED  BY <3>1, ZenonT(30) DEF Abstract!vars, Perms, Chan
  <2> QED  BY <2>1, <2>2, <2>3, <2>4, <2>5, <2>6 DEF TableNext
<1>3. TableSpec => []TableInv
  BY TableInvariance
<1> QED  BY <1>1, <1>2, <1>3, PTL DEF TableSpec, ImplementsPeerTable, Abstract!Spec

-----------------------------------------------------------------------------
(* The admin thread's list of sessions: AdminServer *)

AsRecord ==
  [st : {"none", "open", "gone"}, sock : BOOLEAN, alloc : BOOLEAN, quota : BOOLEAN,
   mobile : BOOLEAN]
Report == [id : AsId, valid : BOOLEAN]
RelayMessage == [t : {"socket"}] \cup [t : {"cancel"}, id : AsId]

AsTypeOK ==
  /\ ascfg \in AsSetup
  /\ ases \in [AsId -> AsRecord]
  /\ relayq \in [AsThread -> Seq(RelayMessage)]
  /\ adminq \in Seq(Report)
  /\ listed \subseteq AsId

(* A session without its client has given its quota back: MobileReturns    *)
(* takes nothing away that was reported.                                   *)
QuotaHasClient == \A sid \in AsId : ases[sid].quota => ases[sid].sock

AsInv == AsTypeOK /\ QuotaHasClient /\ ListedIsLive

LEMMA AsInitInv == AsInit => AsInv
  <1> SUFFICES ASSUME AsInit PROVE AsInv
    OBVIOUS
  <1>1. NoSession \in AsRecord /\ ~NoSession.quota
    BY DEF NoSession, AsSession, AsRecord
  <1>2. AsTypeOK
    BY <1>1 DEF AsInit, AsTypeOK
  <1> QED
    BY <1>1, <1>2 DEF AsInit, AsInv, QuotaHasClient, ListedIsLive

LEMMA RecordType ==
  ASSUME NEW st \in {"none", "open", "gone"}, NEW sock \in BOOLEAN, NEW al \in BOOLEAN,
         NEW quota \in BOOLEAN, NEW mobile \in BOOLEAN
  PROVE  AsSession(st, sock, al, quota, mobile) \in AsRecord
  BY DEF AsSession, AsRecord

(* A step that reports session sid, as live only if it is live afterwards, *)
(* and leaves every other session as it was.                               *)
LEMMA ReportedInv ==
  ASSUME AsInv, NEW sid \in AsId, NEW new \in AsRecord, NEW valid \in BOOLEAN,
         ases' = [ases EXCEPT ![sid] = new], new.quota => new.sock,
         valid => turn_session_info_copy_from(new),
         send_turn_session_info(sid, valid),
         ascfg' = ascfg, listed' = listed, relayq' \in [AsThread -> Seq(RelayMessage)]
  PROVE  AsInv'
  <1> DEFINE m == [id |-> sid, valid |-> valid]
  <1>1. m \in Report /\ m.id = sid /\ m.valid = valid
    BY DEF Report
  <1>2. adminq' = Append(adminq, m)
    BY DEF send_turn_session_info
  <1> HIDE DEF m
  <1>3. AsTypeOK'
    BY <1>1, <1>2 DEF AsInv, AsTypeOK
  <1>4. QuotaHasClient'
    BY DEF AsInv, AsTypeOK, QuotaHasClient
  <1>5. /\ Len(adminq') = Len(adminq) + 1 /\ Len(adminq) \in Nat
        /\ adminq'[Len(adminq) + 1] = m
        /\ \A k \in 1..Len(adminq) : adminq'[k] = adminq[k] /\ adminq[k] \in Report
    BY <1>1, <1>2 DEF AsInv, AsTypeOK
  <1>6. ases'[sid] = new /\ \A i \in AsId : i # sid => ases'[i] = ases[i]
    BY DEF AsInv, AsTypeOK
  <1>7. ASSUME NEW i \in listed, \A k \in 1..Len(adminq') : adminq'[k].id # i
        PROVE  turn_session_info_copy_from(ases'[i])
    <2>1. i # sid
      BY <1>1, <1>5, <1>7
    <2>2. i \in AsId
      BY DEF AsInv, AsTypeOK
    <2>3. \A k \in 1..Len(adminq) : adminq[k].id # i
      BY <1>5, <1>7
    <2> QED
      BY ZenonT(30), <1>6, <2>1, <2>2, <2>3 DEF AsInv, ListedIsLive
  <1>8. ASSUME NEW k \in 1..Len(adminq'), adminq'[k].valid,
               \A j \in (k + 1)..Len(adminq') : adminq'[j].id # adminq'[k].id
        PROVE  turn_session_info_copy_from(ases'[adminq'[k].id])
    <2>1. CASE k = Len(adminq) + 1
      BY ZenonT(30), <1>1, <1>5, <1>6, <1>8, <2>1
    <2>2. CASE k \in 1..Len(adminq)
      <3>1. Len(adminq) + 1 \in (k + 1)..Len(adminq')
        BY <1>5, <2>2
      <3>2. adminq[k].id # sid /\ adminq[k].id \in AsId
        BY <1>1, <1>5, <1>8, <2>2, <3>1 DEF Report
      <3>3. \A j \in (k + 1)..Len(adminq) : adminq[j].id # adminq[k].id
        BY <1>5, <1>8, <2>2
      <3> QED
        BY <1>5, <1>6, <1>8, <2>2, <3>2, <3>3 DEF AsInv, ListedIsLive
    <2> QED
      BY <1>5, <2>1, <2>2
  <1>9. ListedIsLive'
    BY <1>7, <1>8 DEF ListedIsLive, turn_session_info_copy_from
  <1> QED
    BY <1>3, <1>4, <1>9 DEF AsInv

(* A step without a report keeps every session that is live.               *)
LEMMA SilentInv ==
  ASSUME AsInv, ases' \in [AsId -> AsRecord],
         \A sid \in AsId : ases'[sid].quota => ases'[sid].sock,
         \A sid \in AsId : turn_session_info_copy_from(ases[sid])
                            => turn_session_info_copy_from(ases'[sid]),
         UNCHANGED <<ascfg, adminq, listed>>, relayq' \in [AsThread -> Seq(RelayMessage)]
  PROVE  AsInv'
  <1>1. AsTypeOK' /\ QuotaHasClient'
    BY DEF AsInv, AsTypeOK, QuotaHasClient
  <1>2. \A k \in 1..Len(adminq) : adminq[k].id \in AsId
    <2>1. \A k \in 1..Len(adminq) : adminq[k] \in Report
      BY DEF AsInv, AsTypeOK
    <2> QED
      BY <2>1 DEF Report
  <1>3. ASSUME NEW i \in listed, \A k \in 1..Len(adminq) : adminq[k].id # i
        PROVE  turn_session_info_copy_from(ases'[i])
    BY <1>3, ZenonT(30) DEF AsInv, AsTypeOK, ListedIsLive
  <1>4. ASSUME NEW k \in 1..Len(adminq), adminq[k].valid,
               \A j \in (k + 1)..Len(adminq) : adminq[j].id # adminq[k].id
        PROVE  turn_session_info_copy_from(ases'[adminq[k].id])
    BY <1>2, <1>4 DEF AsInv, ListedIsLive
  <1>5. ListedIsLive'
    BY <1>3, <1>4 DEF ListedIsLive, turn_session_info_copy_from
  <1> QED
    BY <1>1, <1>5 DEF AsInv

(* The admin thread reads a report: the same sessions are shown once the   *)
(* rest has been read.                                                     *)
LEMMA ReceiveInv ==
  ASSUME AsInv, admin_server_receive_message
  PROVE  AsInv'
  <1> DEFINE m == adminq[1]
  <1>1. /\ adminq \in Seq(Report) /\ adminq # <<>> /\ adminq' = Tail(adminq)
        /\ listed' = put_listed(listed, m)
        /\ UNCHANGED <<ascfg, ases, relayq>>
    BY DEF admin_server_receive_message, AsInv, AsTypeOK
  <1>2. /\ Len(adminq) \in Nat \ {0} /\ Len(adminq') = Len(adminq) - 1
        /\ \A k \in 1..Len(adminq) : adminq[k] \in Report
        /\ \A k \in 1..Len(adminq') : adminq'[k] = adminq[k + 1]
    BY <1>1
  <1>3. m \in Report /\ m.id \in AsId
    BY <1>2 DEF Report
  <1> HIDE DEF m
  <1>4. AsTypeOK' /\ QuotaHasClient'
    BY <1>1, <1>3 DEF AsInv, AsTypeOK, QuotaHasClient, put_listed
  <1>5. ASSUME NEW i \in listed', \A k \in 1..Len(adminq') : adminq'[k].id # i
        PROVE  turn_session_info_copy_from(ases[i])
    <2>1. \A k \in 2..Len(adminq) : adminq[k].id # i
      <3> SUFFICES ASSUME NEW k \in 2..Len(adminq) PROVE adminq[k].id # i
        OBVIOUS
      <3>1. k - 1 \in 1..Len(adminq') /\ adminq'[k - 1] = adminq[k]
        BY <1>2
      <3> QED
        BY <1>5, <3>1
    <2>2. CASE m.id = i /\ m.valid
      <3>1. adminq[1].valid /\ \A j \in 2..Len(adminq) : adminq[j].id # adminq[1].id
        BY <2>1, <2>2 DEF m
      <3>2. 1 \in 1..Len(adminq) /\ 1 + 1 = 2
        BY <1>2
      <3> QED
        BY <2>2, <3>1, <3>2 DEF AsInv, ListedIsLive, m
    <2>3. CASE m.id # i
      <3>1. i \in listed
        BY <1>1, <1>5, <2>3 DEF put_listed
      <3>2. \A k \in 1..Len(adminq) : adminq[k].id # i
        BY <1>2, <2>1, <2>3 DEF m
      <3> QED
        BY <3>1, <3>2 DEF AsInv, ListedIsLive
    <2>4. CASE m.id = i /\ ~m.valid
      BY <1>1, <1>5, <2>4 DEF put_listed
    <2> QED
      BY <2>2, <2>3, <2>4
  <1>6. ASSUME NEW k \in 1..Len(adminq'), adminq'[k].valid,
               \A j \in (k + 1)..Len(adminq') : adminq'[j].id # adminq'[k].id
        PROVE  turn_session_info_copy_from(ases[adminq'[k].id])
    <2>1. k + 1 \in 1..Len(adminq) /\ adminq'[k] = adminq[k + 1]
      BY <1>2
    <2>2. ASSUME NEW j \in ((k + 1) + 1)..Len(adminq) PROVE adminq[j].id # adminq[k + 1].id
      <3>1. j - 1 \in (k + 1)..Len(adminq') /\ adminq'[j - 1] = adminq[j]
        BY <1>2, <2>1
      <3> QED
        BY <1>6, <2>1, <3>1
    <2> QED
      BY <1>6, <2>1, <2>2 DEF AsInv, ListedIsLive
  <1>7. ListedIsLive'
    BY <1>1, <1>5, <1>6 DEF ListedIsLive, turn_session_info_copy_from
  <1> QED
    BY <1>4, <1>7 DEF AsInv

-----------------------------------------------------------------------------
LEMMA ShutdownInv ==
  ASSUME AsInv, NEW sid \in AsId, NEW ss \in AsRecord, NEW force \in BOOLEAN,
         as_shutdown_client_connection(sid, ss, force),
         UNCHANGED <<ascfg, listed>>, relayq' \in [AsThread -> Seq(RelayMessage)]
  PROVE  AsInv'
  <1>1. Ended(ss, force) \in AsRecord /\ ~Ended(ss, force).quota
    BY DEF Ended, AsSession, AsRecord
  <1> QED
    BY <1>1, ReportedInv, ZenonT(30) DEF as_shutdown_client_connection

LEMMA UnallocatedType ==
  ASSUME NEW ss \in AsRecord PROVE Unallocated(ss) \in AsRecord
  BY DEF Unallocated, AsSession, AsRecord

(* Ids of sessions are ids, and what is kept of each is a record. *)
LEMMA SessionType ==
  ASSUME AsInv, NEW sid \in AsIds
  PROVE  sid \in AsId /\ ases[sid] \in AsRecord /\ (ases[sid].quota => ases[sid].sock)
  BY AsAssumption DEF AsInv, AsTypeOK, AsIds, AsId, QuotaHasClient

(* A report of a session that stays as it is. *)
LEMMA UnchangedReportInv ==
  ASSUME AsInv, NEW sid \in AsIds, report_turn_session_info(sid, ases[sid]),
         UNCHANGED <<ascfg, ases, listed, relayq>>
  PROVE  AsInv'
  <1>1. sid \in AsId /\ ases[sid] \in AsRecord /\ (ases[sid].quota => ases[sid].sock)
    BY SessionType
  <1>2. ases' = [ases EXCEPT ![sid] = ases[sid]]
    BY DEF AsInv, AsTypeOK
  <1>3. turn_session_info_copy_from(ases[sid]) \in BOOLEAN
    BY <1>1 DEF turn_session_info_copy_from, AsRecord
  <1>4. relayq' \in [AsThread -> Seq(RelayMessage)]
    BY DEF AsInv, AsTypeOK
  <1> QED
    BY <1>1, <1>2, <1>3, <1>4, ReportedInv, ZenonT(30) DEF report_turn_session_info

LEMMA ReadInv ==
  ASSUME AsInv, NEW sid \in AsIds, read_client_connection(sid)
  PROVE  AsInv'
  <1>1. sid \in AsId /\ ases[sid] \in AsRecord /\ ases[sid].sock
    BY SessionType DEF read_client_connection
  <1>2. UNCHANGED <<ascfg, relayq, listed>> /\ relayq' \in [AsThread -> Seq(RelayMessage)]
    BY DEF read_client_connection, AsInv, AsTypeOK
  <1>3. CASE report_turn_session_info(sid, ases[sid]) /\ ases' = ases
    BY <1>2, <1>3, UnchangedReportInv
  <1>4. ASSUME NEW mobile \in BOOLEAN, NEW new,
               new = AsSession(ases[sid].st, ases[sid].sock, TRUE, TRUE, mobile),
               ases' = [ases EXCEPT ![sid] = new], report_turn_session_info(sid, new)
        PROVE  AsInv'
    <2>1. new \in AsRecord /\ (new.quota => new.sock)
      BY <1>1, <1>4 DEF AsSession, AsRecord
    <2>2. turn_session_info_copy_from(new) \in BOOLEAN
      BY <2>1 DEF turn_session_info_copy_from, AsRecord
    <2> QED
      BY <1>1, <1>2, <1>4, <2>1, <2>2, ReportedInv, ZenonT(30) DEF report_turn_session_info
  <1>5. CASE as_shutdown_client_connection(sid, Unallocated(ases[sid]), FALSE)
    BY <1>1, <1>2, <1>5, UnallocatedType, ShutdownInv, ZenonT(30)
  <1>6. CASE as_shutdown_client_connection(sid, ases[sid], FALSE)
    BY <1>1, <1>2, <1>6, ShutdownInv, ZenonT(30)
  <1> QED
    BY <1>3, <1>4, <1>5, <1>6, ZenonT(30) DEF read_client_connection

LEMMA SessionEndsInv ==
  ASSUME AsInv, NEW sid \in AsIds, SessionEnds(sid)
  PROVE  AsInv'
  <1>1. sid \in AsId /\ ases[sid] \in AsRecord /\ Unallocated(ases[sid]) \in AsRecord
    BY SessionType, UnallocatedType
  <1>2. UNCHANGED <<ascfg, listed>> /\ relayq' \in [AsThread -> Seq(RelayMessage)]
    BY DEF SessionEnds, AsInv, AsTypeOK
  <1>3. PICK ss \in AsRecord, force \in BOOLEAN : as_shutdown_client_connection(sid, ss, force)
    BY <1>1, ZenonT(30) DEF SessionEnds
  <1> QED
    BY <1>1, <1>2, <1>3, ShutdownInv

(* The client of a mobile session had no quota that could be lost. *)
LEMMA MobileReturnsInv ==
  ASSUME AsInv, NEW sid \in AsIds, MobileReturns(sid)
  PROVE  AsInv'
  <1>1. sid \in AsId /\ ases[sid] \in AsRecord /\ ~ases[sid].quota
    BY SessionType DEF MobileReturns
  <1>2. PICK quota \in BOOLEAN :
          ases' = [ases EXCEPT ![sid] = AsSession("open", TRUE, ases[sid].alloc, quota, TRUE)]
    BY ZenonT(30) DEF MobileReturns
  <1> DEFINE new == AsSession("open", TRUE, ases[sid].alloc, quota, TRUE)
  <1>3. new \in AsRecord /\ new.sock
    BY <1>1 DEF AsSession, AsRecord
  <1> HIDE DEF new
  <1>4. ases' = [ases EXCEPT ![sid] = new]
    BY <1>2 DEF new
  <1>5. ases' \in [AsId -> AsRecord] /\ \A i \in AsId : ases'[i].quota => ases'[i].sock
    BY <1>1, <1>3, <1>4 DEF AsInv, AsTypeOK, QuotaHasClient
  <1>6. \A i \in AsId : turn_session_info_copy_from(ases[i])
                           => turn_session_info_copy_from(ases'[i])
    BY <1>1, <1>4 DEF AsInv, AsTypeOK, turn_session_info_copy_from
  <1>7. UNCHANGED <<ascfg, adminq, listed>> /\ relayq' \in [AsThread -> Seq(RelayMessage)]
    BY DEF MobileReturns, AsInv, AsTypeOK
  <1> QED
    BY <1>5, <1>6, <1>7, SilentInv

-----------------------------------------------------------------------------
(* Steps that leave sessions, reports and the list alone. *)
LEMMA IdleInv ==
  ASSUME AsInv, UNCHANGED <<ascfg, ases, adminq, listed>>,
         relayq' \in [AsThread -> Seq(RelayMessage)]
  PROVE  AsInv'
  <1>1. ases' \in [AsId -> AsRecord] /\ \A i \in AsId : ases'[i].quota => ases'[i].sock
    BY DEF AsInv, AsTypeOK, QuotaHasClient
  <1>2. \A i \in AsId : turn_session_info_copy_from(ases[i])
                           => turn_session_info_copy_from(ases'[i])
    OBVIOUS
  <1> QED
    BY <1>1, <1>2, SilentInv

LEMMA SendType ==
  ASSUME AsInv, NEW t \in AsThread, NEW m \in RelayMessage, send_message_to_relay(t, m)
  PROVE  relayq' \in [AsThread -> Seq(RelayMessage)]
  BY DEF AsInv, AsTypeOK, send_message_to_relay

LEMMA ServerInputInv ==
  ASSUME AsInv, NEW t \in AsThread, server_input_handler(t)
  PROVE  AsInv'
  <1>1. [t |-> "socket"] \in RelayMessage
    BY DEF RelayMessage
  <1>2. relayq' \in [AsThread -> Seq(RelayMessage)]
    BY <1>1, SendType DEF server_input_handler
  <1> QED
    BY <1>2, IdleInv DEF server_input_handler

LEMMA CliInv ==
  ASSUME AsInv, NEW c \in CliCommands, run_cli_input(c)
  PROVE  AsInv'
  <1>1. relayq' \in [AsThread -> Seq(RelayMessage)]
    <2>1. CASE relayq' = relayq
      BY <2>1 DEF AsInv, AsTypeOK
    <2>2. ASSUME NEW sid \in AsIds, send_session_cancellation_to_relay(sid)
          PROVE  relayq' \in [AsThread -> Seq(RelayMessage)]
      <3>1. sid \in AsId
        BY SessionType
      <3>2. [t |-> "cancel", id |-> sid] \in RelayMessage
        BY <3>1 DEF RelayMessage
      <3> QED
        BY <2>1, <2>2, <3>2, SendType DEF send_session_cancellation_to_relay
    <2> QED
      BY <2>1, <2>2 DEF run_cli_input
  <1> QED
    BY <1>1, IdleInv DEF run_cli_input

(* A session is opened where there was none, or one is cancelled.          *)
LEMMA OpenInv ==
  ASSUME AsInv, NEW t \in AsThread, as_open_client_connection_session(t),
         UNCHANGED <<ascfg, adminq, listed>>, relayq' \in [AsThread -> Seq(RelayMessage)]
  PROVE  AsInv'
  <1>1. PICK sid \in AsIds, sock \in BOOLEAN :
          /\ ases[sid].st = "none"
          /\ ases' = [ases EXCEPT ![sid] = AsSession("open", sock, FALSE, FALSE, FALSE)]
    BY ZenonT(30) DEF as_open_client_connection_session
  <1> DEFINE new == AsSession("open", sock, FALSE, FALSE, FALSE)
  <1>2. new \in AsRecord /\ ~new.quota
    BY DEF AsSession, AsRecord
  <1> HIDE DEF new
  <1>3. sid \in AsId /\ ases' = [ases EXCEPT ![sid] = new]
    BY <1>1, SessionType DEF new
  <1>4. ases' \in [AsId -> AsRecord] /\ \A i \in AsId : ases'[i].quota => ases'[i].sock
    BY <1>2, <1>3 DEF AsInv, AsTypeOK, QuotaHasClient
  <1>5. \A i \in AsId : turn_session_info_copy_from(ases[i])
                           => turn_session_info_copy_from(ases'[i])
    BY <1>1, <1>3, ZenonT(30) DEF AsInv, AsTypeOK, turn_session_info_copy_from
  <1> QED
    BY <1>4, <1>5, SilentInv

LEMMA RelayInv ==
  ASSUME AsInv, NEW t \in AsThread, relay_receive_message(t)
  PROVE  AsInv'
  <1> DEFINE m == Head(relayq[t])
  <1>1. relayq[t] \in Seq(RelayMessage) /\ relayq[t] # <<>>
    BY DEF relay_receive_message, AsInv, AsTypeOK
  <1>2. m \in RelayMessage /\ Tail(relayq[t]) \in Seq(RelayMessage)
    BY <1>1
  <1>3. relayq' \in [AsThread -> Seq(RelayMessage)]
    BY <1>2 DEF relay_receive_message, AsInv, AsTypeOK
  <1>4. UNCHANGED <<ascfg, listed>> /\ handle_relay_message(m, t)
    BY DEF relay_receive_message
  <1> HIDE DEF m
  <1>5. CASE m.t = "socket"
    BY <1>3, <1>4, <1>5, OpenInv DEF handle_relay_message
  <1>6. CASE m.t # "socket"
    <2>1. m.id \in AsId
      BY <1>2, <1>6 DEF RelayMessage
    <2>2. ases[m.id] \in AsRecord
      BY <2>1 DEF AsInv, AsTypeOK
    <2>3. CASE as_shutdown_client_connection(m.id, ases[m.id], FALSE)
      BY <1>3, <1>4, <2>1, <2>2, <2>3, ShutdownInv, ZenonT(30)
    <2>4. CASE UNCHANGED <<ases, adminq>>
      BY ZenonT(30), <1>3, <1>4, <2>4, IdleInv
    <2> QED
      BY <1>4, <1>6, <2>3, <2>4, ZenonT(30) DEF handle_relay_message, turn_cancel_session
  <1> QED
    BY <1>5, <1>6

-----------------------------------------------------------------------------
LEMMA AsNextInv == AsInv /\ [AsNext]_AsVars => AsInv'
  <1> SUFFICES ASSUME AsInv, [AsNext]_AsVars PROVE AsInv'
    OBVIOUS
  <1>0. relayq \in [AsThread -> Seq(RelayMessage)]
    BY DEF AsInv, AsTypeOK
  <1>1. CASE admin_server_receive_message
    BY <1>1, ReceiveInv
  <1>2. CASE https_admin_server_receive_message
    BY <1>0, <1>2, IdleInv DEF https_admin_server_receive_message
  <1>3. CASE cliserver_input_handler \/ CliPassword \/ cli_eventcb_bev
    BY <1>0, <1>3, IdleInv DEF cliserver_input_handler, CliPassword, cli_eventcb_bev, AsSesVars
  <1>4. ASSUME NEW c \in CliCommands, run_cli_input(c) PROVE AsInv'
    BY <1>4, CliInv
  <1>5. ASSUME NEW sid \in AsIds, read_client_connection(sid) PROVE AsInv'
    BY <1>5, ReadInv
  <1>6. ASSUME NEW sid \in AsIds, turn_report_session_usage(sid) PROVE AsInv'
    BY <1>6, UnchangedReportInv DEF turn_report_session_usage
  <1>7. ASSUME NEW sid \in AsIds, SessionEnds(sid) PROVE AsInv'
    BY <1>7, SessionEndsInv
  <1>8. ASSUME NEW sid \in AsIds, MobileReturns(sid) PROVE AsInv'
    BY <1>8, MobileReturnsInv
  <1>9. ASSUME NEW t \in AsThread, server_input_handler(t) PROVE AsInv'
    BY <1>9, ServerInputInv
  <1>10. ASSUME NEW t \in AsThread, relay_receive_message(t) PROVE AsInv'
    BY <1>10, RelayInv
  <1>11. ASSUME NEW t \in AsThread, AltAsked(t) \/ AltAnswered(t) PROVE AsInv'
    BY <1>0, <1>11, IdleInv DEF AltAsked, AltAnswered, AsSesVars
  <1>12. CASE UNCHANGED AsVars
    BY <1>0, <1>12, IdleInv DEF AsVars
  <1> QED
    BY <1>1, <1>2, <1>3, <1>4, <1>5, <1>6, <1>7, <1>8, <1>9, <1>10, <1>11, <1>12 DEF AsNext

(* However reports from requests, traffic, timers, mobile clients and      *)
(* cancellations follow each other, and however late the admin thread      *)
(* reads them, its list has no session that ended without a report of the  *)
(* end still to be read.                                                   *)
THEOREM AlwaysListedIsLive == AsSpec => []ListedIsLive
  <1>1. AsInv => ListedIsLive
    BY DEF AsInv
  <1> QED
    BY <1>1, AsInitInv, AsNextInv, PTL DEF AsSpec

=============================================================================
