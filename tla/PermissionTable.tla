-------------------------- MODULE PermissionTable --------------------------
(***************************************************************************)
(* The permission and channel tables of one allocation                     *)
(* (ns_turn_allocation.c): two hash tables of slots, a fixed number of     *)
(* slots in each bucket and extra ones added on demand, and the pointers   *)
(* between them: a permission points to its channels by port (chns), a     *)
(* channel points to its permission (owner).                               *)
(*                                                                         *)
(* A slot is <<bucket, index>>; indices up to MainSlots are main slots.  Memory *)
(* may run out wherever the code allocates, if Faults names the place.     *)
(* Reading a pointer that was never written ends the process, and the      *)
(* tables with it: what would read one is not enabled, and Clear stands    *)
(* for the end of the process too.                                         *)
(***************************************************************************)
EXTENDS Integers, FiniteSets

CONSTANTS
  Host, PortNo,     \* peer addresses
  ChNum,            \* channel numbers
  Bucket,           \* TURN_PERMISSION_HASHTABLE_SIZE buckets, also of channels
  HashOf, ChHashOf, \* the bucket of a host and of a channel number
  MainSlots,             \* TURN_PERMISSION_ARRAY_SIZE, CH_MAP_ARRAY_SIZE
  MaxPerms,         \* TURN_MAX_PERMISSIONS_PER_ALLOCATION
  MaxExtra,         \* bound of the model on the extra slots of a bucket
  Faults,           \* subset of {"array", "slot", "channel"}
  NoEntry, NoPeer

Peer == Host \X PortNo
Slot == Bucket \X (1..MainSlots + MaxExtra)

ASSUME TableAssumption ==
  /\ HashOf \in [Host -> Bucket]
  /\ ChHashOf \in [ChNum -> Bucket]
  /\ MainSlots \in Nat
  /\ MaxExtra \in Nat
  /\ MaxPerms \in Nat
  /\ NoEntry \notin Host \cup ChNum \cup Slot
  /\ NoPeer \notin Peer

VARIABLES
  extra,    \* extra_sz of each permission bucket
  addr,     \* the host of each permission slot, NoEntry when not allocated
  wild,     \* extra slots whose pointer was never written
  links,    \* chns: the channel slot of each permission slot and port
  cextra,   \* extra_sz of each channel bucket
  cnum,     \* chnum of each channel slot, NoEntry when not allocated
  cpeer,    \* peer_addr of each channel slot
  owner     \* the permission slot of each channel slot

permissions == <<extra, addr, wild, links>>
channels == <<cextra, cnum, cpeer, owner>>
tablevars == <<permissions, channels>>

TableInit ==
  /\ extra = [b \in Bucket |-> 0]
  /\ addr = [s \in Slot |-> NoEntry]
  /\ wild = {}
  /\ links = [s \in Slot |-> [q \in PortNo |-> NoEntry]]
  /\ cextra = [b \in Bucket |-> 0]
  /\ cnum = [c \in Slot |-> NoEntry]
  /\ cpeer = [c \in Slot |-> NoPeer]
  /\ owner = [c \in Slot |-> NoEntry]

Slots(b, x) == {b} \X (1..MainSlots + x)
First(s, S) == s \in S /\ \A t \in S : s[2] <= t[2]

-----------------------------------------------------------------------------
(* Lookups *)

(* A walk over the slots of bucket b reads no pointer that was never       *)
(* written.                                                                *)
Readable(b) == \A s \in wild : s[1] # b

(* get_from_turn_permission_hashtable *)
Matches(h) == {s \in Slots(HashOf[h], extra[HashOf[h]]) : addr[s] = h}

(* ch_map_get(map, n, 0) *)
Channels(n) == {c \in Slots(ChHashOf[n], cextra[ChHashOf[n]]) : cnum[c] = n}

(* allocation_get_ch_info_by_peer_addr *)
BoundPeer(p) == \E s \in Slot : First(s, Matches(p[1])) /\ links[s][p[2]] # NoEntry

(* allocation_count_permissions *)
Count == Cardinality({s \in Slot : addr[s] # NoEntry})

-----------------------------------------------------------------------------
(* allocation_add_permission: the first free slot of the bucket, or a new  *)
(* extra slot if the cap allows one.  Added(h, s) says that slot s now     *)
(* holds h, NotAdded(h) that the call returned NULL.                       *)
Free(b) == {s \in Slots(b, extra[b]) : addr[s] = NoEntry}
NextSlot(b) == <<b, MainSlots + extra[b] + 1>>
Full(b) == Free(b) = {} /\ wild = {} /\ extra[b] < MaxExtra   \* Count reads every slot

(* Mutant of Added: the bucket's last slot is taken although it may be in  *)
(* use.                                                                    *)
AddedLast(h, s) ==
  LET b == HashOf[h] IN
  /\ s = <<b, MainSlots + extra[b]>>
  /\ addr' = [addr EXCEPT ![s] = h]
  /\ UNCHANGED <<extra, wild>>

Added(h, s) ==
  LET b == HashOf[h] IN
  /\ \/ First(s, Free(b)) /\ UNCHANGED extra
     \/ Full(b) /\ Count < MaxPerms /\ s = NextSlot(b) /\ extra' = [extra EXCEPT ![b] = @ + 1]
  /\ addr' = [addr EXCEPT ![s] = h]
  /\ UNCHANGED wild

(* The cap is reached, realloc fails, or realloc succeeds and malloc       *)
(* fails: then extra_sz counts a pointer that was never written.           *)
NotAdded(h) ==
  LET b == HashOf[h] IN
  /\ Full(b)
  /\ \/ (Count >= MaxPerms \/ "array" \in Faults) /\ UNCHANGED <<extra, wild>>
     \/ /\ Count < MaxPerms /\ "slot" \in Faults
        /\ extra' = [extra EXCEPT ![b] = @ + 1]
        /\ wild' = wild \cup {NextSlot(b)}
  /\ UNCHANGED addr

(* update_permission: the permission of the host is found or added. *)
CreatePermission(h) ==
  /\ Readable(HashOf[h])
  /\ Matches(h) = {}
  /\ NotAdded(h) \/ \E s \in Slot : Added(h, s)
  /\ UNCHANGED <<links, channels>>

-----------------------------------------------------------------------------
(* ch_map_get(map, n, 1): the first free channel slot, or a new one. *)
FreeChannel(b) == {c \in Slots(b, cextra[b]) : cnum[c] = NoEntry}

TakeChannel(n, c) ==
  LET b == ChHashOf[n] IN
  \/ First(c, FreeChannel(b)) /\ UNCHANGED cextra
  \/ /\ FreeChannel(b) = {} /\ cextra[b] < MaxExtra
     /\ c = <<b, MainSlots + cextra[b] + 1>>
     /\ cextra' = [cextra EXCEPT ![b] = @ + 1]

(* The rest of allocation_get_new_ch_info, with the permission in slot s *)
Link(n, p, s) ==
  \/ \E c \in Slot :
       /\ TakeChannel(n, c)
       /\ cnum' = [cnum EXCEPT ![c] = n]
       /\ cpeer' = [cpeer EXCEPT ![c] = p]
       /\ owner' = [owner EXCEPT ![c] = s]
       /\ links' = [links EXCEPT ![s][p[2]] = c]
  \/ "channel" \in Faults /\ FreeChannel(ChHashOf[n]) = {} /\ UNCHANGED <<links, channels>>

(* handle_turn_channel_bind of a number and a peer that are both unbound *)
ChannelBind(n, p) ==
  /\ Readable(HashOf[p[1]])
  /\ Channels(n) = {}
  /\ ~BoundPeer(p)
  /\ \/ /\ \E s \in Slot : First(s, Matches(p[1])) /\ Link(n, p, s)
        /\ UNCHANGED <<extra, addr, wild>>
     \/ Matches(p[1]) = {} /\ NotAdded(p[1]) /\ UNCHANGED <<links, channels>>
     \/ Matches(p[1]) = {} /\ \E s \in Slot : Added(p[1], s) /\ Link(n, p, s)

-----------------------------------------------------------------------------
(* ch_info_clean of the channels in C *)
Clean(C) ==
  /\ cnum' = [c \in Slot |-> IF c \in C THEN NoEntry ELSE cnum[c]]
  /\ cpeer' = [c \in Slot |-> IF c \in C THEN NoPeer ELSE cpeer[c]]
  /\ owner' = [c \in Slot |-> IF c \in C THEN NoEntry ELSE owner[c]]


(* turn_channel_delete *)
DeleteChannel(c) ==
  /\ cnum[c] # NoEntry
  /\ links' = [links EXCEPT ![owner[c]][cpeer[c][2]] = NoEntry]
  /\ Clean({c})
  /\ UNCHANGED <<extra, addr, wild, cextra>>


(* turn_permission_clean: the channels of the permission go with it. *)
CleanPermission(s) ==
  /\ addr[s] # NoEntry /\ Readable(s[1])
  /\ Clean({links[s][q] : q \in PortNo} \ {NoEntry})
  /\ links' = [links EXCEPT ![s] = [q \in PortNo |-> NoEntry]]
  /\ addr' = [addr EXCEPT ![s] = NoEntry]
  /\ UNCHANGED <<extra, wild, cextra>>

(* clear_allocation: free_turn_permission_hashtable and ch_map_clean *)
Clear ==
  /\ extra' = [b \in Bucket |-> 0]
  /\ addr' = [s \in Slot |-> NoEntry]
  /\ wild' = {}
  /\ links' = [s \in Slot |-> [q \in PortNo |-> NoEntry]]
  /\ cextra' = [b \in Bucket |-> 0]
  /\ Clean(Slot)

TableNext ==
  \/ \E h \in Host : CreatePermission(h)
  \/ \E n \in ChNum, p \in Peer : ChannelBind(n, p)
  \/ \E s \in Slot : DeleteChannel(s) \/ CleanPermission(s)
  \/ Clear

TableSpec == TableInit /\ [][TableNext]_tablevars

-----------------------------------------------------------------------------
(* Properties *)

(* The two tables point at each other: a channel's owner is the allocated  *)
(* slot of its peer's host and points back at it by port, and a pointer of *)
(* a permission leads to a channel that names it as owner.  So no pointer  *)
(* survives its slot, whatever is cleaned and reused in between.           *)
PointersAgree ==
  /\ \A c \in Slot : cnum[c] # NoEntry =>
       /\ cpeer[c] \in Peer
       /\ owner[c] \in Slot
       /\ addr[owner[c]] = cpeer[c][1]
       /\ links[owner[c]][cpeer[c][2]] = c
  /\ \A s \in Slot, q \in PortNo : links[s][q] # NoEntry =>
       /\ cnum[links[s][q]] # NoEntry
       /\ owner[links[s][q]] = s
       /\ cpeer[links[s][q]][2] = q

(* The tables behave as a set of hosts and a map from numbers to peers:    *)
(* lookups find what was added, once, until it is removed.                 *)
Abstract ==
  INSTANCE PeerTable WITH
    perms <- {addr[s] : s \in {t \in Slot : addr[t] # NoEntry}},
    chan <- [n \in ChNum |->
               IF Channels(n) = {} THEN NoPeer ELSE cpeer[CHOOSE c \in Channels(n) : TRUE]]
ImplementsPeerTable == Abstract!Spec

=============================================================================
