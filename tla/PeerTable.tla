----------------------------- MODULE PeerTable -----------------------------
(***************************************************************************)
(* What the permissions and channels of one allocation promise: a set of   *)
(* permitted hosts and a partial, injective map from channel numbers to    *)
(* peers whose hosts are permitted.  PermissionTable implements it with    *)
(* hashed slots and pointers.                                              *)
(***************************************************************************)
CONSTANTS Host, PortNo, ChNum, NoPeer

VARIABLES
  perms,   \* the hosts with a permission
  chan     \* the peer of each channel number

vars == <<perms, chan>>

Peer == Host \X PortNo

Init == perms = {} /\ chan = [n \in ChNum |-> NoPeer]

Grant(h) == perms' = perms \cup {h} /\ UNCHANGED chan

(* A permission goes with the channels of its host. *)
Revoke(h) ==
  /\ perms' = perms \ {h}
  /\ chan' = [n \in ChNum |-> IF chan[n] \in {h} \X PortNo THEN NoPeer ELSE chan[n]]

Bind(n, p) ==
  /\ chan[n] = NoPeer
  /\ \A m \in ChNum : chan[m] # p
  /\ perms' = perms \cup {p[1]}
  /\ chan' = [chan EXCEPT ![n] = p]

Unbind(n) == chan' = [chan EXCEPT ![n] = NoPeer] /\ UNCHANGED perms

Clear == perms' = {} /\ chan' = [n \in ChNum |-> NoPeer]

Next ==
  \/ \E h \in Host : Grant(h) \/ Revoke(h)
  \/ \E n \in ChNum : Unbind(n) \/ \E p \in Peer : Bind(n, p)
  \/ Clear

Spec == Init /\ [][Next]_vars

=============================================================================
