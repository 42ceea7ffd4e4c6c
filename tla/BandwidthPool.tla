--------------------------- MODULE BandwidthPool ---------------------------
(***************************************************************************)
(* The bandwidth that sessions reserve from the server's capacity:         *)
(* allocate_bps (netengine.c), called by the relay threads without a lock, *)
(* one atomic load or compare-and-swap at a time, while an administrator   *)
(* may set another capacity.  Each thread is shown with one session.       *)
(***************************************************************************)
EXTENDS Integers, FiniteSets

CONSTANTS
  Thread,   \* relay threads
  Bps,      \* what sessions ask for (a positive number)
  Capacity, \* the capacities that are configured; 0: none
  MaxBpsCalls, \* bound: requests
  Word      \* 2^32, the range of band_limit_t

ASSUME BandwidthAssumption ==
  /\ Word \in Nat \ {0} /\ MaxBpsCalls \in Nat
  /\ Bps \subseteq 1 .. Word - 1
  /\ Capacity \subseteq 0 .. Word - 1

VARIABLES
  bps_capacity, bps_capacity_allocated,
  pc,    \* of each thread: "idle", or the next atomic access
  want,  \* the bps argument of the call
  cap,   \* locals of the call
  old_alloc,
  held,  \* ss->bps
  lowered, \* the capacity was changed (history)
  wrapped, \* the counter overflowed (history)
  calls    \* requests so far

bpsvars == <<bps_capacity, bps_capacity_allocated, pc, want, cap, old_alloc, held, lowered, wrapped, calls>>
locals == <<want, cap, old_alloc>>

BpsInit ==
  /\ bps_capacity \in Capacity
  /\ bps_capacity_allocated = 0
  /\ pc = [t \in Thread |-> "idle"]
  /\ want = [t \in Thread |-> 0]
  /\ cap = [t \in Thread |-> 0]
  /\ old_alloc = [t \in Thread |-> 0]
  /\ held = [t \in Thread |-> 0]
  /\ lowered = FALSE
  /\ wrapped = FALSE
  /\ calls = 0

Goto(t, l) == pc' = [pc EXCEPT ![t] = l]

(* The end of a call; the locals are gone. *)
Return(t, got) ==
  /\ Goto(t, "idle")
  /\ held' = [held EXCEPT ![t] = got]
  /\ want' = [want EXCEPT ![t] = 0]
  /\ cap' = [cap EXCEPT ![t] = 0]
  /\ old_alloc' = [old_alloc EXCEPT ![t] = 0]

-----------------------------------------------------------------------------
(* handle_turn_allocate: only a session that holds nothing asks. *)
BpsRequest(t, b) ==
  /\ pc[t] = "idle" /\ held[t] = 0
  /\ calls < MaxBpsCalls /\ calls' = calls + 1
  /\ Goto(t, "capacity")
  /\ want' = [want EXCEPT ![t] = b]
  /\ UNCHANGED <<bps_capacity, bps_capacity_allocated, cap, old_alloc, held, lowered, wrapped>>

LoadCapacity(t) ==
  /\ pc[t] = "capacity"
  /\ cap' = [cap EXCEPT ![t] = bps_capacity]
  /\ Goto(t, IF bps_capacity = 0 THEN "add" ELSE "load")
  /\ UNCHANGED <<bps_capacity, bps_capacity_allocated, want, old_alloc, held, lowered, wrapped, calls>>


(* turn_atomic_fetch_add_u32 *)
FetchAdd(t) ==
  /\ pc[t] = "add"
  /\ bps_capacity_allocated' = (bps_capacity_allocated + want[t]) % Word
  /\ Return(t, want[t])
  /\ wrapped' = (wrapped \/ bps_capacity_allocated + want[t] >= Word)
  /\ UNCHANGED <<bps_capacity, lowered, calls>>

(* The load before the loop, and after a compare-and-swap that failed;     *)
(* with nothing left the call returns 0 (486).                             *)
Load(t) ==
  /\ pc[t] = "load"
  /\ \/ /\ bps_capacity_allocated < cap[t]
        /\ old_alloc' = [old_alloc EXCEPT ![t] = bps_capacity_allocated]
        /\ Goto(t, "cas")
        /\ UNCHANGED <<want, cap, held>>
     \/ bps_capacity_allocated >= cap[t] /\ Return(t, 0)
  /\ UNCHANGED <<bps_capacity, bps_capacity_allocated, lowered, wrapped, calls>>

ToAlloc(t) == IF cap[t] - old_alloc[t] <= want[t] THEN cap[t] - old_alloc[t] ELSE want[t]

(* Mutant of Cas: the reserve is not looked at. *)
CasWhole(t) ==
  /\ pc[t] = "cas"
  /\ \/ /\ bps_capacity_allocated = old_alloc[t]
        /\ bps_capacity_allocated' = old_alloc[t] + want[t]
        /\ Return(t, want[t])
     \/ /\ bps_capacity_allocated # old_alloc[t]
        /\ Goto(t, "load")
        /\ UNCHANGED <<bps_capacity_allocated, locals, held>>
  /\ UNCHANGED <<bps_capacity, lowered, wrapped, calls>>


(* turn_atomic_cas_u32 *)
Cas(t) ==
  /\ pc[t] = "cas"
  /\ \/ /\ bps_capacity_allocated = old_alloc[t]
        /\ bps_capacity_allocated' = old_alloc[t] + ToAlloc(t)
        /\ Return(t, ToAlloc(t))
     \/ /\ bps_capacity_allocated # old_alloc[t]
        /\ Goto(t, "load")
        /\ UNCHANGED <<bps_capacity_allocated, locals, held>>
  /\ UNCHANGED <<bps_capacity, lowered, wrapped, calls>>

(* dec_bps *)
Release(t) ==
  /\ pc[t] = "idle" /\ held[t] # 0
  /\ Goto(t, "rload")
  /\ want' = [want EXCEPT ![t] = held[t]]
  /\ UNCHANGED <<bps_capacity, bps_capacity_allocated, cap, old_alloc, held, lowered, wrapped, calls>>

LoadToRelease(t) ==
  /\ pc[t] = "rload"
  /\ \/ /\ bps_capacity_allocated > 0
        /\ old_alloc' = [old_alloc EXCEPT ![t] = bps_capacity_allocated]
        /\ Goto(t, "rcas")
        /\ UNCHANGED <<want, cap, held>>
     \/ bps_capacity_allocated = 0 /\ Return(t, 0)
  /\ UNCHANGED <<bps_capacity, bps_capacity_allocated, lowered, wrapped, calls>>


CasToRelease(t) ==
  /\ pc[t] = "rcas"
  /\ \/ /\ bps_capacity_allocated = old_alloc[t]
        /\ bps_capacity_allocated' = IF old_alloc[t] >= want[t] THEN old_alloc[t] - want[t] ELSE 0
        /\ Return(t, 0)
     \/ /\ bps_capacity_allocated # old_alloc[t]
        /\ Goto(t, "rload")
        /\ UNCHANGED <<bps_capacity_allocated, locals, held>>
  /\ UNCHANGED <<bps_capacity, lowered, wrapped, calls>>

(* set_bps_capacity, from the admin interfaces *)
SetCapacity(v) ==
  /\ v # bps_capacity
  /\ bps_capacity' = v
  /\ lowered' = TRUE
  /\ UNCHANGED <<bps_capacity_allocated, pc, locals, held, wrapped, calls>>

Step(t) ==
  \/ LoadCapacity(t) \/ FetchAdd(t) \/ Load(t) \/ Cas(t)
  \/ LoadToRelease(t) \/ CasToRelease(t)

BpsNext ==
  \/ \E t \in Thread : Step(t) \/ Release(t) \/ \E b \in Bps : BpsRequest(t, b)
  \/ \E v \in Capacity : SetCapacity(v)

BpsSpec == BpsInit /\ [][BpsNext]_bpsvars

-----------------------------------------------------------------------------
(* Properties *)

(* The bytes per second that the sessions hold, one by one. *)
Units(h) == UNION {{t} \X (1 .. h[t]) : t \in Thread}
Held == Cardinality(Units(held))

(* What the counter says is what the sessions hold, at every moment until  *)
(* it overflows: no update of a thread is lost, and the release that stops *)
(* at zero never has to.  So, as README.turnserver has it ("Total          *)
(* bytes-per-second bandwidth the TURN server is allowed to allocate for   *)
(* the sessions, combined"), the sessions hold no more than the capacity,  *)
(* as long as nobody changes it.                                           *)
WithinCapacity ==
  /\ ~wrapped => bps_capacity_allocated = Held
  /\ ~lowered /\ bps_capacity # 0 => Held <= bps_capacity

=============================================================================
