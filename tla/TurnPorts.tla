----------------------------- MODULE TurnPorts -----------------------------
(***************************************************************************)
(* The port pool of one relay address (struct turnports of turn_ports.c):  *)
(* a ring of ports between the counters low and high, and for each port    *)
(* its position in the ring or a mark that says it is taken.               *)
(*                                                                         *)
(* Every operation runs under the pool's mutex, so it is one action.       *)
(* turnports_allocate_even keeps the mutex over a loop; the loop is one    *)
(* action per iteration, and nothing else happens while left # 0.          *)
(*                                                                         *)
(* The counters are unsigned integers of the code's width: they wrap at    *)
(* CounterSize (2^32 in the code) and a ring index is a counter modulo     *)
(* RingSize (2^16, PORTS_SIZE).                                            *)
(***************************************************************************)
EXTENDS Integers, FiniteSets

CONSTANTS
  RingSize,     \* PORTS_SIZE
  CounterSize,  \* 2^32
  Start, Stop,  \* range_start and range_stop
  MaxHigh       \* bound of the model: no release, and no even request, beyond it

Port == 0..RingSize - 1
Range == Start..Stop
Counter == 0..CounterSize - 1

ASSUME PortsAssumption ==
  /\ RingSize \in Nat \ {0}
  /\ CounterSize \in Nat
  /\ CounterSize > RingSize + 4
  /\ CounterSize % RingSize = 0
  /\ Start \in Port
  /\ Stop \in Port
  /\ Start <= Stop
  /\ MaxHigh \in Nat

VARIABLES
  status,  \* the position of a free port, or a mark
  ports,   \* the ring
  low,     \* the position the next port is taken from
  high,    \* the position the next released port goes to
  left,    \* iterations left of a turnports_allocate_even that is running
  held     \* how many callers hold each port

vars == <<status, ports, low, high, left, held>>

(* The marks are the largest values of the counter type. *)
TPS_OUT_OF_RANGE == CounterSize - 1
TPS_TAKEN_SINGLE == CounterSize - 2
TPS_TAKEN_EVEN == CounterSize - 3
TPS_TAKEN_ODD == CounterSize - 4

IsTaken(s) == s \in {TPS_TAKEN_SINGLE, TPS_TAKEN_EVEN, TPS_TAKEN_ODD}

Wrap(n) == n % CounterSize
Index(c) == c % RingSize

(* turnports_init and turnports_randomize: the ring holds the ports of the *)
(* range in some order.                                                    *)
Init ==
  /\ low = Start
  /\ high = Stop + 1
  /\ \E order \in {f \in [Range -> Range] : \A p \in Range : \E i \in Range : f[i] = p} :
       /\ ports = [i \in Port |-> IF i \in Range THEN order[i] ELSE i]
       /\ status = [p \in Port |->
                      IF p \in Range THEN CHOOSE i \in Range : order[i] = p
                      ELSE TPS_OUT_OF_RANGE]
  /\ left = 0
  /\ held = [p \in Range |-> 0]

-----------------------------------------------------------------------------
(* turnports_allocate skips the entries that are no longer the position of *)
(* their port, and stops at an entry outside the range.                    *)
Entry(c) == ports[Index(c)]
Skipped(c) == Entry(c) \in Range /\ (IsTaken(status[Entry(c)]) \/ status[Entry(c)] # c)

Window == low..high - 1
Reached(c) == c \in Window /\ \A b \in low..c - 1 : Skipped(b)

(* the position it takes the port from, the one where it gives up, and     *)
(* giving up at the end of the window                                      *)
Found(c) == Reached(c) /\ ~Skipped(c) /\ Entry(c) \in Range
Exhausted(c) ==
  \/ Reached(c) /\ Entry(c) \notin Range
  \/ c = high /\ low < high /\ \A b \in Window : Skipped(b)
  \/ c = low /\ high <= low

Allocate ==
  /\ left = 0
  /\ \E c \in Counter :
       \/ /\ Found(c)
          /\ status' = [status EXCEPT ![Entry(c)] = TPS_TAKEN_SINGLE]
          /\ low' = c + 1
          /\ held' = [held EXCEPT ![Entry(c)] = @ + 1]
       \/ /\ Exhausted(c)
          /\ low' = c
          /\ UNCHANGED <<status, held>>
  /\ UNCHANGED <<ports, high, left>>

(* Mutant of Release: high stays where it is. *)
ReleaseInPlace(p) ==
  /\ left = 0 /\ high < MaxHigh
  /\ held[p] > 0
  /\ held' = [held EXCEPT ![p] = @ - 1]
  /\ status' = [status EXCEPT ![p] = high]
  /\ ports' = [ports EXCEPT ![Index(high)] = p]
  /\ UNCHANGED <<low, high, left>>

(* turnports_release of a port by the socket that holds it *)
Release(p) ==
  /\ left = 0 /\ high < MaxHigh
  /\ held[p] > 0
  /\ held' = [held EXCEPT ![p] = @ - 1]
  /\ IF IsTaken(status[p])
       THEN /\ status' = [status EXCEPT ![p] = high]
            /\ ports' = [ports EXCEPT ![Index(high)] = p]
            /\ high' = Wrap(high + 1)
       ELSE UNCHANGED <<status, ports, high>>
  /\ UNCHANGED <<low, left>>

-----------------------------------------------------------------------------
(* turnports_allocate_even: size is cut to 16 bits. *)
Size == Index(Wrap(high - low))

AllocateEven ==
  /\ left = 0 /\ high < MaxHigh
  /\ Size > 1
  /\ left' = Size
  /\ UNCHANGED <<status, ports, low, high, held>>

(* turnports_is_available *)
IsAvailable(p) ==
  /\ status[p] # TPS_OUT_OF_RANGE
  /\ ~IsTaken(status[p])
  /\ ports[Index(status[p])] = p

(* Mutant of EvenTake: the odd port of the pair is not marked. *)
EvenTakeOne ==
  /\ left # 0
  /\ \E c \in Counter :
       /\ Found(c)
       /\ Entry(c) % 2 = 0 /\ Entry(c) + 1 <= Stop /\ IsAvailable(Entry(c) + 1)
       /\ status' = [status EXCEPT ![Entry(c)] = TPS_TAKEN_EVEN]
       /\ low' = c + 1
       /\ held' = [held EXCEPT ![Entry(c)] = @ + 1, ![Entry(c) + 1] = @ + 1]
  /\ left' = 0
  /\ UNCHANGED <<ports, high>>

(* An iteration that gets a usable even port ends the call. *)
EvenTake ==
  /\ left # 0
  /\ \E c \in Counter :
       /\ Found(c)
       /\ Entry(c) % 2 = 0 /\ Entry(c) + 1 <= Stop /\ IsAvailable(Entry(c) + 1)
       /\ status' = [status EXCEPT ![Entry(c)] = TPS_TAKEN_EVEN,
                                   ![Entry(c) + 1] = TPS_TAKEN_ODD]
       /\ low' = c + 1
       /\ held' = [held EXCEPT ![Entry(c)] = @ + 1, ![Entry(c) + 1] = @ + 1]
  /\ left' = 0
  /\ UNCHANGED <<ports, high>>

(* Any other port goes back to the end of the ring. *)
EvenSkip ==
  /\ left # 0
  /\ \E c \in Counter :
       /\ Found(c)
       /\ ~(Entry(c) % 2 = 0 /\ Entry(c) + 1 <= Stop /\ IsAvailable(Entry(c) + 1))
       /\ status' = [status EXCEPT ![Entry(c)] = high]
       /\ ports' = [ports EXCEPT ![Index(high)] = Entry(c)]
       /\ low' = c + 1
  /\ high' = Wrap(high + 1)
  /\ left' = left - 1
  /\ UNCHANGED held

(* The result -1 of turnports_allocate is odd, and released like any odd   *)
(* port: (uint16_t)(-1) is the last port.                                  *)
LastPort == RingSize - 1

EvenNone ==
  /\ left # 0
  /\ \E c \in Counter : Exhausted(c) /\ low' = c
  /\ IF LastPort \in Range /\ IsTaken(status[LastPort])
       THEN /\ status' = [status EXCEPT ![LastPort] = high]
            /\ ports' = [ports EXCEPT ![Index(high)] = LastPort]
            /\ high' = Wrap(high + 1)
       ELSE UNCHANGED <<status, ports, high>>
  /\ left' = left - 1
  /\ UNCHANGED held

Next ==
  \/ Allocate
  \/ AllocateEven
  \/ EvenTake
  \/ EvenSkip
  \/ EvenNone
  \/ \E p \in Range : Release(p)

Spec == Init /\ [][Next]_vars

-----------------------------------------------------------------------------
(* Properties *)

(* Every variable stays in its type. *)
TypeOK ==
  /\ status \in [Port -> Counter]
  /\ ports \in [Port -> Port]
  /\ low \in Counter
  /\ high \in Counter
  /\ left \in Port
  /\ held \in [Range -> Nat]

(* A port that a socket holds is marked taken, so neither allocate nor     *)
(* is_available offers it to another one.                                  *)
HeldIsTaken == \A p \in Range : held[p] > 0 => IsTaken(status[p])

(* turnports_allocate and turnports_allocate_even hand out ports that      *)
(* nobody holds, and release gives back what was handed out.               *)
Pool == INSTANCE PortPool
ImplementsPool == Pool!Spec

(* A port nobody holds can be found: its position lies between low and     *)
(* high and the ring still names it there.  "No port left" is therefore    *)
(* answered only when every port of the range is held.                     *)
FreePortReachable ==
  \A p \in Range : held[p] = 0 =>
    status[p] \in low..high - 1 /\ ports[Index(status[p])] = p

=============================================================================
