------------------------------ MODULE PortPool ------------------------------
(***************************************************************************)
(* What the relay port pool of one relay address promises its callers:     *)
(* a port that is handed out is handed out to nobody else until it is      *)
(* given back.  turn_ports.c implements it with a ring (TurnPorts).        *)
(***************************************************************************)
EXTENDS Integers

CONSTANT Range    \* the ports between --min-port and --max-port

VARIABLE held     \* how many sockets hold each port

Init == held = [p \in Range |-> 0]

(* turnipports_allocate *)
Take(p) == p \in Range /\ held[p] = 0 /\ held' = [held EXCEPT ![p] = 1]

(* turnipports_allocate_even *)
TakePair(p) ==
  /\ p % 2 = 0
  /\ p \in Range /\ p + 1 \in Range
  /\ held[p] = 0 /\ held[p + 1] = 0
  /\ held' = [held EXCEPT ![p] = 1, ![p + 1] = 1]

(* turnipports_release *)
Give(p) == p \in Range /\ held[p] = 1 /\ held' = [held EXCEPT ![p] = 0]

Next == \E p \in Range : Take(p) \/ TakePair(p) \/ Give(p)

Spec == Init /\ [][Next]_held

=============================================================================
