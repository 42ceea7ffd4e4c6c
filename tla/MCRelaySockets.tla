--------------------------- MODULE MCRelaySockets ---------------------------
(* Relay sockets with a few requests, ports and tokens. *)
EXTENDS RelaySockets

MCPort == 4..8
PlainOrReserve == {-1, 1}
AnyEvenPort == {-1, 0, 1}
MCToken == 1..2

=============================================================================
