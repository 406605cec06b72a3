----------------------------- MODULE MCNetLink ------------------------------
(* NetLink for TLC. *)
EXTENDS NetLink

(* Once both histories are set every property of NetLink holds for ever:   *)
(* what comes after such a state is not explored.                          *)
NotBothSet == ~(overlapped /\ outOfTurn)
=============================================================================
