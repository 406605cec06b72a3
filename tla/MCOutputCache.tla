--------------------------- MODULE MCOutputCache ---------------------------
(***************************************************************************)
(* OutputCache for TLC: a tree is its own length, 1 or 6 characters, which *)
(* with a header of 3 and a buffer of 13 makes strings that fit, strings   *)
(* that fill the buffer to the last byte, and strings longer than it.      *)
(***************************************************************************)
EXTENDS LuaPerf

MCTreeLen == [t \in Tree |-> t]
=============================================================================
