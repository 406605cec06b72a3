---------------------------- MODULE MCLogService ----------------------------
(***************************************************************************)
(* LogService for TLC: a message that also comes as an error, one that     *)
(* just fills the buffer with it, and one that is larger than the buffer.  *)
(***************************************************************************)
EXTENDS LogService

CONSTANTS main, pool, x, y, bye

MCThread == {main, pool}
MCFarewell == [content |-> bye, urgent |-> FALSE, size |-> 1]
MCMessage ==
  {MCFarewell,
   [content |-> x, urgent |-> FALSE, size |-> 3], [content |-> x, urgent |-> TRUE, size |-> 3],
   [content |-> y, urgent |-> FALSE, size |-> 5]}
=============================================================================
