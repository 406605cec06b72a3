------------------------------ MODULE EventLog ------------------------------
(***************************************************************************)
(* What a log service that gathers messages in memory promises to whoever  *)
(* reads its file: at every moment, also if the program ends there, the    *)
(* file tells a beginning of what was logged; and it tells everything as   *)
(* soon as an urgent message has been logged that does not just repeat the *)
(* one before it.  A service may give this promise up, for good.           *)
(***************************************************************************)
EXTENDS Naturals, Sequences, SequencesExt

CONSTANT Message

VARIABLES
  logged,       (* the messages logged, each [content, urgent, ...]         *)
  told,         (* how many of them the file tells                          *)
  waived        (* the promise is given up                                  *)

Init == logged = <<>> /\ told = 0 /\ waived \in BOOLEAN

Repeats(m) == logged # <<>> /\ Last(logged).content = m.content

(* A message is logged; the file may catch up, and has to if it is urgent. *)
Accept(m) ==
  /\ logged' = Append(logged, m)
  /\ told' \in told .. Len(logged')
  /\ m.urgent /\ ~Repeats(m) => told' = Len(logged')
  /\ UNCHANGED waived

(* The file catches up. *)
CatchUp ==
  /\ told' \in told .. Len(logged)
  /\ UNCHANGED <<logged, waived>>

Waive == waived' = TRUE

Next == (~waived /\ (CatchUp \/ \E m \in Message : Accept(m))) \/ Waive

Spec == Init /\ [][Next]_<<logged, told, waived>>
=============================================================================
