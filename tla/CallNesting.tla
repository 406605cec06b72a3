---------------------------- MODULE CallNesting ----------------------------
(***************************************************************************)
(* What the consumer makes of the events it handles, said without a heap:  *)
(* calls nest, a return closes the innermost open call, the tree of a call *)
(* that no other encloses is handed on when it closes, and a frame mark    *)
(* forgets the calls that are still open.                                  *)
(*                                                                         *)
(* CallTree, the stack and the tree of stack.c, is checked to implement it. *)
(***************************************************************************)
EXTENDS Naturals, Sequences, SequencesExt

CONSTANTS
  Fun,        (* the functions Lua calls                                   *)
  FrameId     (* the identifiers the host gives its frames                 *)

VARIABLES
  open,       (* the open calls, outermost first, each with the trees of   *)
              (* the calls it has finished: [fn, sub]                      *)
  since,      (* the trees since the last frame mark took time as measured *)
  given       (* what the last step handed to the output                   *)

nestingVars == <<open, since, given>>

Nothing == [kind |-> "none"]
TreeOut(t) == [kind |-> "tree", tree |-> t]
FrameOut(id) == [kind |-> "frame", id |-> id, lua |-> since]

NestingInit == open = <<>> /\ since = FALSE /\ given = Nothing

Enter(f) ==
  /\ open' = Append(open, [fn |-> f, sub |-> <<>>])
  /\ given' = Nothing
  /\ UNCHANGED since

(* The innermost call becomes a finished part of the one around it.        *)
LeaveInner ==
  /\ Len(open) > 1
  /\ open' = [Front(open) EXCEPT ![Len(open) - 1].sub = Append(@, Last(open))]
  /\ given' = Nothing
  /\ UNCHANGED since

(* Time is what the clock says: a tree may seem to have taken none, and a  *)
(* clock set back may take away what trees before it took.                 *)
LeaveOuter(took) ==
  /\ Len(open) = 1
  /\ given' = TreeOut(Head(open))
  /\ open' = <<>>
  /\ since' = took

(* A return of a call whose beginning was not seen, or was forgotten.      *)
LeaveUnmatched ==
  /\ open = <<>>
  /\ given' = Nothing
  /\ UNCHANGED <<open, since>>

(* The mark tells whether the trees since the one before it took time.     *)
Mark(id) ==
  /\ open' = <<>>
  /\ since' = FALSE
  /\ given' = FrameOut(id)

(* A new session begins: open calls are forgotten, the time is kept.       *)
Forget ==
  /\ open' = <<>>
  /\ given' = Nothing
  /\ UNCHANGED since

NestingNext ==
  \/ \E f \in Fun : Enter(f)
  \/ LeaveInner
  \/ \E took \in BOOLEAN : LeaveOuter(took)
  \/ LeaveUnmatched
  \/ \E id \in FrameId : Mark(id)
  \/ Forget

NestingSpec == NestingInit /\ [][NestingNext]_nestingVars
=============================================================================
