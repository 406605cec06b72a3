------------------------------ MODULE FrameLog ------------------------------
(***************************************************************************)
(* What the profiler's file promises, said without a cache, a buffer or a  *)
(* record of what was written before: trees belong to the frame announced  *)
(* last; when the next frame is announced, a frame with trees is written,  *)
(* header first; a frame without trees only ends a run of frames with      *)
(* trees; the frame that is open when the session ends is not written.     *)
(*                                                                         *)
(* OutputCache, the cache and the buffer of output.c, is checked to        *)
(* implement it.                                                           *)
(***************************************************************************)
EXTENDS Naturals, Sequences, SequencesExt

CONSTANTS
  Tree,       (* the trees the profiler produces                           *)
  FrameId     (* the identifiers the host gives its frames                 *)

VARIABLES
  running,    (* a session is running                                      *)
  current,    (* <<>>, or the one frame announced last: <<[id, trees]>>     *)
  log         (* what was written in this session or the one that ended    *)

frameLogVars == <<running, current, log>>

Header(id) == [id |-> id, trees |-> <<>>]

FrameLogInit == ~running /\ current = <<>> /\ log = <<>>

Begin ==
  /\ ~running
  /\ running' = TRUE
  /\ log' = <<>>
  /\ UNCHANGED current

(* What the log gets for a frame that is over. *)
Written(f) ==
  IF f.trees # <<>> THEN <<Header(f.id), f>>
  ELSE IF log # <<>> /\ Last(log).trees # <<>> /\ Last(log).id # f.id THEN <<f>>
  ELSE <<>>

Announce(id) ==
  /\ running
  /\ log' = log \o (IF current = <<>> THEN <<>> ELSE Written(current[1]))
  /\ current' = <<Header(id)>>
  /\ UNCHANGED running

(* A tree that no frame was announced for is dropped. *)
Attach(t) ==
  /\ running
  /\ current' = [i \in DOMAIN current |-> [current[i] EXCEPT !.trees = Append(@, t)]]
  /\ UNCHANGED <<running, log>>

End ==
  /\ running
  /\ running' = FALSE
  /\ current' = <<>>
  /\ UNCHANGED log

FrameLogNext ==
  \/ Begin
  \/ \E id \in FrameId : Announce(id)
  \/ \E t \in Tree : Attach(t)
  \/ End

FrameLogSpec == FrameLogInit /\ [][FrameLogNext]_frameLogVars
=============================================================================
