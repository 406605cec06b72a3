----------------------------- MODULE FifoQueue -----------------------------
(***************************************************************************)
(* What the profiler expects of the queue between the Lua thread, which    *)
(* runs the hook, and the consumer thread, which runs thread_run: one      *)
(* producer hands over debug-info events, one consumer receives them, in   *)
(* order, each exactly once, and at most Capacity are in transit.          *)
(*                                                                         *)
(* NolockQueue, the ring of queue.c, is checked to implement it.           *)
(***************************************************************************)
EXTENDS Naturals, Sequences

CONSTANTS
  Event,      (* the debug-info records the hook can produce               *)
  NoEvent,    (* the NULL pointer: nothing offered, nothing received       *)
  Capacity    (* how many events the queue holds                           *)

VARIABLES
  offered,    (* the event the producer is handing over, or NoEvent        *)
  buf,        (* the events in transit, oldest first                       *)
  held        (* the event the consumer has received and is handling       *)

fifoVars == <<offered, buf, held>>

FifoInit ==
  /\ offered = NoEvent
  /\ buf = <<>>
  /\ held = NoEvent

(* The producer has an event to hand over; it hands over one at a time.    *)
Offer(e) ==
  /\ offered = NoEvent
  /\ offered' = e
  /\ UNCHANGED <<buf, held>>

(* The offered event enters the queue, if there is room: a full queue makes *)
(* the producer wait, it never drops an event and never overwrites one, as *)
(* queue.c:149-161 does it.  (queue.h:102 promises a return with           *)
(* QUEUE_NO_ROOM instead, which dispatch_dbg_info does not test for.)      *)
Enqueue ==
  /\ offered # NoEvent
  /\ Len(buf) < Capacity
  /\ buf' = Append(buf, offered)
  /\ offered' = NoEvent
  /\ UNCHANGED held

Dequeue ==
  /\ held = NoEvent
  /\ buf # <<>>
  /\ held' = Head(buf)
  /\ buf' = Tail(buf)
  /\ UNCHANGED offered

(* The consumer is done with the event it received. *)
Release ==
  /\ held # NoEvent
  /\ held' = NoEvent
  /\ UNCHANGED <<offered, buf>>

FifoNext ==
  \/ \E e \in Event : Offer(e)
  \/ Enqueue
  \/ Dequeue
  \/ Release

FifoSpec == FifoInit /\ [][FifoNext]_fifoVars
=============================================================================
