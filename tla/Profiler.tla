------------------------------ MODULE Profiler ------------------------------
(***************************************************************************)
(* The profiler in its two-thread mode: the Lua thread runs the program    *)
(* and the hook, the consumer thread runs thread_run.  The parts are taken *)
(* as what they promise: the ring as FifoQueue, the stack and tree as      *)
(* CallNesting, the cache and buffer as FrameLog; NolockQueue, CallTree    *)
(* and OutputCache implement these.                                        *)
(*                                                                         *)
(* The program is the Lua VM, which tells the hook of calls and returns    *)
(* but neither of the calls an error unwinds nor, in Lua 5.3, of the       *)
(* return that a tail call implies.  In Lua 5.1 a tail call is, for the    *)
(* hook, a call that returns together with its caller.                     *)
(*                                                                         *)
(* truth is what the program really did: for each frame, the trees of the  *)
(* outermost calls that began and ended in it.                             *)
(***************************************************************************)
EXTENDS Integers, Sequences, SequencesExt

CONSTANTS
  Fun,        (* the functions of the program                              *)
  Capacity,   (* of the queue                                              *)
  MaxDepth,   (* bound: open Lua calls                                     *)
  MaxFrame,   (* bound: the last frame the host announces                  *)
  MaxEvents   (* bound: calls, returns and errors in a frame               *)

ASSUME PipelineAssumption == {Capacity, MaxDepth, MaxFrame, MaxEvents} \subseteq Nat

VARIABLES
  lua,        (* the open calls of the Lua VM, outermost first: [fn, sub]   *)
  base,       (* how many of them were open when this frame began          *)
  frame,      (* the frame the host announced last, 0 before the first     *)
  truth,      (* for each frame the trees of the calls made in it          *)
  clean,      (* the frames without an unwound call or a tail call         *)
  events,     (* counts for MaxEvents                                      *)
  offered, buf, held,         (* the queue                                 *)
  open, since, given,         (* the consumer's image of the calls         *)
  running, current, log       (* the output                                *)

programVars == <<lua, base, frame, truth, clean, events>>
queueVars == <<offered, buf, held>>
nestingVars == <<open, since, given>>
outputVars == <<running, current, log>>
vars == <<programVars, queueVars, nestingVars, outputVars>>

profiler_start == "profiler_start"
Frames == 0 .. MaxFrame

(* the records the hook and the host make: type, event, frameid *)
In(f) == [type |-> "call", fn |-> f]
Out == [type |-> "return"]
TailCallEvent == [type |-> "tailcall"]
FrameEvent(id) == [type |-> "frame", id |-> id]
NoEvent == [type |-> "none"]
Event == {In(f) : f \in Fun \cup {profiler_start}} \cup {Out, TailCallEvent}
           \cup {FrameEvent(id) : id \in Frames}

Queue == INSTANCE FifoQueue
Nesting == INSTANCE CallNesting WITH FrameId <- Frames
Output == INSTANCE FrameLog WITH FrameId <- Frames, Tree <- {}

Call(f) == [fn |-> f, sub |-> <<>>]

(* The innermost of several calls becomes a part of the one around it.     *)
Returned(calls) == [Front(calls) EXCEPT ![Len(calls) - 1].sub = Append(@, Last(calls))]

(* profiler_start sets the hook inside a chunk the host runs, starts the   *)
(* thread and dispatches a call of itself: the hook missed that one.       *)
Init ==
  /\ \E f \in Fun : lua = <<Call(f), Call(profiler_start)>>
  /\ base = 1
  /\ frame = 0
  /\ truth = [i \in Frames |-> <<>>]
  /\ clean = Frames
  /\ events = 0
  /\ offered = In(profiler_start) /\ buf = <<>> /\ held = NoEvent
  /\ Nesting!NestingInit
  /\ running = TRUE /\ current = <<>> /\ log = <<>>
-----------------------------------------------------------------------------
(* callhook and dispatch_dbg_info: the thread that called the hook is in   *)
(* the push until there is room, see Queue!Enqueue.                        *)
Hook(e) ==
  /\ events < MaxEvents
  /\ events' = events + 1
  /\ Queue!Offer(e)

(* profiler_start is innermost: what is left of it is to return.            *)
Starting == lua # <<>> /\ Last(lua).fn = profiler_start

LuaCall(f) ==
  /\ ~Starting
  /\ Len(lua) < MaxDepth
  /\ Hook(In(f))
  /\ lua' = Append(lua, Call(f))
  /\ UNCHANGED <<base, frame, truth, clean, nestingVars, outputVars>>

(* The call that ends is part of the call around it, or of the frame if    *)
(* that one was open before the frame began, or of nothing if it was open  *)
(* itself.                                                                 *)
LuaReturn ==
  /\ lua # <<>>
  /\ Hook(Out)
  /\ lua' = IF Len(lua) > base + 1 THEN Returned(lua) ELSE Front(lua)
  /\ truth' = IF Len(lua) = base + 1
              THEN [truth EXCEPT ![frame] = Append(@, Last(lua))]
              ELSE truth
  /\ base' = IF Len(lua) <= base THEN Len(lua) - 1 ELSE base
  /\ UNCHANGED <<frame, clean, nestingVars, outputVars>>

(* An error is caught: the calls above the n outermost ones are gone, and  *)
(* the hook was not called.                                                *)
LuaError(n) ==
  /\ ~Starting
  /\ offered = NoEvent
  /\ n < Len(lua)
  /\ events < MaxEvents
  /\ events' = events + 1
  /\ lua' = SubSeq(lua, 1, n)
  /\ base' = IF n < base THEN n ELSE base
  /\ clean' = clean \ {frame}
  /\ UNCHANGED <<frame, truth, queueVars, nestingVars, outputVars>>

(* Lua 5.3: f takes the place of the innermost call, one of a Lua function *)
LuaTailCall(f) ==
  /\ ~Starting
  /\ lua # <<>>
  /\ Hook(TailCallEvent)
  /\ lua' = Append(Front(lua), Call(f))
  /\ clean' = clean \ {frame}
  /\ UNCHANGED <<base, frame, truth, nestingVars, outputVars>>

(* frame_profiler, called by the host (Lua's profiler_frame raises an error *)
(* in a session, see Session)                                              *)
HostFrame ==
  /\ ~Starting
  /\ frame < MaxFrame
  /\ Queue!Offer(FrameEvent(frame + 1))
  /\ frame' = frame + 1
  /\ base' = Len(lua)
  /\ events' = 0
  /\ UNCHANGED <<lua, truth, clean, nestingVars, outputVars>>

(* queue_push_without_alloc and queue_pop_without_dealloc *)
Push == Queue!Enqueue /\ UNCHANGED <<programVars, nestingVars, outputVars>>
Pop == Queue!Dequeue /\ UNCHANGED <<programVars, nestingVars, outputVars>>
-----------------------------------------------------------------------------
(* handle_dbg_info, with what the call tree passes to the output *)
HandleIn ==
  /\ held.type = "call"
  /\ Nesting!Enter(held.fn)
  /\ UNCHANGED outputVars

HandleOutUnmatchedPops ==       \* mutant: an unmatched return ends the current frame
  /\ Nesting!LeaveUnmatched
  /\ current' = <<>>
  /\ UNCHANGED <<running, log>>

HandleOutOuterDrops ==          \* mutant: the tree is not passed to lprofP_addData
  /\ \E took \in BOOLEAN : Nesting!LeaveOuter(took)
  /\ UNCHANGED outputVars

HandleOutUnmatched == Nesting!LeaveUnmatched /\ UNCHANGED outputVars
HandleOutInner == Nesting!LeaveInner /\ UNCHANGED outputVars
HandleOutOuter ==
  /\ \E took \in BOOLEAN : Nesting!LeaveOuter(took)
  /\ Output!Attach(given'.tree)

(* whatever is not a call is taken for a return *)
HandleOut ==
  /\ held.type \in {"return", "tailcall"}
  /\ HandleOutUnmatched \/ HandleOutInner \/ HandleOutOuter

HandleFrameKeepsOpen ==         \* mutant: a frame does not drop the open calls
  /\ held.type = "frame"
  /\ Output!Announce(held.id)
  /\ since' = FALSE /\ given' = Nesting!FrameOut(held.id)
  /\ UNCHANGED open

HandleFrame ==
  /\ held.type = "frame"
  /\ Nesting!Mark(held.id)
  /\ Output!Announce(held.id)

Handle ==
  /\ Queue!Release
  /\ HandleIn \/ HandleOut \/ HandleFrame
  /\ UNCHANGED programVars

Consumer == Pop \/ Handle

Next ==
  \/ \E f \in Fun : LuaCall(f) \/ LuaTailCall(f)
  \/ LuaReturn
  \/ \E n \in 0 .. MaxDepth - 1 : LuaError(n)
  \/ HostFrame
  \/ Push
  \/ Consumer

Spec == Init /\ [][Next]_vars

(* Both threads are scheduled; nothing makes the program or the host act.  *)
FairSpec == Spec /\ WF_vars(Push) /\ WF_vars(Consumer)
-----------------------------------------------------------------------------
FnsOf(calls) == [i \in DOMAIN calls |-> calls[i].fn]

(* What the consumer has not handled yet, oldest first. *)
Present(e) == IF e = NoEvent THEN <<>> ELSE <<e>>
Pending == Present(held) \o buf \o Present(offered)

(* What an event will do to the calls on the consumer's stack. *)
Effect(calls, e) ==
  IF e.type = "call" THEN Append(calls, Call(e.fn))
  ELSE IF e.type = "frame" \/ Len(calls) <= 1 THEN <<>>
  ELSE Returned(calls)

(* The stack once the events are handled. *)
Image(calls, es) ==
  LET image[k \in 0 .. Len(es)] == IF k = 0 THEN calls ELSE Effect(image[k - 1], es[k])
  IN  image[Len(es)]

(* Both stacks hold functions, what travels are events, at most Capacity of *)
(* them in the ring, and the consumer fills at most one frame.             *)
TypeOK ==
  /\ FnsOf(lua) \in Seq(Fun \cup {profiler_start})
  /\ base \in 0 .. Len(lua)
  /\ frame \in Frames /\ clean \subseteq Frames
  /\ offered \in Event \cup {NoEvent} /\ held \in Event \cup {NoEvent}
  /\ buf \in Seq(Event) /\ Len(buf) <= Capacity
  /\ FnsOf(open) \in Seq(Fun \cup {profiler_start})
  /\ Len(current) <= 1

(* Once it has handled what is on its way, the consumer has the calls of   *)
(* the Lua stack above what was open when the frame began, with all that   *)
(* they called (core_profiler.c:108-150 against the calls and returns of   *)
(* the hook): a frame repairs whatever errors and tail calls did to it     *)
(* before (stack.c:569-597).                                               *)
ImageInStep == frame \in clean => Image(open, Pending) = SubSeq(lua, base + 1, Len(lua))

(* The frame the consumer is filling, 0 before the first. *)
Filling == IF current = <<>> THEN 0 ELSE current[1].id

(* A frame without errors and tail calls is written exactly as it happened: *)
(* with LogOrdered, its trees once, complete, under its own number,        *)
(* whatever went wrong in the frames before it (lua50_profiler.c:87-110,   *)
(* stack.c:544-602, output.c:86-210).                                      *)
TreesOf(i) == {log[k].trees : k \in {k \in DOMAIN log : log[k].id = i}} \ {<<>>}
FramesFaithful ==
  \A i \in clean : 0 < i /\ i < Filling => TreesOf(i) = {truth[i]} \ {<<>>}

(* The trees the consumer has collected of a clean frame are the first ones *)
(* of that frame: none is late, early or of another frame.                 *)
FillingFaithful ==
  Filling \in clean /\ Filling > 0 => IsPrefix(current[1].trees, truth[Filling])

(* The log numbers its frames upwards: no header comes twice or late.      *)
LogOrdered ==
  \A i, j \in DOMAIN log :
    i < j => /\ log[i].id <= log[j].id
             /\ log[i].id = log[j].id => log[i].trees = <<>> /\ log[j].trees # <<>>

(* What is written and what is being filled is the truth about each clean  *)
(* frame, in order, although the consumer handles an event long after it   *)
(* happened (lua50_profiler.c:87-110, 899-917, 948-960).                   *)
LogFaithful == TypeOK /\ FramesFaithful /\ FillingFaithful /\ LogOrdered

(* The trees of a frame reach the log once another frame was announced.    *)
(* The last one stays in the cache for ever (output.c:107-109).            *)
FramesReachLog ==
  \A i \in 1 .. MaxFrame :
    (i \in clean /\ frame > i /\ truth[i] # <<>>)
      ~> (TreesOf(i) = {truth[i]})

(* lua50_profiler.c:96 says of the branch that closes the record of a call: *)
(* "ar->event == "return"".  But for a frame, which drops the open records, *)
(* it is a return that closes one.                                         *)
OutIsReturn ==
  [][held.type # "frame" /\ Len(open') < Len(open) => held.type = "return"]_vars
=============================================================================
