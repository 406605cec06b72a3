------------------------------ MODULE Session ------------------------------
(***************************************************************************)
(* The control of lua50_profiler.c: profiler_start, _stop, _pause, _frame, *)
(* frame_profiler, init_profiler and the os.exit it replaces, together     *)
(* with what they share with the hook and the consumer: is_start, the      *)
(* registry entry, g_S, the hook, the queue and the hook statistics.       *)
(* Frames come from the host's frame_profiler: Lua's own profiler_frame    *)
(* raises an error whenever there is a session.                            *)
(*                                                                         *)
(* A session's state (lprofP_STATE) is known by the session's number.  Of  *)
(* the consumer's image of the calls only its depth is kept (CallTree has  *)
(* the rest).  The queue holds whole events (NolockQueue has the rest).    *)
(*                                                                         *)
(* A profiler function that Lua calls is a call like any other for the     *)
(* hook: LuaCall("called") is its beginning, its body sets api to "done",  *)
(* and LuaReturn ends it.                                                  *)
(***************************************************************************)
EXTENDS Integers, Sequences

CONSTANTS
  Reopen,       (* the host may call init_profiler again                   *)
  MaxLua,       (* bound: open Lua calls                                   *)
  MaxSession,   (* bound: sessions started                                 *)
  MaxExecuted,  (* bound: calls of the hook                                *)
  MaxQueue      (* bound: events in the queue                              *)

ASSUME SessionAssumption ==
  /\ Reopen \in BOOLEAN
  /\ {MaxLua, MaxSession, MaxExecuted, MaxQueue} \subseteq Nat

VARIABLES
  isStart, isPause,
  multithread, (* g_multithread                                            *)
  registry,   (* the state the registry holds, Nil if none                 *)
  gS,         (* g_S                                                       *)
  live,       (* the states allocated and not freed                        *)
  hookOn,     (* callhook is installed                                     *)
  osExit,     (* what os.exit is                                           *)
  exitId,     (* what the registry holds under exit_id                     *)
  session,    (* how many sessions were started                            *)
  readers,    (* the threads that run thread_run                           *)
  queue,      (* the events on their way                                   *)
  depth,      (* g_S->stack_level                                          *)
  lua,        (* how many calls the Lua VM has open                        *)
  api,        (* the innermost call is a profiler function, and its body   *)
              (* is still to run ("called") or has run ("done"); or "none" *)
  hookCnt,    (* stat_hook_call_cnt                                        *)
  executed,   (* how often the hook has run                                *)
  reported,   (* the sum of the counts that frames have carried            *)
  bad         (* what has gone wrong                                       *)

controlVars == <<isStart, isPause, multithread, registry, live, hookOn, osExit, exitId, session, readers>>
imageVars == <<gS, depth>>
statVars == <<hookCnt, executed, reported>>
programVars == <<lua, api>>
vars == <<controlVars, imageVars, statVars, queue, programVars, bad>>

Nil == 0
CallEvent == [type |-> "call"]
ReturnEvent == [type |-> "return"]
FrameEvent(cnt) == [type |-> "frame", hook_cnt |-> cnt]

(* luaL_openlibs and init_profiler have run. *)
Init ==
  /\ isStart = FALSE /\ isPause = FALSE /\ multithread = TRUE
  /\ registry = Nil /\ gS = Nil /\ live = {} /\ hookOn = FALSE
  /\ osExit = "exit" /\ exitId = "none"
  /\ session = 0 /\ readers = 0 /\ queue = <<>> /\ depth = 0
  /\ lua = 0 /\ api = "none"
  /\ hookCnt = 0 /\ executed = 0 /\ reported = 0
  /\ bad = {}

(* What has gone wrong has undefined consequences: the model stops there.  *)
Sane == bad = {}
-----------------------------------------------------------------------------
(* callhookIN, callhookOUT, lprofT_frame on the level of g_S *)
DepthAfter(e) ==
  IF e.type = "call" THEN depth + 1
  ELSE IF e.type = "return" /\ depth > 0 THEN depth - 1
  ELSE 0

(* handle_dbg_info; all its branches look into g_S *)
HandleEvent(e) ==
  /\ depth' = DepthAfter(e)
  /\ bad' = IF gS \in live THEN bad ELSE bad \cup {"EventWithoutState"}
  /\ reported' = IF e.type = "frame" THEN reported + e.hook_cnt ELSE reported
  /\ UNCHANGED gS

(* dispatch_dbg_info *)
Dispatch(e) ==
  IF multithread
  THEN /\ Len(queue) < MaxQueue
       /\ queue' = Append(queue, e)
       /\ UNCHANGED <<imageVars, reported, bad>>
  ELSE HandleEvent(e) /\ UNCHANGED queue

(* thread_run; lprofT_frame clears the count the hook has meanwhile made,  *)
(* unless the hook is just adding to it and writes back the old value + 1  *)
ConsumerHandles ==
  /\ Sane /\ readers > 0 /\ queue # <<>>
  /\ HandleEvent(Head(queue))
  /\ queue' = Tail(queue)
  /\ hookCnt' \in IF Head(queue).type = "frame" THEN {0, hookCnt} ELSE {hookCnt}
  /\ UNCHANGED <<controlVars, executed, programVars>>

HookUnlessPaused(e) ==          \* mutant: a pause silences the hook
  IF hookOn /\ ~isPause
  THEN /\ executed < MaxExecuted
       /\ Dispatch(e)
       /\ hookCnt' = hookCnt + 1
       /\ executed' = executed + 1
  ELSE UNCHANGED <<imageVars, statVars, queue, bad>>

(* the VM calls or leaves a function, and callhook if it is installed      *)
Hook(e) ==
  IF hookOn
  THEN /\ executed < MaxExecuted
       /\ Dispatch(e)
       /\ hookCnt' = hookCnt + 1
       /\ executed' = executed + 1
  ELSE UNCHANGED <<imageVars, statVars, queue, bad>>

LuaCall(kind) ==
  /\ Sane /\ api = "none" /\ lua < MaxLua
  /\ lua' = lua + 1 /\ api' = kind
  /\ Hook(CallEvent)
  /\ UNCHANGED controlVars

LuaReturn ==
  /\ Sane /\ api # "called" /\ lua > 0
  /\ lua' = lua - 1 /\ api' = "none"
  /\ Hook(ReturnEvent)
  /\ UNCHANGED controlVars
-----------------------------------------------------------------------------
(* the body of a profiler function *)
Begun == Sane /\ api = "called"
Body == Begun /\ api' = "done"

(* profiler_start on an installed profiler returns at once; otherwise it   *)
(* closes a session that is still in the registry, opens the next one, and *)
(* dispatches its own call, which the hook was too late for.  A thread     *)
(* that runs thread_run is started each time and none ever ends; queue_init *)
(* forgets the events in the old nodes.                                    *)
Start(threads) ==
  /\ Body /\ ~isStart /\ session < MaxSession
  /\ multithread' = threads
  /\ session' = session + 1
  /\ registry' = session' /\ gS' = session'
  /\ live' = (live \ {registry}) \cup {session'}
  /\ hookOn' = TRUE
  /\ exitId' = osExit /\ osExit' = "exit_profiler"
  /\ IF threads
     THEN queue' = <<CallEvent>> /\ depth' = 0 /\ readers' = readers + 1
     ELSE depth' = 1 /\ UNCHANGED <<queue, readers>>
  /\ isStart' = TRUE
  /\ UNCHANGED <<isPause, statVars, lua, bad>>

(* profiler_start on a started profiler, profiler_frame on one that is not *)
(* started, and is_profiler_pause at any time.                             *)
NothingToDo == Body /\ UNCHANGED <<controlVars, imageVars, statVars, queue, lua, bad>>

(* An error unwinds the call and as many around it as it takes to find a   *)
(* handler; the hook sees none of them return.                             *)
Raises == Begun /\ api' = "none" /\ lua' \in 0 .. lua - 1

(* profiler_start closes a session that is still in the registry, takes    *)
(* the mode it was asked for, if any, and lprofP_init_core_profiler cannot *)
(* open the file.                                                          *)
StartFails(threads) ==
  /\ Raises /\ ~isStart
  /\ multithread' = threads
  /\ hookOn' = IF registry # Nil THEN FALSE ELSE hookOn
  /\ live' = live \ {registry} /\ registry' = Nil
  /\ depth' = IF registry # Nil THEN 0 ELSE depth
  /\ UNCHANGED <<isStart, isPause, osExit, exitId, session, readers, gS, queue, statVars, bad>>

(* profiler_frame in a session pushes the registry's entry on top of its   *)
(* arguments and asks for an integer there: luaL_checkinteger raises before *)
(* an event is made or the count cleared.                                  *)
ProfilerFrame ==
  /\ Raises /\ isStart
  /\ UNCHANGED <<controlVars, imageVars, statVars, queue, bad>>

StopKeepsHook ==                \* mutant: the hook stays installed
  /\ Body
  /\ live' = live \ {registry} /\ registry' = Nil
  /\ depth' = IF registry # Nil THEN 0 ELSE depth
  /\ isStart' = FALSE
  /\ UNCHANGED <<hookOn, isPause, multithread, osExit, exitId, session, readers, gS, queue, statVars, lua, bad>>

StopKeepsRegistry ==            \* mutant: the freed state stays in the registry
  /\ Body
  /\ hookOn' = FALSE
  /\ live' = live \ {registry}
  /\ depth' = IF registry # Nil THEN 0 ELSE depth
  /\ isStart' = FALSE
  /\ UNCHANGED <<registry, isPause, multithread, osExit, exitId, session, readers, gS, queue, statVars, lua, bad>>

(* profiler_stop: the hook is removed, the output closed and the state     *)
(* freed, with the calls it holds.  g_S keeps pointing to it.              *)
Stop ==
  /\ Body
  /\ hookOn' = FALSE
  /\ live' = live \ {registry} /\ registry' = Nil
  /\ depth' = IF registry # Nil THEN 0 ELSE depth
  /\ isStart' = FALSE
  /\ UNCHANGED <<isPause, multithread, osExit, exitId, session, readers, gS, queue, statVars, lua, bad>>

(* The host calls frame_profiler, outside Lua or from a host function that *)
(* Lua has called, but not from a profiler function.                       *)
FrameCall == Sane /\ isStart /\ api = "none" /\ UNCHANGED programVars

FrameKeepsCount ==              \* mutant: the count is copied and not cleared
  /\ FrameCall
  /\ Dispatch(FrameEvent(hookCnt))
  /\ UNCHANGED <<hookCnt, controlVars, executed>>

FrameResetsFirst ==             \* mutant: the count is cleared before it is copied
  /\ FrameCall
  /\ Dispatch(FrameEvent(0))
  /\ hookCnt' = 0
  /\ UNCHANGED <<controlVars, executed>>

(* frame_profiler *)
Frame ==
  /\ FrameCall
  /\ Dispatch(FrameEvent(hookCnt))
  /\ hookCnt' = 0
  /\ UNCHANGED <<controlVars, executed>>

(* profiler_pause and profiler_resume both run lprofM_pause_function on the *)
(* state in the registry: without one they read through NULL, and they     *)
(* assert that the state's stack is not empty.                             *)
PauseOrResume(paused) ==
  /\ Body
  /\ isPause' = paused
  /\ bad' = IF registry = Nil THEN bad \cup {"PausedWithoutState"}
            ELSE IF depth = 0 THEN bad \cup {"PausedOnEmptyStack"}
            ELSE bad
  /\ UNCHANGED <<isStart, multithread, registry, live, hookOn, osExit, exitId, session, readers,
                 imageVars, statVars, queue, lua>>

(* init_profiler once more, on the same lua_State: profiler_open *)
InitProfiler ==
  /\ Sane /\ api = "none"
  /\ isStart' = FALSE /\ isPause' = FALSE
  /\ UNCHANGED <<multithread, registry, live, hookOn, osExit, exitId, session, readers,
                 imageVars, statVars, queue, programVars, bad>>
-----------------------------------------------------------------------------
Next ==
  \/ \E kind \in {"none", "called"} : LuaCall(kind)
  \/ LuaReturn
  \/ ConsumerHandles
  \/ \E threads \in BOOLEAN : Start(threads)
  \/ \E threads \in BOOLEAN : StartFails(threads)
  \/ ProfilerFrame
  \/ NothingToDo
  \/ Stop
  \/ Frame
  \/ \E paused \in BOOLEAN : PauseOrResume(paused)
  \/ Reopen /\ InitProfiler

Spec == Init /\ [][Next]_vars
-----------------------------------------------------------------------------
(* Flags are flags, pointers are Nil or sessions, counters do not go below 0 *)
(* (core_profiler.c:124-131 for the depth).                                *)
TypeOK ==
  /\ {isStart, isPause, multithread, hookOn} \subseteq BOOLEAN
  /\ api \in {"none", "called", "done"}
  /\ registry \in 0 .. session /\ gS \in 0 .. session /\ live \subseteq 1 .. session
  /\ osExit \in {"exit", "exit_profiler"} /\ exitId \in {"none", "exit", "exit_profiler"}
  /\ session \in Nat /\ readers \in 0 .. session
  /\ depth \in Nat /\ lua \in Nat
  /\ hookCnt \in Nat /\ executed \in Nat /\ reported \in Nat

(* However starts, failed starts, stops and re-initialisations follow on   *)
(* each other, the hook runs exactly while a state is registered, that     *)
(* state is g_S, it is allocated, and no other state is                    *)
(* (lua50_profiler.c:272-406).                                             *)
SessionConsistent ==
  /\ hookOn <=> registry # Nil
  /\ live = {registry} \ {Nil}
  /\ registry # Nil => gS = registry
  /\ isStart => registry # Nil

(* As long as no session has asked for a thread, no event is handled       *)
(* without an allocated g_S (lua50_profiler.c:87-110, 394): nothing is     *)
(* dispatched between a stop and the next start.                           *)
EventsFindState == readers = 0 => "EventWithoutState" \notin bad

(* As long as no session has asked for a thread, each call of the hook is  *)
(* reported by exactly one frame, also over the ends of sessions           *)
(* (lua50_profiler.c:206, 903-907, stack.c:567-568).                       *)
HookCallsReported == readers = 0 => reported + hookCnt = executed

(* What the frames in the queue carry. *)
FrameCount(e) == IF e.type = "frame" THEN e.hook_cnt ELSE 0
Carried ==
  LET sum[k \in 0 .. Len(queue)] == IF k = 0 THEN 0 ELSE sum[k - 1] + FrameCount(queue[k])
  IN  sum[Len(queue)]

(* In both modes no call of the hook is reported twice, although the hook, *)
(* frame_profiler and the consumer all write the counter                   *)
(* (lua50_profiler.c:206, 905-907, stack.c:568): what frames have carried  *)
(* and still carry, and what has been counted since, never exceeds the     *)
(* calls made.  Calls that no frame reports are possible, see stack.c:568. *)
ReportedAtMostOnce == reported + Carried + hookCnt <= executed

(* The counters, types included, over all sessions of either mode.         *)
CountsConsistent == TypeOK /\ ReportedAtMostOnce

(* As long as no session has asked for a thread, profiler_pause and        *)
(* profiler_resume find their own call on the stack, also when frames have *)
(* emptied it and returns came unmatched: the assertion of                 *)
(* function_meter.c:94 holds.                                              *)
PauseFindsCall == readers = 0 => "PausedOnEmptyStack" \notin bad

(* lua50_profiler.c:222 says of what exit_profiler calls: "call the        *)
(* original Lua 'exit' function".                                          *)
ExitCallsOriginal == osExit = "exit_profiler" => exitId = "exit"

(* queue.h:35 says of QINT_SET_VALUE_2, the way the reading side sets a     *)
(* counter of the ring: "call in read thread(pop)".                        *)
OneReadThread == readers <= 1
=============================================================================
