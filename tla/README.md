# LuaProfilingTools: a verification project in TLA+

This directory models the Lua CPU profiler of the repository and the tools
around it.  The modules are checked with TLC on small instances; what matters
most is proved with TLAPS for every instance.  Paths below are relative to the
repository.

## 1. The system

`lua-profilers/cpu-profiler/` is the profiler.  It runs inside a game process:

    Lua VM thread                        queue                consumer thread
    callhook / frame_profiler  --push-->  ring  --pop-->  thread_run
    profiler_start / _stop                                handle_dbg_info
                                                            call stack, call tree
                                                            frame cache, buffer
                                                            file + callback

The Lua thread runs the call hook.  Each call, return and frame becomes a
`lprof_DebugInfo` record that is pushed on a ring without locks.  A second
thread pops the records, keeps its own image of the Lua call stack, builds the
tree of the calls of each top-level call, and when that call returns attaches
the tree, as JSON, to the current frame.  Frames wait in a cache of two nodes,
go through a 5 KB buffer and end up in a file and in a callback that the Unity
integration forwards over a socket to an editor window.

### Components

| component | where | state | operations | interacts with |
|---|---|---|---|---|
| event queue | `queue.c`, `queue.h` | ring of nodes, head, tail, three `QUEUE_INT` counters | init, reserved, push/pop with and without allocation, recycle, check_full, check_empty | called by the hook (push) and by `thread_run` (pop) |
| call stack and call tree | `core_profiler.c`, `function_meter.c`, `stack.c` | `g_S` (level, stack), `pTreeRoot`, `pTreeNode`, `dPreFrame*` | callhookIN, callhookOUT, `lprofT_frame` | fed by `handle_dbg_info`, gives trees and frames to the output |
| output cache | `output.c` | list of frame nodes, `nCacheNode`, `sPrevNode`, buffer, file | addFrame, addData, output, toBuffer, open, close | called by the call tree; calls the output callback |
| session control | `lua50_profiler.c` | `is_start`, `is_pause`, `g_S`, registry, hook, `stat_hook_*` | start, stop, pause, resume, frame, exit, register/unregister callback | owns the two threads and the queue |
| clocks | `clocks.c` | none | time differences | used by the hook and the tree |
| memory snapshot | `lua50_profiler.c` | mark table in a second Lua state, a file | mark_table, mark_userdata, mark_function, mark_thread, mark_object | walks the Lua heap on the stacks of its threads |
| legacy profiler | `port-unity-slua/legacy-integration/core` | as the profiler, one thread | as the profiler | Unity integration |
| analysis scripts | `cpu-profiler/分析脚本` | current frame, gathered trees, statistics | iter_build_perfs, flush, aggregate | read the profiler's file |
| usmooth client | `PA_Common/usmooth/Client` | TcpClient, tick timer, guard timer | Connect, Disconnect, OnConnect, Tick, OnGuardingTimeout | the editor side of the socket |
| usmooth server | `PA_Common/usmooth/Runtime` | accepted TcpClient, handlers | OnAcceptTcpClient, Update, SendCommand | the game side of the socket; called by the profiler's callback |
| usmooth codec | `PA_Common/usmooth/Common` | byte buffer and cursor | read and write primitives, strings, lists | both sides |
| log service | `PA_Common/Scripts/Logging` | memory buffer, count of folded messages, file | OnLogReceived, FlushLogWriting, UseMemBuf, Dispose | Unity's log callback, on any thread |
| editor window | `PerfAssist/LuaProfilerWindow` | sessionMsgList, jsonStrPool, SessionJsonObj, the tree drawn | receive, Update, HandleMsgAsyn, draw | three threads: network tick, main, worker |
| Unity binding | `Assets/Slua/*.cs` | start flag | start, stop, frame | calls the profiler's C API |
| vendored code | `lua-packages`, `port-slua-1.2`, slua, litjson, cJSON | | | used, not part of this project |

### What is hard

* Two threads share the ring without a lock; correctness rests on which thread
  writes which counter, on the order of the writes and on wrap-around.
* The consumer's image of the call stack can drift from the real one: an error
  unwinds Lua frames without a return event, a Lua 5.3 tail call arrives as an
  event that is neither the call nor the return the code expects.  A frame
  event repairs the image, at the price of the tree under construction.
* The call tree stores children in arrays that `realloc` moves while other
  nodes point into them.
* Trees are attached to the frame that was announced last, and the last cached
  frame is only written when another one arrives.
* Starting, stopping and exiting run on the Lua thread while the consumer
  thread keeps working on the same globals.
* The socket layer calls back from timer and pool threads into state that the
  main thread reads.  Each callback looks the connection up anew, so a late one
  acts for whichever connection is there by then; several of them can be inside
  `Disconnect`, which takes no lock, at once.
* The snapshot walks a cyclic heap by recursion, on Lua stacks that are bounded
  and that are themselves part of the heap.
* The log folds repetitions, buffers what is not urgent and is entered by
  several threads behind a guard that is tested and set in two steps.
* A tree stands in the file behind the header of its frame, its time in front of
  the header of the next: a reader must not confuse the two.
* In the editor window a worker waits for `Update` to take a result, and `Update`
  asks whether the worker waits.

## 2. The modules

### How they fit together

    FifoQueue     CallNesting    FrameLog      EventLog      (what a part promises)
        ^             ^             ^              ^
        | FifoRef.    | NestingRef. | LogRef.      | EventLogRefinement
    NolockQueue   CallTree      OutputCache    LogService    (what the code does)
                                    ^
                                    | EXTENDS
                                 LuaPerf       (writer and reader of one file)

    Profiler     = Lua VM + hook + FifoQueue + CallNesting + FrameLog
    Session      = start / stop / pause / frame / exit around hook and consumer
    Snapshot     = the five mark functions on an arbitrary heap
    NetLink      = NetClient + NetManager + NetGuardTimer + UsNet, whole messages
    EditorWindow = PacketStream (UsNet to NetClient, parts of messages) + window

`NolockQueue`, `CallTree` and `OutputCache` are too large to be multiplied with
each other.  Each is checked and proved to implement a short abstract
module, and `Profiler` composes the abstract ones.  `Session` keeps of the
pipeline only what the control functions share with it.  The socket is cut in
two in the same way: `NetLink` has connections and no bytes, `PacketStream` has
parts of packets and one connection.

Where threads meet without protection the program's behaviour is no longer
defined by its text, or is plainly broken, and nobody claims otherwise.  The
models say where that begins by a history variable that no action reads except
to stop or to excuse: `bad` (Session), `outOfTurn` (NetLink), `torn`
(PacketStream), `raced` (EditorWindow), `astray` and `stranded` (LogService),
`overlapped` (NetLink).
The properties hold in every behaviour up to that step, and the step itself is
in the model, so that the extent of the protection is visible.

### NolockQueue (queue.c, queue.h)

The producer is in one of six places of `queue_push_without_alloc` (`pcP`), the
consumer in one of six of `queue_pop_without_dealloc` and its caller (`pcC`).
Every access to a field that the other thread also touches is an action:

| action | code |
|---|---|
| `PushCall` | `dispatch_dbg_info` calls the push |
| `PushTest`, `PushSleep`, `PushWake` | the `while` of queue.c:149-161 |
| `PushWrite`, `PushAdvance`, `PushPublish` | queue.c:163, 164, 166 |
| `PopTest` | queue.c:177 |
| `PopRead`, `PopClear`, `PopAdvance`, `PopConsume` | queue.c:180, 181, 182, 183 |
| `Handle` | `thread_run` handles and frees the record |

The nodes are numbered along the ring, so `_nxt_node` is arithmetic (`Nxt`).
The counters have `UintSize` values and wrap; `QintValue` is `QINT_VALUE` with
its cast to `int`.  The two nodes of `queue_init` start with arbitrary data
because the code mallocs them without clearing them.  Stores are seen in
program order: the builds that use the queue are for x86 and x64, where stores
are not reordered with stores, and the accesses are in functions of another
translation unit than their callers.  A port to a weakly ordered machine would
need barriers, and the model would not notice their absence.

### CallTree (core_profiler.c, function_meter.c, stack.c)

`level` and `stack` are `g_S`; `heap`, `root`, `node` are the tree nodes by
address, `pTreeRoot` and `pTreeNode`.  `AddChild` is `lprofT_addchild`: the
first child is malloced, each further one reallocs the array, and the array may
move (`moved`), which leaves the `pParent` of grandchildren dangling, as in the
code.  `CallhookIN`, the three cases of `CallhookOUT`, `Frame` and `Restart` are
whole handlers: a `Frame` contains the header, the popping of the stack, the
freeing of the tree and the reset of the level.  `given` is what the handler
passed to the output.  A node is mapped to its function and its children; of
its times the model keeps whether the end was set.  `preFrame` says whether
`dPreFrameLuaConsuming` is above 0; a tree that ends may leave it either way,
since the measured interval can be 0, and less when the clock is set back.

### OutputCache (output.c)

`cache` is the list between `pOutputHead` and `pOutputTail`, `prev` is
`sPrevNode`, `buf` and `bufLen` are the contents and the length of
`pOutputBuffer`.  `Output` is `lprofP_output`; it happens inside `AddFrame`
when `nCacheNode` reaches `nMaxCacheNode`.  `ToBuffer` is arithmetic on lengths
that are constants of the model, so that a string can fit, fill the buffer to
the last byte, or exceed it.

### LuaPerf (stack.c, output.c, build_luaperf.py)

`LuaPerf` extends `OutputCache` by what the reader of the file depends on:
whether trees took time since the last header (`preFrame`; here the clock is
taken to have moved on when a tree ends), and, outside the
program, the place of the frame whose time a header carries (`carried`,
`carries`).  `LprofTFrame` is `AddFrame` with the header of
`frameTojson`; `Lines` is the text of the log line by line.  The reader,
`iter_build_perfs`, is the recursive function `Reading`, its state after each
number of lines: `current_frame`, `cache`, `interested` and what it has put in
`perf` and `frameperf`.  `Read` flushes after any number of lines, since the file
ends wherever the game ended; `Kept` is what it should then have taken.

### Profiler (lua50_profiler.c, two-thread mode)

The Lua VM is the environment: `LuaCall`, `LuaReturn`, `LuaError` (a caught
error unwinds calls and no hook runs), `LuaTailCall` (Lua 5.3).  `Hook` makes
the record and offers it to the queue; while the push waits for room the Lua
thread cannot move, which is the guard `offered = NoEvent` inside `Queue!Offer`.
`HostFrame` is `frame_profiler`.  The consumer takes an event (`Pop`) and
handles it (`Handle`).  `truth` records, outside the program, which trees each
frame really had, and `clean` which frames saw no error and no tail call.  A
call that returns becomes a part of the call around it (`Returned`), for the
program as for the consumer.  The session begins inside `profiler_start`, a C
function, of which nothing is left but to return (`Starting`).  `Image` is the consumer's stack once what is on
its way has been handled, whole calls with all they called; `TreesOf` is what
the log tells of a frame.

### Session (lua50_profiler.c)

A profiler function called by Lua is three steps, as for the hook: its call
event, its body, its return event.  A body is one action (`Start`, `StartFails`,
`Stop`, `ProfilerFrame`, `PauseOrResume`, `NothingToDo`).  `Frame` is
`frame_profiler`, which the host calls.  The Lua function `profiler_frame` makes
no frame: in a session it pushes the registry's entry on top of its arguments and
then asks for an integer there, so that `luaL_checkinteger` raises an error
(lua50_profiler.c:408-417), which unwinds calls without return events (`Raises`).  `registry`, `gS` and `live`
tell apart the state in the Lua registry, the global `g_S` and the memory that
is allocated.  Each `Start` chooses the mode, as the second argument of
`profiler_start` does.  What has undefined consequences (an event on a freed
state, a pause through NULL) is recorded in `bad`, and the model goes no further.

### Snapshot (lua50_profiler.c:433-848)

The heap is a constant function of kinds, metatables, pairs and references that
the call finds (`heap \in Heap`).  The C recursion is the sequence `calls`; a
record says which object a mark function is at, on which Lua stack `L`, and how
far it is: `meta`, `next` (before `lua_next`), `key` (between value and key),
`refs`.  `lua` is what the traversal has pushed on each Lua stack.

| action | code |
|---|---|
| `Begin`, `End` | `memory_snapshot`, `profiler_snapshot`: file and second state opened, closed |
| `MarkMetatable` | the head of `mark_table` and of `mark_userdata` |
| `MarkValue`, `MarkKey` | the two halves of the `lua_next` loop, with `weakk` and `weakv` |
| `MarkUservalue`, `MarkRef` | the uservalue; upvalues, stack slots and locals |
| `UservalueMisfits` | a uservalue that is no table and not marked: the traversal breaks off |
| `Leave` | the end of a mark function; a table is written |

`MarkObject` asks for stack room and raises the error of `luaL_checkstack` when
there is none; `Enter` is `readobject`, which pushes no new record for what is
marked already.  A coroutine is traversed on its own stack, and the calling
thread, when reached from one, refers to what the traversal left on it.  `mark_userdata`
hands any uservalue to `mark_table`: for a plain one `readobject` returns without
popping (lines 465-466), so that the userdata stays on the stack, and on another
object follows `lua_next`.  What comes then is undefined, and `phase` is `broken`
as after the error of `luaL_checkstack`.

### LogService (LogService.cs)

`out` gathers file, buffer, counters and the last content.  A call of
`OnLogReceived` is three steps, `Check` (guard and `_disposed` tested), `Handle`
(guard set, message folded, buffered or written) and `Finish`, or one, `Refuse`.
`FlushLogWriting`, `SetUseMemBuf` and the four steps of `Dispose` are the main
thread's.  The file may be missing from the start (`writer = "none"`).  A write
on an open writer may throw (`HandleFails`, the catch of LogService.cs:299-302;
`FlushFails`): with the file as it was, at whichever of the writes of the call,
or with a part in it.  A flush that finds a thread inside `OnLogReceived`, or
that one enters, and a write in part are in the model (`FlushMeets`) and set
`astray`, where it stops.  The
abstract `EventLog` says that the file always tells a beginning of what was
logged and everything once an urgent message has come.  In the code a message
is "Log" or "Error" with the same text and stack treated as the same content:
an error that repeats the message before it is folded, not written, which
`EventLog` states as it is.

### NetLink (NetClient.cs, NetManager.cs, NetGuardTimer.cs, UsNet.cs)

Each connect makes a new connection `n`; `client` is the field `_tcpClient`.

| thread | actions |
|---|---|
| main thread of the editor | `ConnectButton`, `DisconnectButton` |
| pool, one per connect | `OnConnect`, `SendHandshake`, `StartTick`, `Activate` |
| tick timer | `Tick`, `TickStatus`, `TickReceive`, `TickValidated` |
| guard timers | `GuardElapses`, `OnGuardingTimeout` |
| game | `Accept`, `ServerReads`, `ServerAnswers` |
| network | `Network`: a connect succeeds or fails, an open connection is lost |

`Disconnect` is what every thread but the game's can be in, step by step
(`leaving`): the test, `CloseClient` (or `CloseThrows`, when another thread has
set the field to null meanwhile), `ForgetClient`, and `StopTimers`, which is the
event handler `OnDisconnected`.  Each step takes `_tcpClient` as it then is, so a
thread that is late closes or forgets a client made since, whose socket stays
open; `overlapped` remembers that two threads were between test and null
together.  A timer may elapse before it is stopped and be handled after, as
`System.Timers.Timer` does; a timer that `_timer` forgets runs on.  A tick does
without the check of the status, or of the data, when the interval has not
passed (`TickTooSoon`).

### PacketStream and EditorWindow (UsNet.cs, NetClient.cs, LuaProfilerWindow.cs)

Two threads of the game write packets, length and body apart, under
`_netLocker`; `Arrive` lets any beginning of the stream arrive; `ReadLength` and
`ReadBody` are `Tick_ReceivingData`; a read that gets less than it asked for, of
a length (`ReadPartOfLength`) or of a body, sets `torn`.  A message of the profiler then passes
`sessionMsgList` (`Receive`), `jsonStrPool` (`AcceptJson`, `ClearList`), the
worker's `batch` (`WorkerJoins`, `WorkerClears`), the result of `SessionJsonObj`
(`WorkerStores`, after `WorkerBlocks` if the one before is still there) and the
tree that is drawn (`ReadResult`, `TakeResult`).  Each line that touches a list
another thread also touches is an action of its own.

## 3. The runs

| run | bounds | states | properties |
|---|---|---|---|
| `nolock_queue` | 2 events, 2 data nodes, counters of 8 values | 3990 | `IInv`, the invariant of the proofs, which has the types; no race; FIFO; no push waits for ever; nothing stays |
| `call_tree` | 2 functions, depth 4, 5 nodes | 8310 | `HeapFitsStack`: types, path is stack, only open calls lack an end; level is depth; nothing leaks; call nesting |
| `output_cache` | trees of 1 and 6, headers of 3, buffer of 13 | 570064 | `CacheConsistent`: types, one frame waits; buffer fits; callback sees the log; frame log; the script finds trees and times |
| `profiler` | 1 function, 2 events queued, depth 3, 2 frames of 5 events | 1633553 | `LogFaithful`: types, frames faithful, also while filled, log ordered; image in step; frames reach the log |
| `session` | depth 3, 3 sessions, 6 hook calls, 3 queued | 280135 | `CountsConsistent`: types, hook calls reported at most once; reported at all; state consistent; events find a state; a pause finds its call |
| `snapshot` | 1296 heaps of 7 objects, 3 of 9 stack slots asked for | 23191 | `StacksConsistent`: types, stacks kept and long enough; only reachable marked; nothing missed; written once; returns |
| `log_service` | 2 threads, 4 messages, buffer of 4 bytes | 1289591 | `BufferConsistent`: types, one message waits; log complete; nothing vanishes; dispose keeps; event log |
| `net_link` | 2 connects | 600456 | no socket left; timers fit; connection resolved; loss noticed |
| `editor_window` | 4 messages, 1 answer | 361310 | `WindowConsistent`: types, messages accounted for; packets in order; `NobodyStalls`: list taken, result shown |

The types are one conjunct of an invariant of each run; those of `NetLink` are
not checked but proved, as `QueueNoNullReceived` is.

**Why these bounds.**  In the queue 2 nodes are enough for the ring to be
empty, full, and to have the two threads at adjacent nodes; 8 counter values
make the counters wrap while the ring is in each of these states, and the
assumption `2 * Capacity < UintSize` is met.  In the tree, depth 4 and 5 nodes
give a parent with two children of which the first has children of its own:
the case in which realloc leaves a stale `pParent`.  In the output, 13 bytes
with strings of 3 + 2 and 6 + 2 reach the last byte of the buffer (the boundary
of `>=`) and overflow it with and without buffered strings before.  In the
pipeline, which begins before its first frame, 2 frames are one that is written
and one that is being filled, with what came before them; 5 events in a frame
are two trees and more, so that their order shows, make a call and its return
straddle a frame, and let errors and tail calls hit both sides of it.  In a session
the third start is the first that follows a start that followed another.

The heaps of the snapshot are all combinations of: a metatable that is its own
metatable or is none, strong, weak in keys or weak in values; a table that
refers to itself, or to a function and a userdata; a userdata with and without
uservalue, which may be a plain value or a function; a function and a coroutine that refer to each other, to the calling
thread and back to tables; in some of them 9 slots are too few, so that the error of
`luaL_checkstack` happens at several depths, in others they suffice.  In the
log, a buffer of 4 takes one message of size 3 and not two, and none of size 5;
4 messages allow a repetition that is counted, a different message, and a
repetition of that, with flush, switch, dispose and failing writes in between.
Two connections are what a late callback, or a thread late in `Disconnect`, needs
to hit the wrong one; a third would only repeat the second.  `NotBothSet`, the
constraint of that run, cuts off what follows a state with both `overlapped` and
`outOfTurn`: each property is excused by one of them, and neither is ever taken
back, so all four hold from there on whatever comes.  In the window, 4 messages are one in each of list, pool, batch and
result, the state in which everybody waits for `Update`; the answer of the game
contends for the lock.

**What the runs show.**  A frame in which nothing failed is written exactly as it
happened, whatever went wrong in the frames before it: an error or a tail call
spoils at most the rest of its own frame (`FramesFaithful`, `ImageInStep`).  Trees
are never filed under the wrong frame although the consumer lags behind the
program (`FillingFaithful`, `LogOrdered`).  Nothing in the ring, the tree or the
buffer is lost, overwritten or freed too early.  The script finds every tree
under its frame in any beginning of the file; of the times it misses exactly
that of the last frame and of a frame whose number is announced again at once
(`TimesAreFound`).  The snapshot marks what the registry keeps alive, and beyond
that at most weak keys it has left on the caller's stack itself.  The log's
buffer never holds more than one message, because every new content flushes it
first; the farewell of `Dispose` is always lost; turning the buffer off with a
message in it strands that message.  A write that fails with the file as it was
loses the message at hand and nothing gathered before it, and none is written
twice.
Whatever the order of clicks, failures and timers, no socket is left open until
two threads have been inside `Disconnect` together (`NoSocketLeft`; the states in
which one is left then are in the model); timers and connection agree until a
callback acts for a connection that is not its own (`outOfTurn`).  In
the window nothing is lost or doubled unless two threads are in the unlocked
lists together, and no thread waits for ever; the last batch, however, is shown
only if another message comes (`ResultIsShown` has that in its premise).

**Fairness.**  In the queue and the pipeline two assumptions: the steps of the
producer inside a push and the steps of the consumer are each weakly fair
(`FairSpec` of `NolockQueue` and `Profiler`).  They are OS threads without
priorities; both loops poll and hold no lock.  Nothing makes the Lua program
call, return or announce a frame.  `PushReturns` therefore says that a full
queue delays the game and does not hang it.  `Snapshot` is one call on one
thread: it goes on while it can.  In `NetLink` the tick timer, the completions
of `BeginConnect`, a pending connect, the guard timers and whoever is inside
`Disconnect` go on; the check of the status is strongly fair, since the tick
comes every 100 ms and the interval passes again and again.  The user and the
game need not do anything, so a game that never answers is covered.  In
`EditorWindow` `Update` is called every frame and the worker loops; game and
network may stop.  Deadlock is not checked where program, host or user may
simply stop (all but `NolockQueue`, `CallTree` and `OutputCache`), and is where
the model has no such end.

## 4. Findings

Each is a run whose only property quotes the repository, and that TLC refutes.

* `profiler_tail_call`: lua50_profiler.c:96 takes every event but a call for a
  return.  Lua 5.3, which two of the ports build against, reports tail calls as
  event 4.  The consumer closes the caller's record for the callee's call and opens
  none; the return that follows is ignored or closes another record.  In the trace
  `profiler_start` has returned, its caller calls `f`, `f` calls a function as its
  last act, and `Handle` takes that event for a return (`OutIsReturn`).
* `session_exit`: os.exit is saved on every start and never put back.  After a
  second start the saved "original" is the profiler's own function, and os.exit
  recurses until the C stack of Lua is exhausted.
* `session_readers`: every start in two-thread mode starts a consumer thread and
  none ends; a restart has two threads popping a ring built for one reader.

Other places where code and comments differ.  They have no run, because the
modules state what the code does:

* queue.h:102 says of `queue_push_without_alloc`: when the queue is full, return
  immediately with `QUEUE_NO_ROOM`.  The code (queue.c:149-161) sleeps and tries
  again until there is room, and never returns that value.  `FifoQueue` has a full
  queue make the producer wait; `FifoRefinement` and `PushReturns` are about that,
  and say nothing for a caller that relies on the comment.
* `profiler_frame`, a function of the Lua library, cannot announce a frame while a
  session runs: it raises an error (`ProfilerFrame` in `Session`).  Frames come from
  `frame_profiler` alone.
* lua50_profiler.c:583-600 takes the uservalue of a userdata for a table or nil, as
  in Lua 5.2; Lua 5.3 allows any value (`UservalueMisfits` in `Snapshot`).

## 5. The proofs

The theorems hold for all values of the constants that meet the named
assumptions (`QueueAssumption`, `OutputAssumption`, `CallTreeAssumption`,
`SessionAssumption`, `SnapshotAssumption`, `ConnectAssumption`, `LogAssumption`,
`PacketAssumption`, `ProfilerAssumption`, `PipelineAssumption`,
`InterestingAssumption`).

**NolockQueueProofs.**  `IInv` is inductive: `SizeOK` says that a test of the
size made earlier still holds when it is used (the other thread can only move
the size in the harmless direction), `RingOK` ties the tail to the head through
the number of nodes they enclose, which differs from the size between a pointer
update and the counter update after it.  `QueueInvariant` proves it,
`QueueNoNullReceived` and `QueueNoDataRace` follow; `QueueRefinesFifo` shows
that `PushPublish` and `PopRead` are the enqueue and the dequeue and that every
other step stutters or is an offer or a release.

**CallTreeProofs.**  `LevelTheorem`: level, number of records and existence of a
tree agree.  It is not inductive alone: a first call takes its root from malloc,
so `LevelInv` adds that without a tree the allocator of the model is at its
beginning and gives out an address that is not `Null`, and that the stack holds
records, so that `Front` is what the list operation of `lprofS_pop` computes
(`FrontOfStack`).  `HeapTheorem` and `NodesTheorem` rest on `TreeInv`, which
describes the whole heap and not the path alone: an array that is shared, hangs
in the air or leads back up would spoil the path some steps later.  It says that
no node is held twice, that levels rise from a node to its children, that the
children of an ended node have ended, and that every node but the root is held.
A `realloc` that moves an array renames nodes and leaves a stale `pParent` in
grandchildren; `OnPath` therefore says of `pParent` only that it is right on the
path, where alone it is read.  `TreeImplementsNesting` needs in addition what
the recursive function of `treeTojson` yields (of the measured times it assumes
nothing): two heaps that agree below a node
give the same text (induction on the levels, which rise), and the cases of
`CallhookOUT`, the frame and the restart map to the steps of `CallNesting`.

**OutputCacheProofs.**  `OutputBufferFits` needs that the count is never less
than the characters in the buffer plus the NUL; `OutputOneFrameWaits` is about
counter and list; `OutputImplementsLog` adds that `sPrevNode` describes the last
string of the log, which is what lets the abstract log do without it.
`OutputCacheConsistent` puts them together with the types of what is not in the
log (`RestOK`).  For `OutputCallbackSeesLog` a step that writes is split by
whether the strings go through the buffer (`NewPart`) or nothing is new
(`NothingNew`).

**OutputCacheProofs, the reader.**  `PerfTreesAreFound` and `PerfTimesAreFound`
are about a file of any length and every line at which it may end.  They have
two halves.  `PerfInv` is an invariant of the writer: trees stand behind the
header of their frame (`Headed`), the header behind them carries their time
unless they are in `unheaded` (`CarriesOK`), and the header in the cache knows
whose time it has (`CarriedOK`); a frame whose number is announced again at once
is the case that makes the last one necessary.  The other half is no step of the
system but an induction on the lines in one state.  `Laid` says of each line
which string of the log it is from and which of its trees it shows
(`LinesLaid`, an induction on the strings that `FlattenSeq` joins); `Here` says
that after line k the reader's cache holds the trees of its string so far, that
`interested` is about these alone, and that `current_frame` is their frame.
With it, a header adds a time exactly if it is one that is due (`TimesStep`),
and what a flush takes is what `Kept` adds between the last header and line k
(`FlushKept`, `TreesStep`).

**SessionProofs.**  `SInv` has two halves.  `ControlInv` (flags and pointers)
is inductive alone.  `Alone` speaks of the time before any session asked for a
thread: an installed hook then handles its events in the call, so counters and
freed states cannot come apart.  `SessionPauseFindsCall` adds `StackFound`: then
the consumer's stack is as deep as the program's calls since the start, so that
a pause looks at a stack on which its own call lies.  `SessionCountsConsistent`
holds with threads as well.  `CountInv` is inductive with the counts in the
queue summed up: `Carried` is a recursive function over the queue, and the
lemmas on it (what `Append` and `Tail` do to the sum) are inductions on its
length.

**SnapshotProofs.**  The heap is arbitrary, of any size and shape.  `IInv` is a
statement about each record of `calls` by how far it has come (`Good`): what an
object at `next` has passed is marked, its key is still to be marked at `key`,
objects on `calls` are distinct and marked, and every other marked object is
finished.  This is depth-first search's "black objects have no white
successors"; with an empty `calls` it is `NothingMissed`.  `AllWithin`, the
invariant for `OnlyReachableMarked`, fixes a set closed under reference and
shows that marked objects, remembered references and pushed values stay in it.
`TablesWrittenOnce` follows from the same finished-or-active split.
`SnapshotStacksConsistent` adds `DInv`.  That each stack is what the records
hold (`HeldIn`) is inductive; that it never overflows is not, because
`mark_userdata` pushes without asking and `mark_table` keeps a key.  `Room` is
the reason it works: below the object of a record there always is the room last
asked for, since the only one entered without asking is a table, from a userdata
that has it.  `LUA_MINSTACK >= 3` is enough.  The proof assumes that metatables
are tables, which Lua demands; of uservalues it assumes nothing, since the
traversal breaks off at one that `mark_table` cannot deal with.

**LogServiceProofs.**  `IInv` is the types, `OneWaits` and `OneInside`: the guard
lets one thread at most into the body of `OnLogReceived`.  Every new content
flushes the buffer before it is written to it, so what is buffered is one line,
and the second attempt of `WriteLog` after a flush meets an empty buffer.
`LInv` adds what order depends on: a buffer turned off is empty unless messages
were stranded in it (`Tidy`), and the content a new message is compared with is
the last word told, so that a folded line repeats the right one (`Ends`).
`StepKinds` reduces every step to one of four, nothing, a flush, a flush after a
switch, a message, each of which may break off (`LeftFits`, `LeftTells`: what a
failed write leaves is the service as it was, or flushed in part); a lemma for each operation says what it does to the text
(`FlushFoldedTells`, `WriteLogTells`, `ReceivedTells`).  `LogIsComplete`,
`LogLosesNothing` and `LogDisposeKeeps` follow.  `LogImplementsEventLog` needs
one more fact, that the file only grows (`Grown`), and that an urgent message
which is not folded leaves buffer and count empty.

**EditorProofs, packets and window.**  `StreamInv` numbers all parts of all
packets: until a length or a body is read in part, the stream holds those from the first not
read to the last written, each in its place (`StreamOK`); the lock makes the part
after a length the body of the same packet (`LockOK`).  `WindowPacketsInOrder`
follows.
`WindowInv` needs `HandOver`, the two facts that pass from thread to thread: a
result taken is not stored over before it is shown, and what the worker joined
is what it clears.  Each step then moves messages from one station to the next,
which is empty (`ListMoves`, `PoolMoves`, `BatchMoves`, `ResultMoves`).

**EditorProofs, connections.**  `LinkInv` adds to the types that connections are
made in order (`Made`: those beyond `made` have no socket, no completion and no
timer) and the two properties themselves.  For `NetLinkLeavesNoSocket` the thread
that is between test and null, of which there is one as long as nothing has
overlapped, closes the client that it then forgets.  `NetLinkTimersFit` holds
because every step that would touch the timers for another connection, or start
one while a thread stops them, sets `outOfTurn`.

**ProfilerProofs.**  What the file will say depends on events the consumer has
not seen, so the invariant speaks of the future: of the `Stages` the consumer
will pass through when it handles what is on its way, the queue's contents and
the event in hand.  Each is `Good`: its log tells the truth of the clean frames
before its own, and the trees it has collected are the first of its frame.  The
last is `Caught` up: if the present frame is clean its stack is what the program
has called since the frame began, and its trees are all of that frame so far.
The invariant says that such stages exist (`StagesGood`).  A step of the
consumer goes on to the second of them (`ConsumerStep`); a step of the program
adds one at the end (`HookedStep`), and an error, which the hook does not see,
makes the frame unclean (`UnseenStep`).  A frame event repairs whatever stack
the consumer has: the stage after it is empty, as is what the program has called
since (`GoodAnnounced`).  `PipelineLogFaithful` is `Good` of the first stage,
`PipelineImageInStep` is `Caught` of the last, which `Image` computes
(`ImageIsLast`, an induction on the events).

**Only model-checked.**  Liveness, which the prover does not reach:
`PushReturns`, `EventsReachConsumer`, `FramesReachLog`, `SnapshotReturns`,
`ConnectionResolved`, `LossNoticed`, `NobodyStalls`.  Every other property of a
passing run is stated by a theorem.

**Induction over data.**  A theorem that takes an operator as a parameter cannot
be used here, but one that takes a set can.  `NatSetInduction` (a set of numbers
that contains 0 and with each n its successor contains all; `LineInduction` in
OutputCacheProofs) is proved from the well-foundedness of the order, and with it
that a recursive function, which is a `CHOOSE`, exists and has the values its
definition says (`SumsExist`, `HeldExists`, `ToldExists`, `ReadingIs`).
Definitions that are proved about are therefore recursive functions: `json` and `below` of `CallTree`, `Carried` of `Session`,
`Held` of `Snapshot`, `Told` and `Count` of `LogService`, `Image` of `Profiler`,
`Reading` and `Kept` of `LuaPerf`.

## 6. Not modelled, and why

* `queue_push`, `queue_pop`, `queue_peek`, `queue_recycle`, `queue_check_full`,
  `queue_check_empty`: no caller in the repository.
* Memory exhaustion: every malloc succeeds.  The code tests some results and
  not others, so its behaviour after a failure is undefined in most places.
* `%` in strings: `output` uses the text as a format (output.c:45), undefined
  behaviour for names that contain one.
* Times: only whether they are set or positive, and whose they are.  `CallTree`
  lets a tree take no measured time; `LuaPerf` takes it to have taken some.
* Coroutines in the hook: it is set for one `lua_State`; see the hazards.
* A callback that is unregistered between its test and its call; two readers
  inside one pop.  `Session` shows that the second can begin; what it does to
  the ring is not explored.
* Of the snapshot the texts written, and what follows a uservalue that is not a
  table, which is undefined.  `gen_result` and what it calls have no caller.
* Of the scripts the statistics over the trees (ubox.py, get*.py): arithmetic
  without state.  The reader of whole files fails on every file the profiler
  writes, which ends in a comma.
* The usmooth codec: a byte buffer with two cursors whose state ends with the
  message.  Packets are a length and a body here.
* `UsvSimpleServer` (nothing instantiates it), `CloseTcpClient` of `UsNet` (the
  editor sees a lost connection, which `NetLink` has), two ticks at once and two
  handlers of one guard timer at once, a stop of the timers in its two steps, and
  the handlers of commands that change nothing.
* A second `OnEnable` of the window without `OnDestroy`, the button that clears
  the tree, loading a session from a file, and drawing.
* The log's targets, its assertion counter, what becomes of the log once two
  threads are inside or a write has left a part in the file, and messages that come while the
  service is constructed (the callback is registered before the buffer exists).
* The legacy copy of the profiler: one thread, the same stack, tree and output
  but for a filter of library calls and a stop that drains the stack.
* The Unity binding, which only forwards, clocks, vendored code.

## 7. Plan

*Done:* queue, call tree, output, pipeline, session and the abstract modules
for the first three; memory snapshot; log service with its abstract log; socket
(connections, and packets with the window behind them); reading of the
profiler's file; proofs of the queue, the output, the level, the session, the
snapshot, the log service, the connection, the packets, the window, the
pipeline and the reading of the file.

*Left*, in this order:

1. The legacy profiler's filter and draining stop, against `CallNesting`.
2. The codec as operators, and the rest of the queue's interface.

## 8. Running

    tlc -config NolockQueue.cfg NolockQueue.tla
    tlc -config OutputCache.cfg MCOutputCache.tla
    tlc -config Snapshot.cfg MCSnapshot.tla
    tlc -config NetLink.cfg NetLink.tla
    tlc -config EditorWindow.cfg MCEditorWindow.tla
    tlapm NolockQueueProofs.tla

`PROJECT.json` lists which configuration belongs to which module, what each
run checks, for every property a mutated definition under which it fails, and
for every definition the lines of the code it stands for.
