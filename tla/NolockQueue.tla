---------------------------- MODULE NolockQueue ----------------------------
(***************************************************************************)
(* The ring of queue.c as the profiler uses it: the Lua thread calls       *)
(* queue_push_without_alloc, the consumer thread (thread_run) calls        *)
(* queue_pop_without_dealloc, and nothing locks.  Each access to a field   *)
(* both threads touch is a step of its own.                                *)
(*                                                                         *)
(* The ring holds one node more than a sentinel and the data:              *)
(*                                                                         *)
(*    head -> sentinel -> d1 -> ... -> dn = tail -> free ... -> head       *)
(*                                                                         *)
(* The size is QUEUE_INT: the producer only adds to _add_ref, the consumer *)
(* only adds to _sub_ref, both wrap, and the value is the difference.      *)
(*                                                                         *)
(* Memory order: stores are seen in program order (the builds that use the *)
(* queue are x86 and x64, and the calls cross a translation unit).         *)
(***************************************************************************)
EXTENDS Integers, Sequences

CONSTANTS
  Event,      (* the debug-info records the hook can produce               *)
  NoEvent,    (* the NULL data pointer                                     *)
  Reserved,   (* NONLOCK_QUEUE_SIZE, the argument of queue_reserved        *)
  UintSize    (* how many values an unsigned int has: 2^32 in the builds   *)

MIN_QUEUE_CAPACITY == 2

(* _queue_actual_capacity once queue_init and queue_reserved have run.     *)
Capacity == IF Reserved < MIN_QUEUE_CAPACITY THEN MIN_QUEUE_CAPACITY ELSE Reserved

ASSUME QueueAssumption ==
  /\ NoEvent \notin Event
  /\ Reserved \in Nat
  /\ UintSize \in Nat
  /\ 2 * Capacity < UintSize

(* The two nodes of queue_init and the Capacity nodes of queue_reserved,   *)
(* numbered along the ring from the node that is the head at first.        *)
NodeCount == Capacity + 2
Node == 0 .. NodeCount - 1

(* The node k links after n, and the link itself (_nxt_node). *)
At(n, k) == IF n + k < NodeCount THEN n + k ELSE n + k - NodeCount
Nxt(n) == At(n, 1)

VARIABLES
  data,       (* _data of each node                                        *)
  head,       (* _queue_head                                               *)
  tail,       (* _queue_tail                                               *)
  add,        (* _queue_size._add_ref                                      *)
  sub,        (* _queue_size._sub_ref                                      *)
  pcP,        (* where the producer is in queue_push_without_alloc         *)
  pending,    (* its argument                                              *)
  pcC,        (* where the consumer is in thread_run and in the pop        *)
  dbgInfo     (* the consumer's dbg_info                                   *)

producerVars == <<tail, add, pcP, pending>>
consumerVars == <<head, sub, pcC, dbgInfo>>
vars == <<data, producerVars, consumerVars>>

PtrOrNull == Event \cup {NoEvent}
Uint == 0 .. UintSize - 1

(* unsigned arithmetic, and QINT_VALUE with its cast to signed int *)
UintInc(u) == IF u = UintSize - 1 THEN 0 ELSE u + 1
UintDiff(a, s) == IF a >= s THEN a - s ELSE a - s + UintSize
QintValue(a, s) ==
  IF 2 * UintDiff(a, s) < UintSize THEN UintDiff(a, s) ELSE UintDiff(a, s) - UintSize

Size == QintValue(add, sub)
-----------------------------------------------------------------------------
(* queue_init mallocs its two nodes without clearing them: what they hold  *)
(* is whatever was there.  queue_reserved clears the nodes it adds, links  *)
(* them between the two and makes the last of them the head: the old tail  *)
(* is the node after the head, and the old head the one after the tail.    *)
Init ==
  /\ \E garbage \in [{1, 2} -> PtrOrNull] :
       data = [n \in Node |-> IF n \in {1, 2} THEN garbage[n] ELSE NoEvent]
  /\ head = 0
  /\ tail = 1
  /\ add = 0
  /\ sub = 0
  /\ pcP = "idle"
  /\ pending = NoEvent
  /\ pcC = "idle"
  /\ dbgInfo = NoEvent

(* dispatch_dbg_info calls queue_push_without_alloc *)
PushCall(e) ==
  /\ pcP = "idle"
  /\ pcP' = "test"
  /\ pending' = e
  /\ UNCHANGED <<data, tail, add, consumerVars>>

(* the while condition: with no room the producer logs, sleeps, tests again. *)
(* The header says otherwise: "when the queue full, return immediately with *)
(* QUEUE_NO_ROOM" (queue.h:102); the code returns nothing but SUCCESS.     *)
PushSleep ==
  /\ pcP = "test"
  /\ Size >= Capacity
  /\ pcP' = "sleep"
  /\ UNCHANGED <<data, tail, add, pending, consumerVars>>

PushWake ==
  /\ pcP = "sleep"
  /\ pcP' = "test"
  /\ UNCHANGED <<data, tail, add, pending, consumerVars>>

PushTestOneTooMany ==           \* mutant: > for >= in the test for room
  /\ pcP = "test"
  /\ Size <= Capacity
  /\ pcP' = "write"
  /\ UNCHANGED <<data, tail, add, pending, consumerVars>>

PushTest ==
  /\ pcP = "test"
  /\ Size < Capacity
  /\ pcP' = "write"
  /\ UNCHANGED <<data, tail, add, pending, consumerVars>>

PushWrite ==
  /\ pcP = "write"
  /\ data' = [data EXCEPT ![Nxt(tail)] = pending]
  /\ pcP' = "advance"
  /\ UNCHANGED <<tail, add, pending, consumerVars>>

PushAdvanceForgotten ==         \* mutant: the tail stays where it is
  /\ pcP = "advance"
  /\ pcP' = "publish"
  /\ UNCHANGED <<data, tail, add, pending, consumerVars>>

PushAdvance ==
  /\ pcP = "advance"
  /\ tail' = Nxt(tail)
  /\ pcP' = "publish"
  /\ UNCHANGED <<data, add, pending, consumerVars>>

(* QINT_ADD makes the event visible to the consumer; the push returns      *)
PushPublish ==
  /\ pcP = "publish"
  /\ add' = UintInc(add)
  /\ pcP' = "idle"
  /\ pending' = NoEvent
  /\ UNCHANGED <<data, tail, consumerVars>>
-----------------------------------------------------------------------------
PopTestNonNegative ==           \* mutant: >= for > in the test for an event
  /\ pcC = "idle"
  /\ Size >= 0
  /\ pcC' = "read"
  /\ UNCHANGED <<data, head, sub, dbgInfo, producerVars>>

PopTestLeavesLast ==            \* mutant: the last event is left in the queue
  /\ pcC = "idle"
  /\ Size > 1
  /\ pcC' = "read"
  /\ UNCHANGED <<data, head, sub, dbgInfo, producerVars>>

(* an empty queue leaves dbg_info NULL: thread_run sleeps and tries again, *)
(* which changes nothing                                                   *)
PopTest ==
  /\ pcC = "idle"
  /\ Size > 0
  /\ pcC' = "read"
  /\ UNCHANGED <<data, head, sub, dbgInfo, producerVars>>

PopRead ==
  /\ pcC = "read"
  /\ dbgInfo' = data[Nxt(Nxt(head))]
  /\ pcC' = "clear"
  /\ UNCHANGED <<data, head, sub, producerVars>>

PopClear ==
  /\ pcC = "clear"
  /\ data' = [data EXCEPT ![Nxt(Nxt(head))] = NoEvent]
  /\ pcC' = "advance"
  /\ UNCHANGED <<head, sub, dbgInfo, producerVars>>

PopAdvance ==
  /\ pcC = "advance"
  /\ head' = Nxt(head)
  /\ pcC' = "consume"
  /\ UNCHANGED <<data, sub, dbgInfo, producerVars>>

PopConsumeKeepsNode ==          \* mutant: the node is not given back
  /\ pcC = "consume"
  /\ pcC' = IF dbgInfo # NoEvent THEN "handle" ELSE "idle"
  /\ UNCHANGED <<data, head, sub, dbgInfo, producerVars>>

(* QINT_SUB gives the node back to the producer; a NULL dbg_info is not    *)
(* handled                                                                 *)
PopConsume ==
  /\ pcC = "consume"
  /\ sub' = UintInc(sub)
  /\ pcC' = IF dbgInfo # NoEvent THEN "handle" ELSE "idle"
  /\ UNCHANGED <<data, head, dbgInfo, producerVars>>

(* handle_dbg_info, which frees the record *)
Handle ==
  /\ pcC = "handle"
  /\ dbgInfo' = NoEvent
  /\ pcC' = "idle"
  /\ UNCHANGED <<data, head, sub, producerVars>>
-----------------------------------------------------------------------------
(* what a producer inside the push may do next, and the whole consumer     *)
PushStep == PushSleep \/ PushWake \/ PushTest \/ PushWrite \/ PushAdvance \/ PushPublish
PopStep == PopTest \/ PopRead \/ PopClear \/ PopAdvance \/ PopConsume \/ Handle

Next ==
  \/ \E e \in Event : PushCall(e)
  \/ PushStep
  \/ PopStep

Spec == Init /\ [][Next]_vars

(* Both threads are scheduled; nothing makes the program call the push.    *)
FairSpec == Spec /\ WF_vars(PushStep) /\ WF_vars(PopStep)
-----------------------------------------------------------------------------
(* Every variable stays within its C type, and a thread is inside one call. *)
TypeOK ==
  /\ data \in [Node -> PtrOrNull]
  /\ head \in Node
  /\ tail \in Node
  /\ add \in Uint
  /\ sub \in Uint
  /\ pcP \in {"idle", "test", "sleep", "write", "advance", "publish"}
  /\ pending \in PtrOrNull
  /\ pcC \in {"idle", "read", "clear", "advance", "consume", "handle"}
  /\ dbgInfo \in PtrOrNull

(* How many data nodes the two pointers enclose.  It differs from the size *)
(* between a pointer update and the counter update that follows it.        *)
Enclosed ==
  Size + (IF pcP = "publish" THEN 1 ELSE 0) - (IF pcC = "consume" THEN 1 ELSE 0)

(* An event is in a thread's hands exactly while the code there needs it.  *)
LocalsOK ==
  /\ (pcP = "idle") <=> (pending = NoEvent)
  /\ pcC \in {"idle", "read"} => dbgInfo = NoEvent
  /\ pcC \in {"clear", "advance", "consume", "handle"} => dbgInfo \in Event

(* The signed size is within the ring whatever the counters wrapped to, and *)
(* a test made earlier still holds: only the other thread could spoil it.  *)
SizeOK ==
  /\ 0 <= Size /\ Size <= Capacity
  /\ pcP \in {"write", "advance", "publish"} => Size < Capacity
  /\ pcC \in {"read", "clear", "advance", "consume"} => 0 < Size

(* The pointers enclose the data, the node the producer has written but not *)
(* linked follows the tail, and every enclosed node holds an event but the *)
(* one the consumer has just cleared.                                      *)
RingOK ==
  /\ tail = At(head, Enclosed + 1)
  /\ pcP = "advance" => data[Nxt(tail)] = pending
  /\ pcP = "publish" => data[tail] = pending
  /\ pcC = "clear" => data[At(head, 2)] = dbgInfo
  /\ \A k \in 2 .. Enclosed + 1 :
       (k = 2 => pcC # "advance") => data[At(head, k)] \in Event

IInv == TypeOK /\ LocalsOK /\ SizeOK /\ RingOK

(* The consumer never receives a NULL from a queue it found non-empty      *)
(* (queue.c:177-180): the event would be neither handled nor freed.        *)
NoNullReceived == pcC \in {"clear", "advance", "consume"} => dbgInfo # NoEvent

(* The two threads never access the data of one node at the same time:     *)
(* queue.c:163 writes behind the tail, queue.c:180-181 reads and clears the *)
(* node after the sentinel, and the size test keeps them apart.            *)
NoDataRace ==
  pcP = "write" /\ pcC \in {"read", "clear"} => Nxt(tail) # Nxt(Nxt(head))
-----------------------------------------------------------------------------
(* The abstract queue: the events published and not yet read by the        *)
(* consumer.  The read (queue.c:180) is the step that takes an event out.  *)
Taken == pcC \in {"clear", "advance", "consume"}
FirstUnread == IF pcC \in {"clear", "advance"} THEN 3 ELSE 2
Unread == IF Taken THEN Size - 1 ELSE Size
InTransit == [k \in 1 .. Unread |-> data[At(head, FirstUnread + k - 1)]]

Fifo == INSTANCE FifoQueue WITH offered <- pending, buf <- InTransit, held <- dbgInfo

(* The ring implements the bounded FIFO queue: nothing lost, duplicated,   *)
(* reordered or overwritten between queue_push_without_alloc and thread_run, *)
(* and a full queue holds the producer up.  That last part is what the code *)
(* does (queue.c:149-161) and not what queue.h:102 says of it, a return    *)
(* with QUEUE_NO_ROOM, after which its caller would lose the event.        *)
FifoRefinement == Fifo!FifoSpec

(* A push that has begun returns, also when the queue was full: thread_run *)
(* keeps making room (queue.c:149-161 waits for it; queue.h:102 has it      *)
(* return at once, without the event).                                     *)
PushReturns == (pcP # "idle") ~> (pcP = "idle")

(* An event in the queue makes thread_run, which polls (lua50_profiler.c:  *)
(* 948-960), handle one; with the order of the queue, each event's turn    *)
(* comes.                                                                  *)
EventsReachConsumer == (Size > 0) ~> (pcC = "handle")
=============================================================================
