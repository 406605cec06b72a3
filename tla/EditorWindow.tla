---------------------------- MODULE EditorWindow ----------------------------
(***************************************************************************)
(* The way of a profiler message through the editor                        *)
(* (LuaProfilerWindow.cs:29-141, 580-677).                                 *)
(*                                                                         *)
(* The thread of the network tick puts it in sessionMsgList; Update, on    *)
(* the main thread, moves the list to jsonStrPool when the worker is not   *)
(* running; the worker makes one result of all the pool holds and hands it *)
(* over in SessionJsonObj, the only part with a lock.                      *)
(*                                                                         *)
(* Neither list is locked.  raced records that two threads met: a message  *)
(* came between AddRange and Clear of the list, AddRange found the worker  *)
(* awake after all, or the worker stored a result before the one taken was *)
(* returned.                                                               *)
(***************************************************************************)
EXTENDS PacketStream

CONSTANT Profiler               (* the writer whose packets are messages     *)

ASSUME ProfilerAssumption == Profiler \in Writer

VARIABLES
  sessionMsgList, jsonStrPool,
  main,         (* how far Update has come                                  *)
  worker,       (* how far HandleMsgAsyn has come                           *)
  batch,        (* what the worker made its result of                       *)
  result, readerFlag,   (* SessionJsonObj                                   *)
  shown,        (* the children of callStats                                *)
  received,     (* history: the messages executed                           *)
  raced

windowVars == <<sessionMsgList, jsonStrPool, main, worker, batch, result, readerFlag, shown, received, raced>>
vars == <<streamVars, windowVars>>

Init ==
  /\ StreamInit
  /\ sessionMsgList = <<>> /\ jsonStrPool = <<>>
  /\ main = "idle" /\ worker = "asleep"
  /\ batch = <<>> /\ result = <<>> /\ readerFlag = FALSE
  /\ shown = <<>> /\ received = <<>> /\ raced = FALSE

(* ThreadState.WaitSleepJoin: in Sleep or in Monitor.Wait *)
WorkerWaits == worker \in {"asleep", "waiting"}
-----------------------------------------------------------------------------
(* Tick_ReceivingData, for a message with NetHandle_SendLuaProfilerMsg *)
Receive ==
  /\ ReadBody
  /\ IF reading[1].by = Profiler
     THEN /\ sessionMsgList' = Append(sessionMsgList, Last(got'))
          /\ received' = Append(received, Last(got'))
          /\ raced' = (raced \/ main = "clear")
     ELSE UNCHANGED <<sessionMsgList, received, raced>>
  /\ UNCHANGED <<jsonStrPool, main, worker, batch, result, readerFlag, shown>>

UpdateOnlyAsleep ==             \* mutant: a worker in Monitor.Wait counts as busy, and all is put off
  /\ main = "idle" /\ sessionMsgList # <<>> /\ worker = "asleep"
  /\ main' = "accept"
  /\ UNCHANGED <<streamVars, sessionMsgList, jsonStrPool, worker, batch, result, readerFlag, shown, received, raced>>

(* Update: nothing is done without a new message, ... *)
Update ==
  /\ main = "idle" /\ sessionMsgList # <<>>
  /\ main' = IF WorkerWaits THEN "accept" ELSE "show"
  /\ UNCHANGED <<streamVars, sessionMsgList, jsonStrPool, worker, batch, result, readerFlag, shown, received, raced>>

(* ... AcceptJson; a worker that is reading the pool ends with an exception, *)
AcceptJson ==
  /\ main = "accept"
  /\ jsonStrPool' = jsonStrPool \o sessionMsgList
  /\ worker' = IF worker = "reading" THEN "dead" ELSE worker
  /\ raced' = (raced \/ ~WorkerWaits)
  /\ main' = "clear"
  /\ UNCHANGED <<streamVars, sessionMsgList, batch, result, readerFlag, shown, received>>

(* ... Clear, *)
ClearList ==
  /\ main = "clear"
  /\ sessionMsgList' = <<>>
  /\ main' = "show"
  /\ UNCHANGED <<streamVars, jsonStrPool, worker, batch, result, readerFlag, shown, received, raced>>

(* ... and, if there is a result, the locked part of readResovleJsonResult. *)
ReadResult ==
  /\ main = "show"
  /\ main' = IF readerFlag THEN "take" ELSE "idle"
  /\ readerFlag' = FALSE
  /\ UNCHANGED <<streamVars, sessionMsgList, jsonStrPool, worker, batch, result, shown, received, raced>>

(* It returns the result after it has let go of the lock. *)
TakeResult ==
  /\ main = "take"
  /\ shown' = shown \o result
  /\ main' = "idle"
  /\ UNCHANGED <<streamVars, sessionMsgList, jsonStrPool, worker, batch, result, readerFlag, received, raced>>

(* HandleMsgAsyn, awake with something in the pool, *)
WorkerWakes ==
  /\ worker = "asleep" /\ jsonStrPool # <<>>
  /\ worker' = "reading"
  /\ UNCHANGED <<streamVars, sessionMsgList, jsonStrPool, main, batch, result, readerFlag, shown, received, raced>>

(* ... joins the messages, *)
WorkerJoins ==
  /\ worker = "reading"
  /\ batch' = jsonStrPool
  /\ worker' = "clearing"
  /\ UNCHANGED <<streamVars, sessionMsgList, jsonStrPool, main, result, readerFlag, shown, received, raced>>

(* ... clears the pool and makes the result, *)
WorkerClears ==
  /\ worker = "clearing"
  /\ jsonStrPool' = <<>>
  /\ worker' = "writing"
  /\ UNCHANGED <<streamVars, sessionMsgList, main, batch, result, readerFlag, shown, received, raced>>

(* ... waits in writeResovleJsonResult while the one before is not read, *)
WorkerBlocks ==
  /\ worker = "writing" /\ readerFlag
  /\ worker' = "waiting"
  /\ UNCHANGED <<streamVars, sessionMsgList, jsonStrPool, main, batch, result, readerFlag, shown, received, raced>>

WorkerStoresAnyway ==           \* mutant: it does not wait
  /\ worker \in {"writing", "waiting"}
  /\ result' = batch /\ readerFlag' = TRUE
  /\ raced' = (raced \/ main = "take")
  /\ worker' = "asleep"
  /\ UNCHANGED <<streamVars, sessionMsgList, jsonStrPool, main, batch, shown, received>>

(* ... and stores the result: at once, or when ReadResult has pulsed. *)
WorkerStores ==
  /\ worker \in {"writing", "waiting"} /\ ~readerFlag
  /\ result' = batch /\ readerFlag' = TRUE
  /\ raced' = (raced \/ main = "take")
  /\ worker' = "asleep"
  /\ UNCHANGED <<streamVars, sessionMsgList, jsonStrPool, main, batch, shown, received>>

Game == \E w \in Writer : SendLength(w) \/ SendBody(w)
MainThread == Update \/ AcceptJson \/ ClearList \/ ReadResult \/ TakeResult
WorkerThread == WorkerWakes \/ WorkerJoins \/ WorkerClears \/ WorkerBlocks \/ WorkerStores

Next ==
  \/ (Game \/ Arrive \/ ReadLength \/ ReadPartOfLength) /\ UNCHANGED windowVars
  \/ Receive
  \/ MainThread \/ WorkerThread

(* Update is called again and again and the worker runs; the game and the  *)
(* network need do nothing.                                                *)
Spec == Init /\ [][Next]_vars /\ WF_vars(MainThread) /\ WF_vars(WorkerThread)
-----------------------------------------------------------------------------
TypeOK ==
  /\ begun \in [Writer -> Nat] /\ sending \in [Writer -> Seq(Packet)] /\ lock \in Seq(Writer)
  /\ Len(lock) <= 1 /\ \A w \in Writer : sending[w] # <<>> <=> lock = <<w>>
  /\ {sent, got, reading, received, sessionMsgList, jsonStrPool, batch, result, shown}
        \subseteq Seq(Packet)
  /\ stream \in Seq({"length", "body", "rest"} \X Packet)
  /\ arrived \in 0 .. Len(stream) /\ Len(reading) <= 1
  /\ main \in {"idle", "accept", "clear", "show", "take"}
  /\ worker \in {"asleep", "reading", "clearing", "writing", "waiting", "dead"}
  /\ readerFlag \in BOOLEAN /\ raced \in BOOLEAN /\ torn \in BOOLEAN

(* Unless threads met, each message received is in one place on its way,   *)
(* and those behind it came later: none is lost, shown twice or out of     *)
(* order, also while the worker waits with a result                        *)
(* (LuaProfilerWindow.cs:105-141, 594-676).                                *)
MessagesAccounted ==
  ~raced =>
    received =
      shown
      \o (IF readerFlag \/ main = "take" THEN result ELSE <<>>)
      \o (IF worker \in {"writing", "waiting"} THEN batch ELSE <<>>)
      \o jsonStrPool
      \o (IF main = "clear" THEN <<>> ELSE sessionMsgList)

(* The stations of a message and the threads between them are in order     *)
(* (UsNet.cs:136-148, LuaProfilerWindow.cs:105-141, 594-676).              *)
WindowConsistent == TypeOK /\ MessagesAccounted

(* Update always gets rid of the list, although it may find the worker     *)
(* busy or waiting for Update itself (LuaProfilerWindow.cs:117-124).       *)
ListIsTaken == sessionMsgList # <<>> ~> sessionMsgList = <<>> \/ worker = "dead"

(* A result that is ready when a message comes is shown, and a worker that *)
(* waits for that goes on (LuaProfilerWindow.cs:126-137, 653-676).         *)
ResultIsShown ==
  /\ readerFlag /\ sessionMsgList # <<>> ~> main = "take"
  /\ worker = "waiting" /\ sessionMsgList # <<>> ~> worker = "asleep"

(* While messages come neither thread waits for the other for ever.        *)
NobodyStalls == ListIsTaken /\ ResultIsShown
=============================================================================
