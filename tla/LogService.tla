----------------------------- MODULE LogService -----------------------------
(***************************************************************************)
(* LogService.cs: the messages of the program are gathered in memory and   *)
(* written to a file; a message with the content of the one before is only *)
(* counted.                                                                *)
(*                                                                         *)
(* Unity calls OnLogReceived on the thread that logs.  _reentranceGuard    *)
(* refuses a message that comes while another is handled, but it is tested *)
(* and set in two steps, and a flush neither looks at it nor sets it.  A   *)
(* write to the file may fail (the catch block, LogService.cs:299-302).    *)
(* Once two threads are inside together, or a write that failed has left a *)
(* part of its lines in the file, nothing is said of the service any more  *)
(* (astray).  What OnLogReceived throws ends in Unity.                     *)
(***************************************************************************)
EXTENDS Integers, Sequences, SequencesExt

CONSTANTS
  Thread,       (* the threads that log                                     *)
  Main,         (* the one that also disposes                               *)
  Message,      (* [content, urgent, size]; urgent is LogType.Error         *)
  Farewell,     (* the message Dispose logs                                 *)
  BufSize,      (* LogBuffer.BufSize                                        *)
  NoContent,    (* null                                                     *)
  MaxLogged     (* bound: messages handled                                  *)

ASSUME LogAssumption ==
  /\ Main \in Thread
  /\ Farewell \in Message
  /\ BufSize \in Nat \ {0} /\ MaxLogged \in Nat
  /\ \A m \in Message : /\ m.urgent \in BOOLEAN /\ m.size \in Nat
                        /\ m.content # NoContent

VARIABLES
  out,          (* the file, _useMemBuf, _memBuf, _foldedCount and          *)
                (* _lastWrittenContent                                      *)
  writer,       (* _logWriter: "open", "none" or "closed"                   *)
  guard,        (* _reentranceGuard                                         *)
  pc,           (* of each thread: how far it has come in OnLogReceived     *)
  exiting,      (* how far Dispose has come; "yes" is _disposed             *)
  logged,       (* history: the messages handled without a failing write,   *)
                (* before the writer closed                                 *)
  stranded,     (* history: the buffer was turned off with messages in it   *)
  astray        (* history: two threads were inside together, or a write    *)
                (* failed half-way                                          *)

vars == <<out, writer, guard, pc, exiting, logged, stranded, astray>>

Idle == <<"idle">>
Checked(m) == <<"checked", m>>
Casting == <<"casting">>

(* A line of the file is a message, or says how often it was folded. *)
Line == [content : {m.content : m \in Message}, folded : {0}]
        \cup [content : {NoContent}, folded : Nat \ {0}]
LineOf(m) == [content |-> m.content, folded |-> 0]
FoldedLine(n) == [content |-> NoContent, folded |-> n]

Init ==
  /\ out = [file |-> <<>>, useMemBuf |-> TRUE, buf |-> <<>>, bytes |-> 0,
            folded |-> 0, last |-> NoContent]
  /\ writer \in {"open", "none"}
  /\ guard = FALSE
  /\ pc = [t \in Thread |-> Idle]
  /\ exiting = "no"
  /\ logged = <<>> /\ stranded = FALSE /\ astray = FALSE
-----------------------------------------------------------------------------
(* _logWriter.Write, if there is one *)
Written(o, lines) == IF writer = "open" THEN [o EXCEPT !.file = @ \o lines] ELSE o

FlushMemBufferNoClear(o) ==     \* mutant: the buffer is not cleared
  IF o.useMemBuf THEN Written(o, o.buf) ELSE o

FlushMemBuffer(o) ==
  IF o.useMemBuf THEN [Written(o, o.buf) EXCEPT !.buf = <<>>, !.bytes = 0] ELSE o

(* FlushFoldedMessage, which is all that FlushLogWriting does *)
FlushFolded(o) ==
  LET p == FlushMemBuffer(o)
  IN  IF o.folded > 0
      THEN [Written(p, <<FoldedLine(o.folded)>>) EXCEPT !.folded = 0] ELSE p

(* p is what FlushFolded leaves behind when a write fails: the buffer and  *)
(* the count are cleared only after they have been written.                *)
FlushBreaksOff(o, p) ==
  /\ writer = "open"
  /\ \/ o.useMemBuf /\ o.buf # <<>> /\ p = o
     \/ o.folded > 0 /\ p = FlushMemBuffer(o)

(* LogBuffer.Receive, after the flush WriteLog does if it fails *)
Receive(o, m) ==
  LET p == IF o.bytes + m.size > BufSize THEN FlushMemBuffer(o) ELSE o
  IN  [p EXCEPT !.buf = Append(@, LineOf(m)), !.bytes = @ + m.size]

WriteLogBuffersErrors(o, m) ==  \* mutant: an error is buffered as well
  IF o.useMemBuf /\ m.size <= BufSize
  THEN Receive(o, m)
  ELSE Written(FlushMemBuffer(o), <<LineOf(m)>>)

WriteLog(o, m) ==
  IF o.useMemBuf /\ ~m.urgent /\ m.size <= BufSize
  THEN Receive(o, m)
  ELSE Written(FlushMemBuffer(o), <<LineOf(m)>>)

ReceivedKeepsCount(o, m) ==     \* mutant: the count of the message before is not written
  IF m.content = o.last
  THEN [o EXCEPT !.folded = @ + 1]
  ELSE [WriteLog(FlushMemBuffer(o), m) EXCEPT !.last = m.content]

ReceivedNoFlush(o, m) ==        \* mutant: what is gathered stays
  IF m.content = o.last
  THEN [o EXCEPT !.folded = @ + 1]
  ELSE [WriteLog(o, m) EXCEPT !.last = m.content]

(* the try block of OnLogReceived up to the targets *)
Received(o, m) ==
  IF m.content = o.last
  THEN [o EXCEPT !.folded = @ + 1]
  ELSE [WriteLog(FlushFolded(o), m) EXCEPT !.last = m.content]

(* The same with a write that fails: _lastWrittenContent is not set.       *)
ReceiveBreaksOff(o, m, p) ==
  /\ m.content # o.last
  /\ \/ FlushBreaksOff(o, p)
     \/ /\ writer = "open" /\ (~o.useMemBuf \/ m.urgent \/ m.size > BufSize)
        /\ p = FlushFolded(o)
-----------------------------------------------------------------------------
(* OnLogReceived throws: _disposed, or another message is being handled. *)
Refuse(t) ==
  /\ pc[t] = Idle /\ ~astray
  /\ exiting = "yes" \/ guard
  /\ UNCHANGED vars

(* OnLogReceived has seen that neither is so. *)
Check(t, m) ==
  /\ pc[t] = Idle /\ ~astray /\ (t = Main => exiting = "no")
  /\ Len(logged) < MaxLogged
  /\ exiting # "yes" /\ ~guard
  /\ pc' = [pc EXCEPT ![t] = Checked(m)]
  /\ UNCHANGED <<out, writer, guard, exiting, logged, stranded, astray>>

(* It sets the guard and handles the message.  What it writes to a closed  *)
(* writer throws, and what it puts in the buffer then no one flushes.      *)
Handle(t, m) ==
  /\ pc[t] = Checked(m) /\ ~astray
  /\ \/ /\ guard
        /\ astray' = TRUE
        /\ UNCHANGED <<out, guard, pc, logged>>
     \/ /\ ~guard
        /\ guard' = TRUE
        /\ pc' = [pc EXCEPT ![t] = Casting]
        /\ IF writer = "closed" THEN UNCHANGED <<out, logged>>
           ELSE out' = Received(out, m) /\ logged' = Append(logged, m)
        /\ UNCHANGED astray
  /\ UNCHANGED <<writer, exiting, stranded>>

(* A write fails: the message is lost, and what was gathered stays, or a   *)
(* part of it is in the file and will be written again.                    *)
HandleFails(t, m) ==
  /\ pc[t] = Checked(m) /\ ~guard /\ ~astray
  /\ ReceiveBreaksOff(out, m, out')
  /\ guard' = TRUE
  /\ pc' = [pc EXCEPT ![t] = Casting]
  /\ astray' \in BOOLEAN
  /\ UNCHANGED <<writer, exiting, logged, stranded>>

(* The targets have been called, or one has thrown: the finally block. *)
Finish(t) ==
  /\ pc[t] = Casting /\ ~astray
  /\ guard' = FALSE
  /\ pc' = [pc EXCEPT ![t] = Idle]
  /\ UNCHANGED <<out, writer, exiting, logged, stranded, astray>>

(* A flush by the main thread of o, the service it finds: alone, ... *)
FlushAlone(o) ==
  /\ ~guard
  /\ out' = FlushFolded(o)
  /\ UNCHANGED astray

(* ... or with another thread inside already, or coming in before it ends. *)
FlushMeets ==
  /\ Thread # {Main}
  /\ astray' = TRUE
  /\ UNCHANGED out

Flush(o) ==
  /\ pc[Main] = Idle /\ exiting = "no" /\ ~astray
  /\ FlushAlone(o) \/ FlushMeets
  /\ UNCHANGED <<writer, guard, pc, logged>>

(* A write of the flush fails, which its caller is told.                   *)
FlushFails(o) ==
  /\ pc[Main] = Idle /\ exiting = "no" /\ ~guard /\ ~astray
  /\ FlushBreaksOff(o, out')
  /\ astray' \in BOOLEAN
  /\ UNCHANGED <<writer, guard, pc, logged>>

(* A Dispose whose flush fails gets no further than this, either.          *)
FlushLogWriting ==
  /\ Flush(out) \/ FlushFails(out)
  /\ UNCHANGED <<exiting, stranded>>

(* The setter of UseMemBuf: the flush finds the new value already. *)
SetUseMemBuf ==
  /\ LET o == [out EXCEPT !.useMemBuf = ~@] IN Flush(o) \/ FlushFails(o)
  /\ stranded' = (stranded \/ (out.useMemBuf /\ out.buf # <<>>))
  /\ UNCHANGED exiting

DisposeNoFlush ==               \* mutant: Dispose closes what it has not flushed
  /\ pc[Main] = Idle /\ exiting = "no" /\ ~astray
  /\ exiting' = "flushed"
  /\ UNCHANGED <<out, astray, writer, guard, pc, logged, stranded>>

(* Dispose flushes, ... *)
Dispose == Flush(out) /\ exiting' = "flushed" /\ UNCHANGED stranded

(* ... logs its farewell, which OnLogReceived treats like any message, ...  *)
DisposeLogs ==
  /\ exiting = "flushed" /\ pc[Main] = Idle /\ ~astray
  /\ IF guard THEN UNCHANGED pc
     ELSE pc' = [pc EXCEPT ![Main] = Checked(Farewell)]
  /\ exiting' = "logged"
  /\ UNCHANGED <<out, writer, guard, logged, stranded, astray>>

(* ... and closes the writer; only then _disposed is set. *)
DisposeCloses ==
  /\ exiting = "logged" /\ pc[Main] = Idle /\ ~astray
  /\ writer' = IF writer = "open" THEN "closed" ELSE writer
  /\ exiting' = "closed"
  /\ UNCHANGED <<out, guard, pc, logged, stranded, astray>>

DisposeEnds ==
  /\ exiting = "closed" /\ ~astray
  /\ exiting' = "yes"
  /\ UNCHANGED <<out, writer, guard, pc, logged, stranded, astray>>

Next ==
  \/ \E t \in Thread : \/ Refuse(t) \/ Finish(t)
                       \/ \E m \in Message : Check(t, m) \/ Handle(t, m) \/ HandleFails(t, m)
  \/ FlushLogWriting \/ SetUseMemBuf
  \/ Dispose \/ DisposeLogs \/ DisposeCloses \/ DisposeEnds

Spec == Init /\ [][Next]_vars
-----------------------------------------------------------------------------
TypeOK ==
  /\ out \in [file : Seq(Line), useMemBuf : BOOLEAN, buf : Seq(Line), bytes : Nat, folded : Nat,
              last : {NoContent} \cup {m.content : m \in Message}]
  /\ writer \in {"open", "none", "closed"}
  /\ pc \in [Thread -> {Idle, Casting} \cup {Checked(m) : m \in Message}]
  /\ exiting \in {"no", "flushed", "logged", "closed", "yes"}
  /\ logged \in Seq(Message)
  /\ guard \in BOOLEAN /\ (guard <=> \E t \in Thread : pc[t] = Casting)
  /\ stranded \in BOOLEAN /\ astray \in BOOLEAN

(* The file is never more than one message behind, with its repetitions:   *)
(* OnLogReceived flushes before each message with new content, so that the *)
(* buffer does not fill up and WriteLog finds room (LogService.cs:178-184, *)
(* 271-281).                                                               *)
OneWaits == Len(out.buf) <= 1 /\ out.bytes <= BufSize

(* Guard and buffer are in order whatever threads, flushes and switches do *)
(* (LogService.cs:121-137, 233-292).                                       *)
BufferConsistent == TypeOK /\ OneWaits

(* What a reader takes from lines: a folded line repeats the one before.    *)
Repeated(told, n) == told \o [i \in 1 .. n |-> Last(told)]
Reading(told, l) == IF l.folded = 0 THEN Append(told, l.content) ELSE Repeated(told, l.folded)

Told(lines) ==
  LET told[i \in 0 .. Len(lines)] == IF i = 0 THEN <<>> ELSE Reading(told[i - 1], lines[i])
  IN  told[Len(lines)]

Contents == [i \in DOMAIN logged |-> logged[i].content]

(* File, buffer and count together tell what was logged, in its order, as  *)
(* long as the buffer was not turned off with messages in it; the farewell *)
(* and what is logged beside it stay in the buffer                         *)
(* (LogService.cs:145-196, 233-334).                                       *)
LogComplete ==
  writer # "none" /\ ~stranded => Repeated(Told(out.file \o out.buf), out.folded) = Contents

Weight(l) == IF l.folded = 0 THEN 1 ELSE l.folded
Count(lines) ==
  LET count[i \in 0 .. Len(lines)] == IF i = 0 THEN 0 ELSE count[i - 1] + Weight(lines[i])
  IN  count[Len(lines)]

(* Turning the buffer off and on may put messages out of order, but none   *)
(* is dropped or written twice (LogService.cs:121-125, 309-319).           *)
NothingVanishes ==
  writer # "none" => Count(out.file) + Count(out.buf) + out.folded = Len(logged)

(* What Dispose found logged is in the file when the writer is closed; it  *)
(* is lost only with a buffer turned off (LogService.cs:127-137).          *)
DisposeKeeps ==
  [][exiting = "no" /\ exiting' = "flushed" /\ writer = "open" /\ out'.useMemBuf /\ ~astray'
       => Count(out'.file) = Len(logged)]_vars

E == INSTANCE EventLog
       WITH told <- IF stranded \/ writer = "none" THEN 0 ELSE Len(Told(out.file)),
            waived <- stranded \/ writer = "none"

(* At every moment the file tells a beginning of the log, and everything   *)
(* once an error has been logged that does not repeat the message before   *)
(* (LogService.cs:166-178).  A service without a file, or one that has     *)
(* turned a filled buffer off, promises nothing.                           *)
EventLogRefinement == E!Spec
=============================================================================
