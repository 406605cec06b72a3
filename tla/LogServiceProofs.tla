-------------------------- MODULE LogServiceProofs ---------------------------
(***************************************************************************)
(* Theorems about LogService, for any messages, any buffer and any number  *)
(* of threads: the buffer never holds more than one message; file, buffer  *)
(* and count tell what was logged; and the file does what EventLog says.   *)
(*                                                                         *)
(* Types and OneWaits become inductive with the fact that the guard lets   *)
(* one thread at most into OnLogReceived (IInv); what is told, with where  *)
(* the buffer is empty and what the next message is compared with (LInv).  *)
(* Told and Count are recursive functions; the lemmas say what a line      *)
(* appended does to them.                                                  *)
(***************************************************************************)
EXTENDS LogService, SequenceTheorems, WellFoundedInduction, TLAPS

Contents0 == {NoContent} \cup {m.content : m \in Message}

Out == [file : Seq(Line), useMemBuf : BOOLEAN, buf : Seq(Line), bytes : Nat, folded : Nat,
        last : Contents0]

Fits(o) == Len(o.buf) <= 1 /\ o.bytes <= BufSize

OneInside == \A t, u \in Thread : pc[t] = Casting /\ pc[u] = Casting => t = u

IInv == TypeOK /\ OneWaits /\ OneInside
-----------------------------------------------------------------------------
LEMMA LinesAreLines ==
  /\ \A m \in Message : LineOf(m) \in Line
  /\ \A n \in Nat : n > 0 => FoldedLine(n) \in Line
BY DEF LineOf, FoldedLine, Line

(* What is written goes to the file, or nowhere. *)
LEMMA WrittenFacts ==
  ASSUME NEW o \in Out, NEW lines \in Seq(Line)
  PROVE  /\ Written(o, lines) \in Out
         /\ Written(o, lines).buf = o.buf /\ Written(o, lines).bytes = o.bytes
         /\ Written(o, lines).useMemBuf = o.useMemBuf
         /\ Written(o, lines).folded = o.folded
<1>1. o.file \o lines \in Seq(Line)
  BY DEF Out
<1> QED
  BY <1>1 DEF Written, Out

(* A flush empties the buffer, if there is one. *)
LEMMA FlushMemBufferFacts ==
  ASSUME NEW o \in Out
  PROVE  LET p == FlushMemBuffer(o)
         IN  /\ p \in Out /\ p.useMemBuf = o.useMemBuf /\ p.folded = o.folded
             /\ o.useMemBuf => p.buf = <<>> /\ p.bytes = 0
             /\ ~o.useMemBuf => p.buf = o.buf /\ p.bytes = o.bytes
<1>1. o.buf \in Seq(Line)
  BY DEF Out
<1>2. Written(o, o.buf) \in Out /\ Written(o, o.buf).useMemBuf = o.useMemBuf /\ Written(o, o.buf).folded = o.folded
  BY <1>1, WrittenFacts
<1> DEFINE w == Written(o, o.buf)
<1>3. << >> \in Seq(Line)
  OBVIOUS
<1> HIDE DEF w
<1>4. LET p == [w EXCEPT !.buf = <<>>, !.bytes = 0]
      IN  w \in Out => p \in Out /\ p.useMemBuf = w.useMemBuf /\ p.folded = w.folded /\ p.buf = <<>> /\ p.bytes = 0
  BY <1>3 DEF Out
<1>5. FlushMemBuffer(o) = IF o.useMemBuf THEN [w EXCEPT !.buf = <<>>, !.bytes = 0] ELSE o
  BY DEF FlushMemBuffer, w
<1>6. w \in Out /\ w.useMemBuf = o.useMemBuf /\ w.folded = o.folded
  BY <1>2 DEF w
<1> QED
  BY <1>4, <1>5, <1>6

(* So does FlushFoldedMessage, which writes the count besides. *)
LEMMA FlushFoldedFacts ==
  ASSUME NEW o \in Out
  PROVE  LET p == FlushFolded(o)
         IN  /\ p \in Out /\ p.useMemBuf = o.useMemBuf
             /\ o.useMemBuf => p.buf = <<>> /\ p.bytes = 0
             /\ ~o.useMemBuf => p.buf = o.buf /\ p.bytes = o.bytes
<1> DEFINE p == FlushMemBuffer(o)
           w == Written(p, <<FoldedLine(o.folded)>>)
<1>1. /\ p \in Out /\ p.useMemBuf = o.useMemBuf
      /\ o.useMemBuf => p.buf = <<>> /\ p.bytes = 0
      /\ ~o.useMemBuf => p.buf = o.buf /\ p.bytes = o.bytes
  BY FlushMemBufferFacts
<1>2. CASE o.folded > 0
  <2>1. <<FoldedLine(o.folded)>> \in Seq(Line)
    BY <1>2, LinesAreLines DEF Out
  <2>2. w \in Out /\ w.buf = p.buf /\ w.bytes = p.bytes /\ w.useMemBuf = p.useMemBuf
    BY <1>1, <2>1, WrittenFacts
  <2>3. FlushFolded(o) = [w EXCEPT !.folded = 0]
    BY <1>2 DEF FlushFolded
  <2> HIDE DEF w, p
  <2>4. LET q == [w EXCEPT !.folded = 0]
        IN  q \in Out /\ q.buf = w.buf /\ q.bytes = w.bytes /\ q.useMemBuf = w.useMemBuf
    BY <2>2 DEF Out
  <2> QED
    BY <1>1, <2>2, <2>3, <2>4
<1>3. CASE ~(o.folded > 0)
  BY <1>1, <1>3 DEF FlushFolded
<1> QED
  BY <1>2, <1>3

(* WriteLog, which finds the buffer empty or out of use: the retry after a *)
(* flush is never needed.                                                  *)
LEMMA WriteLogFacts ==
  ASSUME NEW o \in Out, NEW m \in Message, Fits(o), o.useMemBuf => o.buf = <<>> /\ o.bytes = 0
  PROVE  WriteLog(o, m) \in Out /\ Fits(WriteLog(o, m))
<1>1. LineOf(m) \in Line /\ m.size \in Nat /\ BufSize \in Nat
  BY LinesAreLines, LogAssumption
<1>2. CASE o.useMemBuf /\ ~m.urgent /\ m.size <= BufSize
  <2>1. ~(o.bytes + m.size > BufSize)
    BY <1>1, <1>2
  <2> DEFINE b == Append(o.buf, LineOf(m))
             n == o.bytes + m.size
             q == [o EXCEPT !.buf = b, !.bytes = n]
  <2>2. WriteLog(o, m) = q
    BY <1>2, <2>1 DEF WriteLog, Receive
  <2>3. b \in Seq(Line) /\ Len(b) = 1
    BY <1>1, <1>2 DEF Out
  <2>4. n \in Nat /\ n <= BufSize
    BY <1>1, <1>2
  <2> HIDE DEF b, n
  <2>5. q \in Out
    BY <2>3, <2>4 DEF Out
  <2>6. q.buf = b /\ q.bytes = n
    BY DEF Out
  <2> HIDE DEF q
  <2>7. Len(q.buf) = 1
    BY <2>3, <2>6, Zenon
  <2>8. q.bytes <= BufSize
    BY <2>4, <2>6
  <2> QED
    BY <2>2, <2>5, <2>7, <2>8 DEF Fits
<1>3. CASE ~(o.useMemBuf /\ ~m.urgent /\ m.size <= BufSize)
  <2> DEFINE p == FlushMemBuffer(o)
  <2>1. p \in Out /\ ((p.buf = <<>> /\ p.bytes = 0) \/ (p.buf = o.buf /\ p.bytes = o.bytes))
    BY FlushMemBufferFacts DEF Out
  <2>2. Fits(p)
    BY <2>1, <1>1 DEF Fits
  <2>3. <<LineOf(m)>> \in Seq(Line)
    BY <1>1
  <2>4. WriteLog(o, m) = Written(p, <<LineOf(m)>>)
    BY <1>3 DEF WriteLog
  <2> HIDE DEF p
  <2>5. Written(p, <<LineOf(m)>>) \in Out /\ Fits(Written(p, <<LineOf(m)>>))
    BY <2>1, <2>2, <2>3, WrittenFacts DEF Fits
  <2> QED
    BY <2>4, <2>5
<1> QED
  BY <1>2, <1>3

LEMMA ReceivedFacts ==
  ASSUME NEW o \in Out, NEW m \in Message, Fits(o)
  PROVE  Received(o, m) \in Out /\ Fits(Received(o, m))
<1>1. m.content \in Contents0 /\ 0 <= BufSize
  BY LogAssumption DEF Contents0
<1>2. CASE m.content = o.last
  <2>1. Received(o, m) = [o EXCEPT !.folded = @ + 1]
    BY <1>2 DEF Received
  <2> QED
    BY <2>1 DEF Out, Fits
<1>3. CASE m.content # o.last
  <2> DEFINE p == FlushFolded(o)
             w == WriteLog(p, m)
  <2>1. p \in Out /\ Fits(p) /\ (p.useMemBuf => p.buf = <<>> /\ p.bytes = 0)
    BY <1>1, FlushFoldedFacts DEF Fits
  <2>2. w \in Out /\ Fits(w)
    BY <2>1, WriteLogFacts
  <2>3. Received(o, m) = [w EXCEPT !.last = m.content]
    BY <1>3 DEF Received
  <2> HIDE DEF w
  <2> QED
    BY <1>1, <2>2, <2>3 DEF Out, Fits
<1> QED
  BY <1>2, <1>3
-----------------------------------------------------------------------------
LEMMA InitIInv == Init => IInv
<1> SUFFICES ASSUME Init PROVE IInv
  OBVIOUS
<1>1. out \in Out /\ Fits(out)
  BY LogAssumption DEF Init, Out, Contents0, Fits
<1>2. /\ writer \in {"open", "none", "closed"}
      /\ exiting \in {"no", "flushed", "logged", "closed", "yes"}
      /\ logged \in Seq(Message) /\ stranded \in BOOLEAN /\ astray \in BOOLEAN
  <2>1. << >> \in Seq(Message)
    OBVIOUS
  <2> QED
    BY <2>1 DEF Init
<1>3. /\ pc \in [Thread -> {Idle, Casting} \cup {Checked(m) : m \in Message}]
      /\ \A t \in Thread : pc[t] # Casting
      /\ guard = FALSE
  BY DEF Init, Idle, Casting
<1> QED
  BY <1>1, <1>2, <1>3 DEF IInv, TypeOK, OneWaits, OneInside, Out, Contents0, Fits

(* IInv with the service's record in one piece. *)
Others ==
  /\ writer \in {"open", "none", "closed"}
  /\ exiting \in {"no", "flushed", "logged", "closed", "yes"}
  /\ logged \in Seq(Message) /\ stranded \in BOOLEAN /\ astray \in BOOLEAN

Inside ==
  /\ pc \in [Thread -> {Idle, Casting} \cup {Checked(m) : m \in Message}]
  /\ guard \in BOOLEAN /\ (guard <=> \E t \in Thread : pc[t] = Casting)
  /\ OneInside

LEMMA IInvInParts == IInv <=> out \in Out /\ Fits(out) /\ Others /\ Inside
BY DEF IInv, TypeOK, OneWaits, Out, Contents0, Fits, Others, Inside

(* A thread that goes on without being inside keeps the guard as it is. *)
LEMMA StepsOutside ==
  ASSUME Inside, NEW t \in Thread, pc[t] # Casting, UNCHANGED guard,
         NEW s \in {Idle} \cup {Checked(m) : m \in Message}, pc' = [pc EXCEPT ![t] = s]
  PROVE  Inside'
<1>1. s # Casting
  BY DEF Idle, Casting, Checked
<1>2. pc' \in [Thread -> {Idle, Casting} \cup {Checked(m) : m \in Message}]
  BY DEF Inside
<1>3. \A u \in Thread : pc'[u] = Casting <=> pc[u] = Casting
  BY <1>1 DEF Inside
<1> QED
  BY <1>2, <1>3 DEF Inside, OneInside

(* What a flush that breaks off leaves behind. *)
Left(o, p) == p = o \/ p = FlushMemBuffer(o) \/ p = FlushFolded(o)

LEMMA LeftFits ==
  ASSUME NEW o \in Out, Fits(o), NEW p, Left(o, p)
  PROVE  p \in Out /\ Fits(p)
<1>1. FlushMemBuffer(o) \in Out /\ Fits(FlushMemBuffer(o))
  BY FlushMemBufferFacts, LogAssumption DEF Fits
<1>2. FlushFolded(o) \in Out /\ Fits(FlushFolded(o))
  BY FlushFoldedFacts, LogAssumption DEF Fits
<1> QED
  BY <1>1, <1>2 DEF Left

LEMMA BrokenOffIsLeft ==
  ASSUME NEW o, NEW p
  PROVE  /\ FlushBreaksOff(o, p) => writer = "open" /\ Left(o, p)
         /\ \A m \in Message : ReceiveBreaksOff(o, m, p) => writer = "open" /\ Left(o, p)
BY DEF FlushBreaksOff, ReceiveBreaksOff, Left

LEMMA FlushKeeps ==
  ASSUME NEW o \in Out, Fits(o), Others, Inside, out \in Out, Fits(out), Flush(o) \/ FlushFails(o)
  PROVE  /\ out' \in Out /\ Fits(out') /\ Inside'
         /\ astray' \in BOOLEAN /\ UNCHANGED <<writer, logged>>
<1>1. CASE Flush(o)
  <2>1. FlushFolded(o) \in Out /\ Fits(FlushFolded(o))
    BY FlushFoldedFacts, LogAssumption DEF Fits
  <2>2. out' \in Out /\ Fits(out') /\ astray' \in BOOLEAN
    BY <1>1, <2>1 DEF Flush, FlushAlone, FlushMeets, Others
  <2> QED
    BY <1>1, <2>2 DEF Flush, Inside, OneInside
<1>2. CASE FlushFails(o)
  <2>1. Left(o, out')
    BY <1>2, BrokenOffIsLeft DEF FlushFails
  <2>2. out' \in Out /\ Fits(out')
    BY <2>1, LeftFits
  <2> QED
    BY <1>2, <2>2 DEF FlushFails, Inside, OneInside
<1> QED
  BY <1>1, <1>2

(* A thread that finds the guard free sets it and is the one inside. *)
LEMMA StepsInside ==
  ASSUME Inside, NEW t \in Thread, ~guard, guard' = TRUE, pc' = [pc EXCEPT ![t] = Casting]
  PROVE  Inside'
<1>1. \A u \in Thread : pc[u] # Casting
  BY DEF Inside
<1>2. /\ pc' \in [Thread -> {Idle, Casting} \cup {Checked(k) : k \in Message}]
      /\ \A u \in Thread : pc'[u] = Casting <=> u = t
  BY <1>1 DEF Inside
<1>3. OneInside'
  BY <1>2 DEF OneInside
<1>4. guard' \in BOOLEAN /\ (guard' <=> \E u \in Thread : pc'[u] = Casting)
  BY <1>2
<1> QED
  BY <1>2, <1>3, <1>4 DEF Inside

LEMMA ThreadKeeps ==
  ASSUME IInv, NEW t \in Thread,
         Refuse(t) \/ Finish(t) \/ \E m \in Message : Check(t, m) \/ Handle(t, m) \/ HandleFails(t, m)
  PROVE  IInv'
<1>1. out \in Out /\ Fits(out) /\ Others /\ Inside
  BY IInvInParts
<1>2. CASE Refuse(t)
  BY <1>2 DEF Refuse, vars, IInv, TypeOK, OneWaits, OneInside
<1>3. CASE Finish(t)
  <2>1. out' \in Out /\ Fits(out') /\ Others'
    BY <1>1, <1>3 DEF Finish, Others
  <2>2. /\ pc' \in [Thread -> {Idle, Casting} \cup {Checked(m) : m \in Message}]
        /\ \A u \in Thread : pc'[u] # Casting
    BY <1>1, <1>3 DEF Finish, Inside, OneInside, Idle, Casting
  <2>3. Inside'
    BY <1>3, <2>2 DEF Finish, Inside, OneInside
  <2> QED
    BY <2>1, <2>3, IInvInParts DEF IInv, TypeOK, OneWaits, Out, Contents0, Fits, Others, Inside
<1>4. CASE \E m \in Message : Check(t, m)
  <2> PICK m \in Message : Check(t, m)
    BY <1>4
  <2>1. pc[t] # Casting /\ UNCHANGED guard /\ pc' = [pc EXCEPT ![t] = Checked(m)]
    BY DEF Check, Idle, Casting
  <2>2. Inside'
    BY <1>1, <2>1, StepsOutside
  <2>3. out' \in Out /\ Fits(out') /\ Others'
    BY <1>1 DEF Check, Others
  <2> QED
    BY <2>2, <2>3 DEF IInv, TypeOK, OneWaits, Out, Contents0, Fits, Others, Inside
<1>5. CASE \E m \in Message : Handle(t, m)
  <2> PICK m \in Message : Handle(t, m)
    BY <1>5
  <2>1. Received(out, m) \in Out /\ Fits(Received(out, m))
    BY <1>1, ReceivedFacts
  <2>2. Append(logged, m) \in Seq(Message)
    BY <1>1 DEF Others
  <2>3. out' \in Out /\ Fits(out') /\ Others'
    BY <1>1, <2>1, <2>2 DEF Handle, Others
  <2>4. ASSUME guard PROVE Inside'
    <3>1. UNCHANGED <<guard, pc>>
      BY <2>4 DEF Handle
    <3> QED
      BY <1>1, <3>1 DEF Inside, OneInside
  <2>5. ASSUME ~guard PROVE Inside'
    <3>1. guard' = TRUE /\ pc' = [pc EXCEPT ![t] = Casting]
      BY <2>5 DEF Handle
    <3> QED
      BY <1>1, <2>5, <3>1, StepsInside
  <2>6. Inside'
    BY <2>4, <2>5
  <2> QED
    BY <2>3, <2>6 DEF IInv, TypeOK, OneWaits, Out, Contents0, Fits, Others, Inside
<1>6. CASE \E m \in Message : HandleFails(t, m)
  <2> PICK m \in Message : HandleFails(t, m)
    BY <1>6
  <2>1. Left(out, out')
    BY BrokenOffIsLeft DEF HandleFails
  <2>2. out' \in Out /\ Fits(out')
    BY <1>1, <2>1, LeftFits
  <2>3. Others'
    BY <1>1 DEF HandleFails, Others
  <2>4. ~guard /\ guard' = TRUE /\ pc' = [pc EXCEPT ![t] = Casting]
    BY DEF HandleFails
  <2>5. Inside'
    BY <1>1, <2>4, StepsInside
  <2> QED
    BY <2>2, <2>3, <2>5 DEF IInv, TypeOK, OneWaits, Out, Contents0, Fits, Others, Inside
<1> QED
  BY <1>2, <1>3, <1>4, <1>5, <1>6

LEMMA MainKeeps ==
  ASSUME IInv,
         \/ FlushLogWriting \/ SetUseMemBuf
         \/ Dispose \/ DisposeLogs \/ DisposeCloses \/ DisposeEnds
  PROVE  IInv'
<1>1. out \in Out /\ Fits(out) /\ Others /\ Inside
  BY IInvInParts
<1>2. SUFFICES out' \in Out /\ Fits(out') /\ Others' /\ Inside'
  BY <1>2 DEF IInv, TypeOK, OneWaits, Out, Contents0, Fits, Others, Inside
<1>3. CASE FlushLogWriting \/ Dispose
  <2>1. Flush(out) \/ FlushFails(out)
    BY <1>3 DEF FlushLogWriting, Dispose
  <2>2. out' \in Out /\ Fits(out') /\ Inside' /\ astray' \in BOOLEAN /\ UNCHANGED <<writer, logged>>
    BY <1>1, <2>1, FlushKeeps
  <2> QED
    BY <1>1, <1>3, <2>2 DEF FlushLogWriting, Dispose, Others
<1>4. CASE SetUseMemBuf
  <2> DEFINE o == [out EXCEPT !.useMemBuf = ~@]
  <2>1. o \in Out /\ Fits(o)
    BY <1>1 DEF Out, Fits
  <2>2. (Flush(o) \/ FlushFails(o)) /\ UNCHANGED exiting /\ stranded' \in BOOLEAN
    BY <1>1, <1>4 DEF SetUseMemBuf, Others, Out
  <2>3. out' \in Out /\ Fits(out') /\ Inside' /\ astray' \in BOOLEAN /\ UNCHANGED <<writer, logged>>
    BY <1>1, <2>1, <2>2, FlushKeeps
  <2> QED
    BY <1>1, <2>2, <2>3 DEF Others
<1>5. CASE DisposeLogs
  <2>1. out' \in Out /\ Fits(out') /\ Others'
    BY <1>1, <1>5 DEF DisposeLogs, Others
  <2>2. ASSUME guard PROVE Inside'
    <3>1. UNCHANGED <<guard, pc>>
      BY <1>5, <2>2 DEF DisposeLogs
    <3> QED
      BY <1>1, <3>1 DEF Inside, OneInside
  <2>3. ASSUME ~guard PROVE Inside'
    <3>1. pc[Main] # Casting /\ UNCHANGED guard /\ pc' = [pc EXCEPT ![Main] = Checked(Farewell)]
      BY <1>5, <2>3 DEF DisposeLogs, Idle, Casting
    <3>2. Checked(Farewell) \in {Idle} \cup {Checked(m) : m \in Message} /\ Main \in Thread
      BY LogAssumption
    <3> QED
      BY <1>1, <3>1, <3>2, StepsOutside
  <2> QED
    BY <2>1, <2>2, <2>3
<1>6. CASE DisposeCloses \/ DisposeEnds
  BY <1>1, <1>6 DEF DisposeCloses, DisposeEnds, Others, Inside, OneInside
<1> QED
  BY <1>3, <1>4, <1>5, <1>6

LEMMA NextIInv == IInv /\ [Next]_vars => IInv'
<1> SUFFICES ASSUME IInv, [Next]_vars PROVE IInv'
  OBVIOUS
<1>1. CASE \E t \in Thread : \/ Refuse(t) \/ Finish(t)
                              \/ \E m \in Message : Check(t, m) \/ Handle(t, m) \/ HandleFails(t, m)
  BY <1>1, ThreadKeeps
<1>2. CASE FlushLogWriting \/ SetUseMemBuf \/ Dispose \/ DisposeLogs \/ DisposeCloses \/ DisposeEnds
  BY <1>2, MainKeeps
<1>3. CASE UNCHANGED vars
  BY <1>3 DEF vars, IInv, TypeOK, OneWaits, OneInside
<1> QED
  BY <1>1, <1>2, <1>3 DEF Next
-----------------------------------------------------------------------------
(* Whatever threads log, flush, switch and dispose, and whatever the size  *)
(* of a message, the buffer holds one message at most and fits, and the    *)
(* guard is set exactly while a thread is inside (LogService.cs:121-137,   *)
(* 178-184, 233-292).                                                      *)
THEOREM LogBufferConsistent == Spec => []BufferConsistent
<1>1. IInv => BufferConsistent
  BY DEF IInv, BufferConsistent
<1> QED
  BY InitIInv, NextIInv, <1>1, PTL DEF Spec
-----------------------------------------------------------------------------
(* Induction over the numbers, for a set instead of an operator.           *)
LEMMA NatSetInduction ==
  ASSUME NEW T, 0 \in T, \A n \in Nat : n \in T => n + 1 \in T
  PROVE  \A n \in Nat : n \in T
<1> DEFINE U == {n \in Nat : n \notin T}
<1> SUFFICES ASSUME U # {} PROVE FALSE
  OBVIOUS
<1>1. U \subseteq Nat
  OBVIOUS
<1>2. PICK n \in U : \A m \in U : <<m, n>> \notin OpToRel(<, Nat)
  BY <1>1, NatLessThanWellFounded, WFMin
<1>3. \A m \in U : m \in Nat /\ n \in Nat /\ ~(m < n)
  BY <1>2 DEF OpToRel
<1>4. n \in Nat /\ n # 0
  OBVIOUS
<1>5. n - 1 \in Nat /\ n - 1 \notin U
  BY <1>3, <1>4
<1> QED
  BY <1>4, <1>5

(* The words a reader takes from a file; from one that begins with a       *)
(* folded line it also takes what precedes the first word, whatever that is. *)
Word == Contents0 \cup {Last(<<>>)}

LEMMA LastIsWord ==
  ASSUME NEW t \in Seq(Word)
  PROVE  Last(t) \in Word
<1>1. CASE t = <<>>
  BY <1>1 DEF Word
<1>2. CASE t # <<>>
  <2>1. Len(t) \in 1 .. Len(t)
    BY <1>2
  <2>2. t[Len(t)] \in Word
    BY <2>1, ElementOfSeq
  <2> QED
    BY <2>2 DEF Last
<1> QED
  BY <1>1, <1>2

(* Repetitions make a text longer and leave its last word. *)
LEMMA RepeatedFacts ==
  ASSUME NEW t \in Seq(Word), NEW n \in Nat
  PROVE  /\ Repeated(t, n) \in Seq(Word) /\ Len(Repeated(t, n)) = Len(t) + n
         /\ n = 0 => Repeated(t, n) = t
         /\ t # <<>> => Repeated(t, n) # <<>> /\ Last(Repeated(t, n)) = Last(t)
<1> DEFINE w == Last(t)
           r == [i \in 1 .. n |-> w]
<1>1. w \in Word
  BY LastIsWord
<1> HIDE DEF w
<1>2. r \in Seq(Word) /\ Len(r) = n /\ \A i \in 1 .. n : r[i] = w
  BY <1>1
<1>3. Repeated(t, n) = t \o r
  BY DEF Repeated, w
<1> HIDE DEF r
<1>4. /\ t \o r \in Seq(Word) /\ Len(t \o r) = Len(t) + n
      /\ \A i \in 1 .. Len(t) + n : (t \o r)[i] = IF i <= Len(t) THEN t[i] ELSE r[i - Len(t)]
  BY <1>2, ConcatProperties
<1>5. n = 0 => t \o r = t
  <2>1. n = 0 => r = <<>>
    BY <1>2, EmptySeq
  <2> QED
    BY <2>1, ConcatEmptySeq
<1>6. ASSUME t # <<>> PROVE t \o r # <<>> /\ Last(t \o r) = w
  <2>1. Len(t) \in Nat /\ Len(t) > 0
    BY <1>6, EmptySeq
  <2>2. Len(t) + n \in 1 .. Len(t) + n /\ Len(t) + n # 0
    BY <2>1
  <2>3. (t \o r)[Len(t) + n] = IF Len(t) + n <= Len(t) THEN t[Len(t) + n] ELSE r[Len(t) + n - Len(t)]
    BY <1>4, <2>2
  <2>4. CASE n = 0
    <3>1. (t \o r)[Len(t) + n] = t[Len(t)]
      BY <1>5, <2>1, <2>4
    <3> QED
      BY <1>4, <2>2, <3>1, EmptySeq DEF Last, w
  <2>5. CASE n # 0
    <3>1. ~(Len(t) + n <= Len(t)) /\ Len(t) + n - Len(t) = n /\ n \in 1 .. n
      BY <2>1, <2>5
    <3>2. (t \o r)[Len(t) + n] = w
      BY <1>2, <2>3, <3>1
    <3> QED
      BY <1>4, <2>2, <3>2, EmptySeq DEF Last
  <2> QED
    BY <2>4, <2>5
<1> QED
  BY <1>3, <1>4, <1>5, <1>6 DEF w

(* One more repetition is one more word. *)
LEMMA RepeatedNext ==
  ASSUME NEW t \in Seq(Word), NEW n \in Nat
  PROVE  Repeated(t, n + 1) = Append(Repeated(t, n), Last(t))
<1> DEFINE w == Last(t)
           r == [i \in 1 .. n |-> w]
           q == [i \in 1 .. n + 1 |-> w]
<1>1. w \in Word
  BY LastIsWord
<1> HIDE DEF w
<1>2. q = Append(r, w)
  BY <1>1
<1>3. r \in Seq(Word) /\ <<w>> \in Seq(Word)
  BY <1>1
<1>4. Repeated(t, n + 1) = t \o q /\ Repeated(t, n) = t \o r
  BY DEF Repeated, w
<1> HIDE DEF q, r
<1>5. Append(r, w) = r \o <<w>>
  BY <1>1, <1>3, AppendIsConcat
<1>6. t \o r \in Seq(Word)
  BY <1>3, ConcatProperties
<1>7. Append(t \o r, w) = (t \o r) \o <<w>>
  BY <1>1, <1>6, AppendIsConcat
<1>8. (t \o r) \o <<w>> = t \o (r \o <<w>>)
  BY <1>3, ConcatAssociative
<1> QED
  BY <1>2, <1>4, <1>5, <1>7, <1>8 DEF w

LEMMA ReadingFacts ==
  ASSUME NEW t \in Seq(Word), NEW l \in Line
  PROVE  /\ Reading(t, l) \in Seq(Word)
         /\ Weight(l) \in Nat /\ Len(Reading(t, l)) = Len(t) + Weight(l)
<1>1. l.folded \in Nat /\ l.content \in Word
  BY DEF Line, Word, Contents0
<1>2. CASE l.folded = 0
  <2>1. Append(t, l.content) \in Seq(Word) /\ Len(Append(t, l.content)) = Len(t) + 1
    BY <1>1, AppendProperties
  <2> QED
    BY <1>2, <2>1 DEF Reading, Weight
<1>3. CASE l.folded # 0
  BY <1>1, <1>3, RepeatedFacts DEF Reading, Weight
<1> QED
  BY <1>2, <1>3

(* What Told and Count define for lines q.  Each recursive function is a    *)
(* CHOOSE: it is what is chosen, if there is such a function.              *)
ToldFcn(q, n, f) == f = [i \in 0 .. n |-> IF i = 0 THEN <<>> ELSE Reading(f[i - 1], q[i])]
CountFcn(q, n, f) == f = [i \in 0 .. n |-> IF i = 0 THEN 0 ELSE f[i - 1] + Weight(q[i])]
ToldOf(q) == CHOOSE f : ToldFcn(q, Len(q), f)
CountOf(q) == CHOOSE f : CountFcn(q, Len(q), f)

LEMMA ToldIs == \A q : Told(q) = ToldOf(q)[Len(q)]
  BY DEF Told, ToldOf, ToldFcn

LEMMA CountIs == \A q : Count(q) = CountOf(q)[Len(q)]
  BY DEF Count, CountOf, CountFcn

LEMMA ToldExists ==
  ASSUME NEW q \in Seq(Line)
  PROVE  /\ ToldOf(q)[0] = <<>>
         /\ \A i \in 1 .. Len(q) : ToldOf(q)[i] = Reading(ToldOf(q)[i - 1], q[i])
         /\ \A i \in 0 .. Len(q) : ToldOf(q)[i] \in Seq(Word)
<1> DEFINE T == {n \in Nat : \E f : ToldFcn(q, n, f)}
<1>1. 0 \in T
  <2> DEFINE g == [i \in 0 .. 0 |-> <<>>]
  <2>1. ToldFcn(q, 0, g)
    BY DEF ToldFcn
  <2> QED
    BY <2>1
<1>2. ASSUME NEW n \in Nat, n \in T PROVE n + 1 \in T
  <2>1. PICK f : ToldFcn(q, n, f)
    BY <1>2
  <2> DEFINE g == [i \in 0 .. n + 1 |-> IF i \in 0 .. n THEN f[i] ELSE Reading(f[n], q[n + 1])]
  <2>2. \A i \in 0 .. n + 1 : g[i] = IF i = 0 THEN <<>> ELSE Reading(g[i - 1], q[i])
    <3> SUFFICES ASSUME NEW i \in 0 .. n + 1
                 PROVE  g[i] = IF i = 0 THEN <<>> ELSE Reading(g[i - 1], q[i])
      OBVIOUS
    <3>1. CASE i = n + 1
      <4>1. i # 0 /\ i \notin 0 .. n /\ i - 1 = n /\ n \in 0 .. n /\ n \in 0 .. n + 1
        BY <3>1
      <4>2. g[i] = Reading(f[n], q[n + 1]) /\ g[i - 1] = f[n]
        BY <4>1
      <4> QED
        BY <3>1, <4>1, <4>2
    <3>2. CASE i \in 0 .. n
      <4>1. g[i] = f[i] /\ (i # 0 => i - 1 \in 0 .. n /\ i - 1 \in 0 .. n + 1 /\ g[i - 1] = f[i - 1])
        BY <3>2
      <4>2. f[i] = IF i = 0 THEN <<>> ELSE Reading(f[i - 1], q[i])
        BY <2>1, <3>2 DEF ToldFcn
      <4> HIDE DEF g
      <4> QED
        BY <4>1, <4>2
    <3> QED
      BY <3>1, <3>2
  <2>3. ToldFcn(q, n + 1, g)
    <3>1. g = [i \in 0 .. n + 1 |-> g[i]]
      OBVIOUS
    <3> HIDE DEF g
    <3> QED
      BY <2>2, <3>1 DEF ToldFcn
  <2> HIDE DEF g
  <2> QED
    BY <2>3
<1>3. Len(q) \in T
  <2> HIDE DEF T
  <2>1. \A n \in Nat : n \in T
    BY <1>1, <1>2, NatSetInduction
  <2> QED
    BY <2>1
<1>4. ToldFcn(q, Len(q), ToldOf(q))
  BY <1>3 DEF ToldOf
<1> DEFINE s == ToldOf(q)
           V == {n \in Nat : n <= Len(q) => s[n] \in Seq(Word)}
<1>5. \A i \in 0 .. Len(q) : s[i] = IF i = 0 THEN <<>> ELSE Reading(s[i - 1], q[i])
  BY <1>4 DEF ToldFcn
<1> HIDE DEF s
<1>6. 0 \in V
  <2>1. s[0] = <<>>
    BY <1>5
  <2>2. <<>> \in Seq(Word)
    BY EmptySeq
  <2> QED
    BY <2>1, <2>2
<1>7. ASSUME NEW n \in Nat, n \in V PROVE n + 1 \in V
  <2>1. ASSUME n + 1 <= Len(q) PROVE s[n + 1] \in Seq(Word)
    <3>1. n + 1 \in 1 .. Len(q) /\ n + 1 \in 0 .. Len(q) /\ n + 1 # 0 /\ n <= Len(q) /\ n + 1 - 1 = n
      BY <2>1
    <3>2. s[n + 1] = Reading(s[n], q[n + 1])
      BY <1>5, <3>1
    <3>3. q[n + 1] \in Line
      BY <3>1, ElementOfSeq
    <3> QED
      BY <1>7, <3>1, <3>2, <3>3, ReadingFacts
  <2> QED
    BY <2>1
<1>8. \A i \in 0 .. Len(q) : i \in V
  <2> HIDE DEF V
  <2> QED
    BY <1>6, <1>7, NatSetInduction
<1>9. 0 \in 0 .. Len(q) /\ \A i \in 1 .. Len(q) : i \in 0 .. Len(q) /\ i # 0
  OBVIOUS
<1>10. \A i \in 0 .. Len(q) : s[i] \in Seq(Word)
  BY <1>8
<1>11. s[0] = <<>> /\ \A i \in 1 .. Len(q) : s[i] = Reading(s[i - 1], q[i])
  BY <1>5, <1>9
<1> QED
  BY <1>10, <1>11 DEF s

LEMMA ToldType == ASSUME NEW q \in Seq(Line) PROVE Told(q) \in Seq(Word)
<1>1. Len(q) \in 0 .. Len(q)
  OBVIOUS
<1> QED
  BY <1>1, ToldExists, ToldIs

LEMMA ToldEmpty == Told(<<>>) = <<>>
<1>1. <<>> \in Seq(Line) /\ Len(<<>>) = 0
  BY EmptySeq
<1> QED
  BY <1>1, ToldExists, ToldIs

(* A line at the end is read last. *)
LEMMA ToldAppend ==
  ASSUME NEW q \in Seq(Line), NEW l \in Line
  PROVE  Told(Append(q, l)) = Reading(Told(q), l)
<1> DEFINE r == Append(q, l)
           s == ToldOf(q)
           t == ToldOf(r)
           T == {n \in Nat : n <= Len(q) => t[n] = s[n]}
<1>1. r \in Seq(Line) /\ Len(r) = Len(q) + 1 /\ r[Len(q) + 1] = l
      /\ \A i \in 1 .. Len(q) : r[i] = q[i]
  BY AppendProperties
<1> HIDE DEF r
<1>2. /\ s[0] = <<>> /\ t[0] = <<>>
      /\ \A i \in 1 .. Len(q) : s[i] = Reading(s[i - 1], q[i])
      /\ \A i \in 1 .. Len(r) : t[i] = Reading(t[i - 1], r[i])
  BY <1>1, ToldExists
<1> HIDE DEF s, t
<1>3. 0 \in T
  BY <1>2
<1>4. ASSUME NEW n \in Nat, n \in T PROVE n + 1 \in T
  <2>1. ASSUME n + 1 <= Len(q) PROVE t[n + 1] = s[n + 1]
    <3>1. n + 1 \in 1 .. Len(q) /\ n + 1 \in 1 .. Len(r) /\ n <= Len(q) /\ n + 1 - 1 = n
      BY <1>1, <2>1
    <3> QED
      BY <1>1, <1>2, <1>4, <3>1
  <2> QED
    BY <2>1
<1>5. Len(q) \in T
  <2> HIDE DEF T
  <2>1. \A n \in Nat : n \in T
    BY <1>3, <1>4, NatSetInduction
  <2> QED
    BY <2>1
<1>6. t[Len(q)] = s[Len(q)]
  BY <1>5
<1>7. Len(q) + 1 \in 1 .. Len(r) /\ Len(q) + 1 - 1 = Len(q)
  BY <1>1
<1>8. t[Len(q) + 1] = Reading(t[Len(q)], l)
  BY <1>1, <1>2, <1>7
<1>9. Told(r) = t[Len(q) + 1] /\ Told(q) = s[Len(q)]
  BY <1>1, ToldIs DEF s, t
<1> QED
  BY <1>6, <1>8, <1>9 DEF r

(* Count is the length of what is told: the lengths solve its equation. *)
LEMMA CountTold ==
  ASSUME NEW q \in Seq(Line)
  PROVE  Count(q) = Len(Told(q))
<1> DEFINE s == ToldOf(q)
           g == [i \in 0 .. Len(q) |-> Len(s[i])]
           c == CountOf(q)
           T == {n \in Nat : n <= Len(q) => c[n] = Len(s[n])}
<1>1. /\ s[0] = <<>>
      /\ \A i \in 1 .. Len(q) : s[i] = Reading(s[i - 1], q[i])
      /\ \A i \in 0 .. Len(q) : s[i] \in Seq(Word)
  BY ToldExists
<1> HIDE DEF s
<1>2. \A i \in 1 .. Len(q) : Len(s[i]) = Len(s[i - 1]) + Weight(q[i])
  <2> TAKE i \in 1 .. Len(q)
  <2>1. i - 1 \in 0 .. Len(q)
    OBVIOUS
  <2>2. s[i - 1] \in Seq(Word) /\ q[i] \in Line
    BY <1>1, <2>1, ElementOfSeq
  <2> QED
    BY <1>1, <2>2, ReadingFacts
<1>3. CountFcn(q, Len(q), g)
  <2>1. \A i \in 0 .. Len(q) : g[i] = IF i = 0 THEN 0 ELSE g[i - 1] + Weight(q[i])
    <3> TAKE i \in 0 .. Len(q)
    <3>1. CASE i = 0
      <4>1. Len(<<>>) = 0
        OBVIOUS
      <4> QED
        BY <1>1, <3>1, <4>1
    <3>2. CASE i # 0
      <4>1. i \in 1 .. Len(q) /\ i - 1 \in 0 .. Len(q)
        BY <3>2
      <4>2. g[i] = Len(s[i]) /\ g[i - 1] = Len(s[i - 1])
        BY <4>1
      <4> HIDE DEF g
      <4> QED
        BY <1>2, <3>2, <4>1, <4>2
    <3> QED
      BY <3>1, <3>2
  <2>2. g = [i \in 0 .. Len(q) |-> g[i]]
    OBVIOUS
  <2> HIDE DEF g
  <2> QED
    BY <2>1, <2>2 DEF CountFcn
<1>4. CountFcn(q, Len(q), c)
  <2> HIDE DEF g
  <2> QED
    BY <1>3 DEF CountOf
<1>5. \A i \in 0 .. Len(q) : c[i] = IF i = 0 THEN 0 ELSE c[i - 1] + Weight(q[i])
  BY <1>4 DEF CountFcn
<1> HIDE DEF c, g
<1>6. 0 \in T
  BY <1>1, <1>5
<1>7. ASSUME NEW n \in Nat, n \in T PROVE n + 1 \in T
  <2>1. ASSUME n + 1 <= Len(q) PROVE c[n + 1] = Len(s[n + 1])
    <3>1. n + 1 \in 1 .. Len(q) /\ n + 1 \in 0 .. Len(q) /\ n + 1 # 0 /\ n <= Len(q) /\ n + 1 - 1 = n
      BY <2>1
    <3> QED
      BY <1>2, <1>5, <1>7, <3>1
  <2> QED
    BY <2>1
<1>8. Len(q) \in T
  <2> HIDE DEF T
  <2>1. \A n \in Nat : n \in T
    BY <1>6, <1>7, NatSetInduction
  <2> QED
    BY <2>1
<1>9. c[Len(q)] = Len(s[Len(q)])
  BY <1>8
<1> QED
  BY <1>9, ToldIs, CountIs DEF s, c
-----------------------------------------------------------------------------
(* What file and buffer of a service o tell, its repetitions, and how many  *)
(* messages lie in both.                                                   *)
Text(o) == Told(o.file \o o.buf)
Whole(o) == Repeated(Text(o), o.folded)
Size(o) == Len(Told(o.file)) + Len(Told(o.buf))

(* The buffer is empty if it is turned off, and the last word told is the  *)
(* one the next message is compared with.                                  *)
Tidy(o) == o.useMemBuf \/ o.buf = <<>>
Ends(o) == /\ Text(o) = <<>> => o.last = NoContent /\ o.folded = 0
           /\ Text(o) # <<>> => Last(Text(o)) = o.last

(* A file only grows. *)
Grown(o, p) == Len(Told(o.file)) <= Len(Told(p.file))

LEMMA OutTypes ==
  ASSUME NEW o \in Out
  PROVE  /\ o.file \in Seq(Line) /\ o.buf \in Seq(Line) /\ o.folded \in Nat
         /\ o.file \o o.buf \in Seq(Line) /\ o.last \in Word
         /\ Told(o.file) \in Seq(Word) /\ Told(o.buf) \in Seq(Word) /\ Text(o) \in Seq(Word)
         /\ Len(Told(o.file)) \in Nat /\ Len(Told(o.buf)) \in Nat /\ Size(o) \in Nat
<1>1. o.file \in Seq(Line) /\ o.buf \in Seq(Line) /\ o.folded \in Nat /\ o.last \in Word
  BY DEF Out, Word
<1>2. o.file \o o.buf \in Seq(Line)
  BY <1>1, ConcatProperties
<1>3. Told(o.file) \in Seq(Word) /\ Told(o.buf) \in Seq(Word) /\ Text(o) \in Seq(Word)
  BY <1>1, <1>2, ToldType DEF Text
<1>4. Len(Told(o.file)) \in Nat /\ Len(Told(o.buf)) \in Nat
  BY <1>3, LenProperties
<1>5. Size(o) \in Nat
  BY <1>4 DEF Size
<1> QED
  BY <1>1, <1>2, <1>3, <1>4, <1>5

(* With one message in the buffer the sizes add up to the text's. *)
LEMMA TextSize ==
  ASSUME NEW o \in Out, Fits(o)
  PROVE  Len(Text(o)) = Size(o)
<1>1. o.file \in Seq(Line) /\ o.buf \in Seq(Line) /\ Told(o.file) \in Seq(Word)
      /\ Len(Told(o.file)) \in Nat
  BY OutTypes
<1>2. CASE o.buf = <<>>
  <2>1. o.file \o o.buf = o.file
    BY <1>1, <1>2, ConcatEmptySeq
  <2>2. Len(Told(o.buf)) = 0
    BY <1>2, ToldEmpty
  <2> QED
    BY <1>1, <2>1, <2>2 DEF Text, Size
<1>3. CASE o.buf # <<>>
  <2>1. Len(o.buf) = 1
    <3>1. Len(o.buf) \in Nat \ {0}
      BY <1>1, <1>3, EmptySeq
    <3>2. Len(o.buf) <= 1
      BY Zenon DEF Fits
    <3>3. \A n \in Nat \ {0} : n <= 1 => n = 1
      OBVIOUS
    <3> QED
      BY <3>1, <3>2, <3>3
  <2>2. PICK l \in Line : o.buf = <<l>>
    <3>1. o.buf[1] \in Line
      BY <1>1, <2>1, ElementOfSeq
    <3>2. o.buf = <<o.buf[1]>>
      BY <1>1, <2>1
    <3> QED
      BY <3>1, <3>2
  <2>3. o.file \o o.buf = Append(o.file, l)
    BY <1>1, <2>2, AppendIsConcat
  <2>4. Text(o) = Reading(Told(o.file), l)
    BY <1>1, <2>3, ToldAppend DEF Text
  <2>5. Told(o.buf) = Reading(<<>>, l)
    <3>1. o.buf = Append(<<>>, l) /\ <<>> \in Seq(Line)
      BY <2>2
    <3> QED
      BY <3>1, ToldAppend, ToldEmpty
  <2>6. <<>> \in Seq(Word) /\ Len(<<>>) = 0
    BY EmptySeq
  <2>7. Weight(l) \in Nat /\ Len(Text(o)) = Len(Told(o.file)) + Weight(l)
    BY <1>1, <2>4, ReadingFacts
  <2>8. Len(Told(o.buf)) = 0 + Weight(l)
    BY <2>5, <2>6, ReadingFacts
  <2> QED
    BY <1>1, <2>7, <2>8 DEF Size
<1> QED
  BY <1>2, <1>3

LEMMA WholeTypes ==
  ASSUME NEW o \in Out, Fits(o)
  PROVE  Whole(o) \in Seq(Word) /\ Len(Whole(o)) = Size(o) + o.folded
<1>1. Text(o) \in Seq(Word) /\ o.folded \in Nat /\ Len(Text(o)) = Size(o)
  BY OutTypes, TextSize
<1> QED
  BY <1>1, RepeatedFacts DEF Whole

(* A line written to an open file. *)
LEMMA WrittenLine ==
  ASSUME writer = "open", NEW o \in Out, NEW l \in Line
  PROVE  LET p == Written(o, <<l>>)
         IN  /\ p \in Out /\ p.file = Append(o.file, l) /\ p.buf = o.buf /\ p.bytes = o.bytes
             /\ p.useMemBuf = o.useMemBuf /\ p.folded = o.folded /\ p.last = o.last
             /\ Size(p) = Size(o) + Weight(l) /\ Weight(l) \in Nat /\ Grown(o, p)
             /\ o.buf = <<>> => Text(p) = Reading(Text(o), l)
<1> DEFINE p == Written(o, <<l>>)
<1>1. o.file \in Seq(Line) /\ o.buf \in Seq(Line) /\ <<l>> \in Seq(Line)
      /\ Told(o.file) \in Seq(Word) /\ Len(Told(o.file)) \in Nat /\ Len(Told(o.buf)) \in Nat
  BY OutTypes
<1>2. p \in Out /\ p.buf = o.buf /\ p.bytes = o.bytes /\ p.useMemBuf = o.useMemBuf /\ p.folded = o.folded
  BY <1>1, WrittenFacts
<1>3. p.file = o.file \o <<l>> /\ p.last = o.last
  BY DEF Written, Out
<1> HIDE DEF p
<1>4. p.file = Append(o.file, l)
  BY <1>1, <1>3, AppendIsConcat
<1>5. Told(p.file) = Reading(Told(o.file), l)
  BY <1>1, <1>4, ToldAppend
<1>6. Weight(l) \in Nat /\ Len(Told(p.file)) = Len(Told(o.file)) + Weight(l)
  BY <1>1, <1>5, ReadingFacts
<1>7. Size(p) = Size(o) + Weight(l) /\ Grown(o, p)
  BY <1>1, <1>2, <1>6 DEF Size, Grown
<1>8. ASSUME o.buf = <<>> PROVE Text(p) = Reading(Text(o), l)
  <2>1. o.file \o o.buf = o.file
    BY <1>1, <1>8, ConcatEmptySeq
  <2>2. p.file \in Seq(Line)
    BY <1>2, OutTypes
  <2>3. p.file \o p.buf = p.file
    BY <1>2, <1>8, <2>2, ConcatEmptySeq
  <2> QED
    BY <1>5, <2>1, <2>3 DEF Text
<1> QED
  BY <1>2, <1>3, <1>4, <1>6, <1>7, <1>8 DEF p

(* A flush of the buffer moves its message and changes nothing told. *)
LEMMA FlushMemBufferTells ==
  ASSUME writer = "open", NEW o \in Out, Fits(o)
  PROVE  LET p == FlushMemBuffer(o)
         IN  /\ p.last = o.last /\ Size(p) = Size(o) /\ Text(p) = Text(o) /\ Grown(o, p)
<1> DEFINE p == FlushMemBuffer(o)
           w == Written(o, o.buf)
<1>1. o.file \in Seq(Line) /\ o.buf \in Seq(Line) /\ o.file \o o.buf \in Seq(Line)
      /\ Len(Told(o.file)) \in Nat /\ Len(Told(o.buf)) \in Nat /\ Text(o) \in Seq(Word)
  BY OutTypes
<1>2. CASE ~o.useMemBuf
  <2>1. p = o
    BY <1>2 DEF FlushMemBuffer
  <2> QED
    BY <1>1, <2>1 DEF Grown
<1>3. CASE o.useMemBuf
  <2>1. w \in Out /\ w.file = o.file \o o.buf /\ w.last = o.last
    <3>1. w \in Out
      BY <1>1, WrittenFacts
    <3> QED
      BY <3>1 DEF Written, Out
  <2>2. p = [w EXCEPT !.buf = <<>>, !.bytes = 0]
    BY <1>3 DEF FlushMemBuffer
  <2> HIDE DEF w
  <2>3. p.file = o.file \o o.buf /\ p.buf = <<>> /\ p.last = o.last
    BY <2>1, <2>2 DEF Out
  <2> HIDE DEF p
  <2>4. p.file \o p.buf = p.file
    BY <1>1, <2>3, ConcatEmptySeq
  <2>5. Text(p) = Text(o) /\ Told(p.file) = Text(o)
    BY <2>3, <2>4 DEF Text
  <2>6. Len(Told(p.buf)) = 0
    BY <2>3, ToldEmpty
  <2>7. Len(Text(o)) = Size(o)
    BY TextSize
  <2>8. Size(p) = Size(o)
    BY <1>1, <2>5, <2>6, <2>7 DEF Size
  <2>9. Grown(o, p)
    BY <1>1, <2>5, <2>7 DEF Grown, Size
  <2> QED
    BY <2>3, <2>5, <2>8, <2>9 DEF p
<1> QED
  BY <1>2, <1>3

(* FlushFoldedMessage turns the count into a line. *)
LEMMA FlushFoldedTells ==
  ASSUME writer = "open", NEW o \in Out, Fits(o)
  PROVE  LET p == FlushFolded(o)
         IN  /\ p.last = o.last /\ p.folded = 0
             /\ Size(p) = Size(o) + o.folded /\ Grown(o, p)
             /\ Tidy(o) => Text(p) = Whole(o) /\ p.buf = <<>>
<1> DEFINE q == FlushMemBuffer(o)
           l == FoldedLine(o.folded)
           w == Written(q, <<l>>)
           p == FlushFolded(o)
<1>1. /\ q \in Out /\ q.folded = o.folded /\ (Tidy(o) => q.buf = <<>>)
      /\ q.last = o.last /\ Size(q) = Size(o) /\ Text(q) = Text(o) /\ Grown(o, q)
  BY FlushMemBufferFacts, FlushMemBufferTells DEF Tidy
<1>2. o.folded \in Nat /\ Text(o) \in Seq(Word) /\ Size(o) \in Nat /\ Size(q) \in Nat
      /\ Len(Told(o.file)) \in Nat /\ Len(Told(q.file)) \in Nat
  BY <1>1, OutTypes
<1> HIDE DEF q
<1>3. CASE o.folded > 0
  <2>1. l \in Line /\ Weight(l) = o.folded
    BY <1>2, <1>3, LinesAreLines DEF FoldedLine, Weight
  <2>2. \A t : Reading(t, l) = Repeated(t, o.folded)
    BY <1>2, <1>3 DEF Reading, FoldedLine
  <2> HIDE DEF l
  <2>3. /\ w \in Out /\ w.buf = q.buf /\ w.last = q.last
        /\ Size(w) = Size(q) + Weight(l) /\ Grown(q, w)
        /\ q.buf = <<>> => Text(w) = Reading(Text(q), l)
    BY <1>1, <2>1, WrittenLine
  <2>4. p = [w EXCEPT !.folded = 0]
    BY <1>3 DEF FlushFolded, q, l
  <2> HIDE DEF w
  <2>5. p.file = w.file /\ p.buf = w.buf /\ p.last = w.last /\ p.folded = 0
    BY <2>3, <2>4 DEF Out
  <2> HIDE DEF p
  <2>6. Text(p) = Text(w) /\ Size(p) = Size(w)
    BY <2>5 DEF Text, Size
  <2>7. Grown(o, p)
    <3>1. Len(Told(w.file)) \in Nat
      BY <2>3, OutTypes
    <3> QED
      BY <1>1, <1>2, <2>3, <2>5, <3>1 DEF Grown
  <2>8. Tidy(o) => Text(p) = Whole(o) /\ p.buf = <<>>
    BY <1>1, <2>2, <2>3, <2>5, <2>6 DEF Whole
  <2>9. Size(p) = Size(o) + o.folded
    BY <1>1, <2>1, <2>3, <2>6
  <2> QED
    BY <1>1, <2>3, <2>5, <2>7, <2>8, <2>9 DEF p
<1>4. CASE o.folded = 0
  <2>1. p = q
    BY <1>4 DEF FlushFolded, q
  <2>2. Whole(o) = Text(o)
    BY <1>2, <1>4, RepeatedFacts DEF Whole
  <2> QED
    BY <1>1, <1>2, <1>4, <2>1, <2>2
<1> QED
  BY <1>2, <1>3, <1>4

(* WriteLog adds the message to what is told; an urgent one goes to the    *)
(* file.                                                                   *)
LEMMA WriteLogTells ==
  ASSUME writer = "open", NEW o \in Out, NEW m \in Message, Fits(o),
         o.useMemBuf => o.buf = <<>> /\ o.bytes = 0
  PROVE  LET p == WriteLog(o, m)
         IN  /\ p.useMemBuf = o.useMemBuf /\ p.folded = o.folded
             /\ Size(p) = Size(o) + 1 /\ Grown(o, p)
             /\ Tidy(o) => Tidy(p) /\ Text(p) = Append(Text(o), m.content)
             /\ Tidy(o) /\ m.urgent => p.buf = <<>>
<1> DEFINE l == LineOf(m)
           p == WriteLog(o, m)
<1>1. l \in Line /\ Weight(l) = 1 /\ (\A t : Reading(t, l) = Append(t, m.content))
      /\ m.size \in Nat /\ BufSize \in Nat
  BY LinesAreLines, LogAssumption DEF LineOf, Weight, Reading
<1>2. o.file \in Seq(Line) /\ o.buf \in Seq(Line) /\ Size(o) \in Nat /\ Text(o) \in Seq(Word)
      /\ Told(o.file) \in Seq(Word) /\ Len(Told(o.file)) \in Nat
  BY OutTypes
<1>3. CASE o.useMemBuf /\ ~m.urgent /\ m.size <= BufSize
  <2>1. ~(o.bytes + m.size > BufSize) /\ o.buf = <<>>
    BY <1>1, <1>3
  <2>2. p = [o EXCEPT !.buf = Append(@, l), !.bytes = @ + m.size]
    BY <1>3, <2>1 DEF WriteLog, Receive
  <2> HIDE DEF l
  <2>3. p.file = o.file /\ p.buf = Append(o.buf, l) /\ p.useMemBuf = o.useMemBuf /\ p.folded = o.folded
    BY <2>2 DEF Out
  <2> HIDE DEF p
  <2>4. p.file \o p.buf = Append(o.file, l) /\ o.file \o o.buf = o.file
    <3>1. p.buf = <<l>>
      BY <2>1, <2>3
    <3>2. o.file \o <<l>> = Append(o.file, l)
      BY <1>1, <1>2, AppendIsConcat
    <3>3. o.file \o <<>> = o.file
      BY <1>2, ConcatEmptySeq
    <3> QED
      BY <2>1, <2>3, <3>1, <3>2, <3>3
  <2>5. Text(p) = Append(Text(o), m.content)
    BY <1>1, <1>2, <2>4, ToldAppend DEF Text
  <2>6. Told(p.buf) = Append(<<>>, m.content) /\ Told(o.buf) = <<>>
    <3>1. <<>> \in Seq(Line)
      BY EmptySeq
    <3> QED
      BY <1>1, <2>1, <2>3, <3>1, ToldAppend, ToldEmpty
  <2>7. Len(Append(<<>>, m.content)) = 1 /\ Len(<<>>) = 0
    OBVIOUS
  <2>8. Size(p) = Size(o) + 1
    BY <1>2, <2>3, <2>6, <2>7 DEF Size
  <2> QED
    BY <1>2, <1>3, <2>3, <2>5, <2>8 DEF Grown, Tidy, p
<1>4. CASE ~(o.useMemBuf /\ ~m.urgent /\ m.size <= BufSize)
  <2> DEFINE q == FlushMemBuffer(o)
             w == Written(q, <<l>>)
  <2>1. /\ q \in Out /\ q.useMemBuf = o.useMemBuf /\ q.folded = o.folded /\ (Tidy(o) => q.buf = <<>>)
        /\ Size(q) = Size(o) /\ Text(q) = Text(o) /\ Grown(o, q)
    BY FlushMemBufferFacts, FlushMemBufferTells DEF Tidy
  <2>2. p = w
    BY <1>4 DEF WriteLog
  <2> HIDE DEF q, l
  <2>3. /\ p \in Out /\ p.buf = q.buf /\ p.useMemBuf = q.useMemBuf /\ p.folded = q.folded
        /\ Size(p) = Size(q) + Weight(l) /\ Grown(q, p)
        /\ q.buf = <<>> => Text(p) = Reading(Text(q), l)
    <3>1. /\ w \in Out /\ w.buf = q.buf /\ w.useMemBuf = q.useMemBuf /\ w.folded = q.folded
          /\ Size(w) = Size(q) + Weight(l) /\ Grown(q, w)
          /\ q.buf = <<>> => Text(w) = Reading(Text(q), l)
      BY <1>1, <2>1, WrittenLine
    <3> HIDE DEF p, w
    <3> QED
      BY <2>2, <3>1
  <2> HIDE DEF p
  <2>4. Grown(o, p)
    <3>1. Len(Told(q.file)) \in Nat /\ Len(Told(p.file)) \in Nat
      BY <2>1, <2>3, OutTypes
    <3> QED
      BY <1>2, <2>1, <2>3, <3>1 DEF Grown
  <2>5. Tidy(o) => p.buf = <<>> /\ Tidy(p) /\ Text(p) = Append(Text(o), m.content)
    BY <1>1, <2>1, <2>3 DEF Tidy
  <2> QED
    BY <1>1, <2>1, <2>3, <2>4, <2>5 DEF p
<1> QED
  BY <1>3, <1>4

LEMMA ReceivedTells ==
  ASSUME writer = "open", NEW o \in Out, NEW m \in Message, Fits(o)
  PROVE  LET p == Received(o, m)
         IN  /\ Size(p) + p.folded = Size(o) + o.folded + 1 /\ Grown(o, p)
             /\ Tidy(o) => Tidy(p)
             /\ Tidy(o) /\ Ends(o) => Whole(p) = Append(Whole(o), m.content) /\ Ends(p)
             /\ Tidy(o) /\ m.urgent /\ m.content # o.last => p.buf = <<>> /\ p.folded = 0
<1> DEFINE p == Received(o, m)
<1>1. o.file \in Seq(Line) /\ o.folded \in Nat /\ Size(o) \in Nat /\ Text(o) \in Seq(Word)
      /\ Len(Told(o.file)) \in Nat /\ m.content \in Word /\ m.content # NoContent
      /\ Whole(o) \in Seq(Word)
  BY OutTypes, WholeTypes, LogAssumption DEF Word, Contents0
<1>2. CASE m.content = o.last
  <2>1. p = [o EXCEPT !.folded = @ + 1]
    BY <1>2 DEF Received
  <2>2. p.file = o.file /\ p.buf = o.buf /\ p.useMemBuf = o.useMemBuf /\ p.last = o.last
        /\ p.folded = o.folded + 1
    BY <2>1 DEF Out
  <2> HIDE DEF p
  <2>3. Text(p) = Text(o) /\ Size(p) = Size(o) /\ Grown(o, p) /\ (Tidy(o) => Tidy(p))
    BY <1>1, <2>2 DEF Text, Size, Grown, Tidy
  <2>4. ASSUME Ends(o) PROVE Whole(p) = Append(Whole(o), m.content) /\ Ends(p)
    <3>1. Text(o) # <<>> /\ Last(Text(o)) = m.content
      BY <1>1, <1>2, <2>4 DEF Ends
    <3>2. Ends(p)
      BY <1>2, <2>2, <2>3, <3>1 DEF Ends
    <3> QED
      BY <1>1, <2>2, <2>3, <3>1, <3>2, RepeatedNext DEF Whole
  <2>5. Size(p) + p.folded = Size(o) + o.folded + 1
    BY <1>1, <2>2, <2>3
  <2> QED
    BY <1>2, <2>3, <2>4, <2>5 DEF p
<1>3. CASE m.content # o.last
  <2> DEFINE q == FlushFolded(o)
             w == WriteLog(q, m)
  <2>1. /\ q \in Out /\ q.useMemBuf = o.useMemBuf
        /\ q.useMemBuf => q.buf = <<>> /\ q.bytes = 0
        /\ Fits(q)
    <3>1. /\ q \in Out /\ q.useMemBuf = o.useMemBuf
          /\ (o.useMemBuf => q.buf = <<>> /\ q.bytes = 0)
          /\ (~o.useMemBuf => q.buf = o.buf /\ q.bytes = o.bytes)
      BY FlushFoldedFacts
    <3> HIDE DEF q
    <3>2. 0 <= BufSize
      BY LogAssumption
    <3> QED
      BY <3>1, <3>2 DEF Fits
  <2>2. /\ q.folded = 0 /\ Size(q) = Size(o) + o.folded /\ Grown(o, q)
        /\ Tidy(o) => Text(q) = Whole(o) /\ q.buf = <<>>
    BY FlushFoldedTells
  <2> HIDE DEF q
  <2>3. /\ w.useMemBuf = q.useMemBuf /\ w.folded = q.folded
        /\ Size(w) = Size(q) + 1 /\ Grown(q, w)
        /\ Tidy(q) => Tidy(w) /\ Text(w) = Append(Text(q), m.content)
        /\ Tidy(q) /\ m.urgent => w.buf = <<>>
        /\ w \in Out
    BY <2>1, WriteLogTells, WriteLogFacts
  <2>4. p = [w EXCEPT !.last = m.content]
    BY <1>3 DEF Received, q
  <2> HIDE DEF w
  <2>5. p.file = w.file /\ p.buf = w.buf /\ p.useMemBuf = w.useMemBuf /\ p.folded = w.folded
        /\ p.last = m.content
    BY <2>3, <2>4 DEF Out
  <2> HIDE DEF p
  <2>6. Text(p) = Text(w) /\ Size(p) = Size(w) /\ Tidy(p) = Tidy(w)
    BY <2>5 DEF Text, Size, Tidy
  <2>7. Grown(o, p)
    <3>1. Len(Told(q.file)) \in Nat /\ Len(Told(w.file)) \in Nat
      BY <2>1, <2>3, OutTypes
    <3> QED
      BY <1>1, <2>2, <2>3, <2>5, <3>1 DEF Grown
  <2>8. Tidy(o) => Tidy(q)
    BY <2>2 DEF Tidy
  <2>9. ASSUME Tidy(o) PROVE Whole(p) = Append(Whole(o), m.content) /\ Ends(p)
    <3>1. Text(p) = Append(Whole(o), m.content) /\ p.folded = 0
      BY <2>2, <2>3, <2>5, <2>6, <2>8, <2>9
    <3>2. Append(Whole(o), m.content) \in Seq(Word) /\ Append(Whole(o), m.content) # <<>>
          /\ Last(Append(Whole(o), m.content)) = m.content
      <4>1. Append(Whole(o), m.content) \in Seq(Word) /\ Append(Whole(o), m.content) # <<>>
            /\ Len(Append(Whole(o), m.content)) = Len(Whole(o)) + 1
            /\ Append(Whole(o), m.content)[Len(Whole(o)) + 1] = m.content
        BY <1>1, AppendProperties
      <4> QED
        BY <4>1 DEF Last
    <3>3. Ends(p)
      BY <2>5, <3>1, <3>2 DEF Ends
    <3>4. Whole(p) = Text(p)
      BY <3>1, <3>2, RepeatedFacts DEF Whole
    <3> QED
      BY <3>1, <3>3, <3>4
  <2>10. Size(p) + p.folded = Size(o) + o.folded + 1
    BY <1>1, <2>2, <2>3, <2>5, <2>6
  <2> QED
    BY <2>2, <2>3, <2>5, <2>6, <2>7, <2>8, <2>9, <2>10 DEF p
<1> QED
  BY <1>2, <1>3
-----------------------------------------------------------------------------
(* What LogComplete and NothingVanishes need besides IInv: where the        *)
(* service has promised nothing away, the buffer is empty or in use, and    *)
(* what comes next is compared with the last word told.                    *)
LInv ==
  /\ writer = "closed" => exiting \in {"closed", "yes"}
  /\ ~stranded => Tidy(out)
  /\ writer # "none" => Size(out) + out.folded = Len(logged)
  /\ writer # "none" /\ ~stranded => Whole(out) = Contents /\ Ends(out)

(* How a step changes an open service: not at all, by a flush, by a flush  *)
(* after the buffer was switched, by a message, or by one of these that    *)
(* breaks off at a write.                                                  *)
Toggled(o) == [o EXCEPT !.useMemBuf = ~@]

Quiet == out' = out /\ logged' = logged /\ (stranded => stranded')
Flushes == out' = FlushFolded(out) /\ logged' = logged /\ stranded' = stranded
Switches ==
  /\ out' = FlushFolded(Toggled(out)) /\ logged' = logged
  /\ stranded' = (stranded \/ (out.useMemBuf /\ out.buf # <<>>))
Receives == \E m \in Message :
  out' = Received(out, m) /\ logged' = Append(logged, m) /\ stranded' = stranded

BreaksOff ==
  writer = "open" /\ Left(out, out') /\ logged' = logged /\ stranded' = stranded
SwitchBreaksOff ==
  /\ writer = "open" /\ Left(Toggled(out), out') /\ logged' = logged
  /\ stranded' = (stranded \/ (out.useMemBuf /\ out.buf # <<>>))

LEMMA StepKinds ==
  ASSUME IInv, LInv, [Next]_vars
  PROVE  /\ writer' = "none" <=> writer = "none"
         /\ writer' = "closed" => exiting' \in {"closed", "yes"}
         /\ stranded => stranded'
         /\ writer = "closed" => Quiet /\ stranded' = stranded
         /\ Quiet \/ Flushes \/ Switches \/ Receives \/ BreaksOff \/ SwitchBreaksOff
<1>1. writer \in {"open", "none", "closed"} /\ stranded \in BOOLEAN
  BY DEF IInv, TypeOK
<1>2. writer = "closed" => exiting \in {"closed", "yes"}
  BY DEF LInv
<1> USE <1>1, <1>2
<1>3. ASSUME NEW t \in Thread, Refuse(t) \/ Finish(t) \/ \E m \in Message : Check(t, m)
      PROVE  UNCHANGED <<out, writer, exiting, logged, stranded>>
  BY <1>3 DEF Refuse, Finish, Check, vars
<1>4. CASE DisposeLogs \/ DisposeEnds
  BY <1>4 DEF DisposeLogs, DisposeEnds, Quiet
<1>5. CASE DisposeCloses
  BY <1>5 DEF DisposeCloses, Quiet
<1>6. CASE UNCHANGED vars
  BY <1>6 DEF vars, Quiet
<1>7. CASE FlushLogWriting \/ Dispose
  <2>1. CASE Flush(out)
    BY <1>7, <2>1 DEF FlushLogWriting, Dispose, Flush, FlushAlone, FlushMeets, Quiet, Flushes
  <2>2. CASE FlushFails(out) /\ UNCHANGED <<exiting, stranded>>
    <3>1. writer = "open" /\ Left(out, out')
      BY <2>2, BrokenOffIsLeft DEF FlushFails
    <3> QED
      BY <2>2, <3>1 DEF FlushFails, BreaksOff
  <2> QED
    BY <1>7, <2>1, <2>2 DEF FlushLogWriting, Dispose
<1>8. CASE SetUseMemBuf
  <2>1. CASE Flush(Toggled(out))
    BY <1>8, <2>1 DEF SetUseMemBuf, Flush, FlushAlone, FlushMeets, Quiet, Switches
  <2>2. CASE FlushFails(Toggled(out))
    <3>1. writer = "open" /\ Left(Toggled(out), out')
      BY <2>2, BrokenOffIsLeft DEF FlushFails
    <3> QED
      BY <1>8, <2>2, <3>1 DEF SetUseMemBuf, FlushFails, SwitchBreaksOff
  <2> QED
    BY <1>8, <2>1, <2>2 DEF SetUseMemBuf, Toggled
<1>9. CASE \E t \in Thread, m \in Message : Handle(t, m)
  BY <1>9 DEF Handle, Quiet, Receives
<1>10. CASE \E t \in Thread, m \in Message : HandleFails(t, m)
  <2> PICK t \in Thread, m \in Message : HandleFails(t, m)
    BY <1>10
  <2>1. writer = "open" /\ Left(out, out')
    BY BrokenOffIsLeft DEF HandleFails
  <2> QED
    BY <2>1 DEF HandleFails, BreaksOff
<1> QED
  BY <1>3, <1>4, <1>5, <1>6, <1>7, <1>8, <1>9, <1>10 DEF Next, Quiet

LEMMA ContentsFacts ==
  ASSUME logged \in Seq(Message)
  PROVE  /\ Contents \in Seq(Word) /\ Len(Contents) = Len(logged)
         /\ \A m \in Message : [i \in DOMAIN Append(logged, m) |-> Append(logged, m)[i].content]
                                 = Append(Contents, m.content)
         /\ logged # <<>> => Contents # <<>> /\ Last(Contents) = Last(logged).content
<1>1. \A m \in Message : m.content \in Word
  BY DEF Word, Contents0
<1>2. DOMAIN logged = 1 .. Len(logged) /\ Len(logged) \in Nat /\ \A i \in 1 .. Len(logged) : logged[i] \in Message
  BY LenProperties, ElementOfSeq
<1>3. Contents \in Seq(Word) /\ Len(Contents) = Len(logged)
      /\ \A i \in 1 .. Len(logged) : Contents[i] = logged[i].content
  BY <1>1, <1>2 DEF Contents
<1>4. ASSUME NEW m \in Message
      PROVE  [i \in DOMAIN Append(logged, m) |-> Append(logged, m)[i].content] = Append(Contents, m.content)
  <2> DEFINE g == Append(logged, m)
             c == [i \in DOMAIN g |-> g[i].content]
             d == Append(Contents, m.content)
  <2>1. /\ g \in Seq(Message) /\ Len(g) = Len(logged) + 1
        /\ \A i \in 1 .. Len(logged) : g[i] = logged[i]
        /\ g[Len(logged) + 1] = m
    BY AppendProperties
  <2>2. DOMAIN g = 1 .. Len(logged) + 1
    BY <2>1, LenProperties
  <2>3. /\ d \in Seq(Word) /\ Len(d) = Len(logged) + 1
        /\ \A i \in 1 .. Len(logged) : d[i] = logged[i].content
        /\ d[Len(logged) + 1] = m.content
    BY <1>1, <1>3, AppendProperties
  <2> HIDE DEF g, d
  <2>4. \A i \in 1 .. Len(logged) + 1 : c[i] = d[i]
    <3> TAKE i \in 1 .. Len(logged) + 1
    <3>1. i \in 1 .. Len(logged) \/ i = Len(logged) + 1
      BY <1>2
    <3> QED
      BY <2>1, <2>2, <2>3, <3>1
  <2>5. c \in Seq(Word) /\ Len(c) = Len(logged) + 1
    <3>1. \A i \in 1 .. Len(logged) + 1 : d[i] \in Word
      BY <2>3, ElementOfSeq
    <3>2. c \in [1 .. Len(logged) + 1 -> Word]
      BY <2>2, <2>4, <3>1
    <3> HIDE DEF c
    <3> QED
      BY <1>2, <3>2
  <2> HIDE DEF c
  <2>6. c = d
    BY <2>3, <2>4, <2>5, SeqEqual
  <2> QED
    BY <2>6 DEF c, d, g
<1>5. ASSUME logged # <<>> PROVE Contents # <<>> /\ Last(Contents) = Last(logged).content
  <2>1. Len(logged) \in 1 .. Len(logged) /\ Len(logged) # 0
    BY <1>5, EmptySeq
  <2>2. Contents # <<>>
    BY <1>3, <2>1, EmptySeq
  <2> QED
    BY <1>3, <2>1, <2>2 DEF Last
<1> QED
  BY <1>3, <1>4, <1>5

(* Switching the buffer tells nothing by itself. *)
LEMMA ToggledFacts ==
  ASSUME NEW o \in Out, Fits(o)
  PROVE  LET p == Toggled(o)
         IN  /\ p \in Out /\ Fits(p) /\ p.useMemBuf = ~o.useMemBuf
             /\ p.file = o.file /\ p.buf = o.buf /\ p.folded = o.folded /\ p.last = o.last
             /\ Size(p) = Size(o) /\ Text(p) = Text(o) /\ Whole(p) = Whole(o)
<1> DEFINE p == Toggled(o)
<1>1. /\ p \in Out /\ p.useMemBuf = ~o.useMemBuf /\ p.bytes = o.bytes
      /\ p.file = o.file /\ p.buf = o.buf /\ p.folded = o.folded /\ p.last = o.last
  BY DEF Toggled, Out
<1> HIDE DEF p
<1> QED
  BY <1>1 DEF Fits, Size, Text, Whole, p

(* A flush of a tidy service leaves it whole. *)
LEMMA FlushKeepsWhole ==
  ASSUME writer = "open", NEW o \in Out, Fits(o), Tidy(o)
  PROVE  LET p == FlushFolded(o)
         IN  Tidy(p) /\ Whole(p) = Whole(o) /\ (Ends(o) => Ends(p))
<1> DEFINE p == FlushFolded(o)
<1>1. p.last = o.last /\ p.folded = 0 /\ Text(p) = Whole(o) /\ p.buf = <<>>
  BY FlushFoldedTells
<1>2. Whole(o) \in Seq(Word) /\ o.folded \in Nat /\ Text(o) \in Seq(Word)
  BY OutTypes, WholeTypes
<1> HIDE DEF p
<1>3. Whole(p) = Whole(o)
  BY <1>1, <1>2, RepeatedFacts DEF Whole
<1>4. ASSUME Ends(o) PROVE Ends(p)
  <2>1. CASE Text(o) = <<>>
    <3>1. o.folded = 0 /\ o.last = NoContent
      BY <1>4, <2>1 DEF Ends
    <3>2. Whole(o) = Text(o)
      BY <1>2, <3>1, RepeatedFacts DEF Whole
    <3> QED
      BY <1>1, <2>1, <3>1, <3>2 DEF Ends
  <2>2. CASE Text(o) # <<>>
    <3>1. Whole(o) # <<>> /\ Last(Whole(o)) = o.last
      BY <1>2, <1>4, <2>2, RepeatedFacts DEF Ends, Whole
    <3> QED
      BY <1>1, <3>1 DEF Ends
  <2> QED
    BY <2>1, <2>2
<1> QED
  BY <1>1, <1>3, <1>4 DEF Tidy, p

(* What a broken-off flush leaves behind tells what was told before. *)
LEMMA LeftTells ==
  ASSUME writer = "open", NEW o \in Out, Fits(o), NEW p, Left(o, p)
  PROVE  /\ Size(p) + p.folded = Size(o) + o.folded /\ Grown(o, p)
         /\ Tidy(o) => Tidy(p) /\ Whole(p) = Whole(o) /\ (Ends(o) => Ends(p))
<1>1. Size(o) \in Nat /\ o.folded \in Nat /\ Len(Told(o.file)) \in Nat
  BY OutTypes
<1>2. CASE p = o
  BY <1>1, <1>2 DEF Grown
<1>3. CASE p = FlushMemBuffer(o)
  <2>1. p.last = o.last /\ Size(p) = Size(o) /\ Text(p) = Text(o) /\ Grown(o, p)
    BY <1>3, FlushMemBufferTells
  <2>2. p.folded = o.folded /\ (Tidy(o) => Tidy(p))
    BY <1>3, FlushMemBufferFacts DEF Tidy
  <2> QED
    BY <2>1, <2>2 DEF Whole, Ends
<1>4. CASE p = FlushFolded(o)
  <2>1. p.folded = 0 /\ Size(p) = Size(o) + o.folded /\ Grown(o, p)
    BY <1>4, FlushFoldedTells
  <2>2. Tidy(o) => Tidy(p) /\ Whole(p) = Whole(o) /\ (Ends(o) => Ends(p))
    BY <1>4, FlushKeepsWhole
  <2> QED
    BY <1>1, <2>1, <2>2
<1> QED
  BY <1>2, <1>3, <1>4 DEF Left

(* Nor does a flush or a message leave one in a buffer that is turned off. *)
LEMMA TidyStays ==
  ASSUME NEW o \in Out, Tidy(o)
  PROVE  Tidy(FlushFolded(o)) /\ \A m \in Message : Tidy(Received(o, m))
<1>1. Tidy(FlushFolded(o)) /\ FlushFolded(o) \in Out
  BY FlushFoldedFacts DEF Tidy
<1>2. ASSUME NEW m \in Message PROVE Tidy(Received(o, m))
  <2>1. CASE m.content = o.last
    <3>1. Received(o, m) = [o EXCEPT !.folded = @ + 1]
      BY <2>1 DEF Received
    <3> QED
      BY <3>1 DEF Tidy, Out
  <2>2. CASE m.content # o.last
    <3> DEFINE q == FlushFolded(o)
               w == WriteLog(q, m)
               f == FlushMemBuffer(q)
               v == Written(f, <<LineOf(m)>>)
    <3>1. Received(o, m) = [w EXCEPT !.last = m.content]
      BY <2>2 DEF Received
    <3>2. q \in Out /\ Tidy(q)
      BY <1>1
    <3> HIDE DEF q
    <3>3. CASE q.useMemBuf /\ ~m.urgent /\ m.size <= BufSize
      <4> DEFINE r == IF q.bytes + m.size > BufSize THEN f ELSE q
      <4>1. r \in Out /\ r.useMemBuf
        BY <3>2, <3>3, FlushMemBufferFacts
      <4>2. w = [r EXCEPT !.buf = Append(@, LineOf(m)), !.bytes = @ + m.size]
        BY <3>3 DEF WriteLog, Receive
      <4> HIDE DEF r, w
      <4>3. Received(o, m).useMemBuf
        BY <3>1, <4>1, <4>2 DEF Out
      <4> QED
        BY <4>3 DEF Tidy
    <3>4. CASE ~(q.useMemBuf /\ ~m.urgent /\ m.size <= BufSize)
      <4>1. f \in Out /\ Tidy(f)
        BY <3>2, FlushMemBufferFacts DEF Tidy
      <4>2. <<LineOf(m)>> \in Seq(Line)
        BY LinesAreLines
      <4> HIDE DEF f
      <4>3. v \in Out /\ v.buf = f.buf /\ v.useMemBuf = f.useMemBuf
        BY <4>1, <4>2, WrittenFacts
      <4>4. w = v
        BY <3>4 DEF WriteLog, f
      <4> HIDE DEF v, w
      <4>5. Received(o, m).buf = f.buf /\ Received(o, m).useMemBuf = f.useMemBuf
        BY <3>1, <4>3, <4>4 DEF Out
      <4> QED
        BY <4>1, <4>5 DEF Tidy
    <3> QED
      BY <3>3, <3>4
  <2> QED
    BY <2>1, <2>2
<1> QED
  BY <1>1, <1>2

LEMMA InitLInv == Init => LInv
<1> SUFFICES ASSUME Init PROVE LInv
  OBVIOUS
<1>1. out.file = <<>> /\ out.buf = <<>> /\ out.folded = 0 /\ out.useMemBuf /\ out.last = NoContent
      /\ logged = <<>> /\ writer # "closed"
  BY DEF Init
<1>2. <<>> \in Seq(Word) /\ <<>> \in Seq(Line) /\ Len(<<>>) = 0
  BY EmptySeq
<1>3. <<>> \o <<>> = <<>>
  BY <1>2, ConcatEmptySeq
<1>4. Text(out) = <<>> /\ Size(out) = 0
  BY <1>1, <1>2, <1>3, ToldEmpty DEF Text, Size
<1>5. Whole(out) = <<>>
  <2>1. Repeated(<<>>, 0) = <<>>
    BY <1>2, RepeatedFacts
  <2> QED
    BY <1>1, <1>4, <2>1 DEF Whole
<1>6. Contents = <<>>
  <2>1. logged \in Seq(Message) /\ Len(logged) = 0
    BY <1>1, EmptySeq
  <2> QED
    BY <2>1, ContentsFacts, EmptySeq
<1> QED
  BY <1>1, <1>2, <1>4, <1>5, <1>6 DEF LInv, Tidy, Ends

LEMMA NextLInv == IInv /\ LInv /\ [Next]_vars => LInv'
<1> SUFFICES ASSUME IInv, LInv, [Next]_vars PROVE LInv'
  OBVIOUS
<1> DEFINE o == Toggled(out)
<1>1. out \in Out /\ Fits(out) /\ Others
  BY IInvInParts
<1>2. logged \in Seq(Message) /\ out.folded \in Nat /\ Size(out) \in Nat /\ Len(logged) \in Nat
  BY <1>1, OutTypes, LenProperties DEF Others
<1>3. /\ writer' = "none" <=> writer = "none"
      /\ writer' = "closed" => exiting' \in {"closed", "yes"}
      /\ stranded => stranded'
      /\ writer = "closed" => Quiet
      /\ Quiet \/ Flushes \/ Switches \/ Receives \/ BreaksOff \/ SwitchBreaksOff
  BY StepKinds
<1>4. /\ o \in Out /\ Fits(o) /\ o.useMemBuf = ~out.useMemBuf /\ o.buf = out.buf /\ o.folded = out.folded
      /\ Size(o) = Size(out) /\ Whole(o) = Whole(out) /\ (Ends(out) => Ends(o))
  BY <1>1, ToggledFacts DEF Ends
<1> HIDE DEF o
<1>5. CASE Quiet
  BY <1>3, <1>5 DEF Quiet, LInv, Contents
(* A switch without a message waiting strands none. *)
<1>6. ASSUME Switches \/ SwitchBreaksOff, ~stranded' PROVE Tidy(o)
  BY <1>4, <1>6 DEF Switches, SwitchBreaksOff, Tidy
<1>7. ASSUME ~stranded' PROVE Tidy(out')
  <2>1. Tidy(out)
    BY <1>3, <1>7 DEF LInv
  <2>2. CASE Flushes
    BY <1>1, <2>1, <2>2, TidyStays DEF Flushes
  <2>3. CASE Switches
    BY <1>4, <1>6, <1>7, <2>3, TidyStays DEF Switches, o
  <2>4. CASE Receives
    BY <1>1, <2>1, <2>4, TidyStays DEF Receives
  <2>5. CASE Quiet
    BY <2>1, <2>5 DEF Quiet
  <2>6. CASE BreaksOff
    BY <1>1, <2>1, <2>6, LeftTells DEF BreaksOff
  <2>7. CASE SwitchBreaksOff
    <3>1. writer = "open" /\ Left(o, out') /\ Tidy(o)
      BY <1>6, <1>7, <2>7 DEF SwitchBreaksOff, o
    <3> QED
      BY <1>4, <3>1, LeftTells
  <2> QED
    BY <1>3, <2>2, <2>3, <2>4, <2>5, <2>6, <2>7
<1>8. ASSUME ~Quiet, writer' # "none" PROVE writer = "open"
  BY <1>1, <1>3, <1>8 DEF Others
<1>9. ASSUME ~Quiet, writer' # "none" PROVE Size(out') + out'.folded = Len(logged')
  <2>1. writer = "open" /\ Size(out) + out.folded = Len(logged)
    BY <1>8, <1>9 DEF LInv
  <2>2. CASE Flushes
    <3>1. out'.folded = 0 /\ Size(out') = Size(out) + out.folded
      BY <1>1, <2>1, <2>2, FlushFoldedTells DEF Flushes
    <3> QED
      BY <1>2, <2>1, <2>2, <3>1 DEF Flushes
  <2>3. CASE Switches
    <3>1. out'.folded = 0 /\ Size(out') = Size(o) + o.folded
      BY <1>4, <2>1, <2>3, FlushFoldedTells DEF Switches, o
    <3> QED
      BY <1>2, <1>4, <2>1, <2>3, <3>1 DEF Switches
  <2>4. CASE Receives
    <3> PICK m \in Message : out' = Received(out, m) /\ logged' = Append(logged, m)
      BY <2>4 DEF Receives
    <3>1. Size(out') + out'.folded = Size(out) + out.folded + 1
      BY <1>1, <2>1, ReceivedTells
    <3>2. Len(logged') = Len(logged) + 1
      BY <1>2, AppendProperties
    <3> QED
      BY <1>2, <2>1, <3>1, <3>2
  <2>5. CASE BreaksOff
    <3>1. Size(out') + out'.folded = Size(out) + out.folded
      BY <1>1, <2>1, <2>5, LeftTells DEF BreaksOff
    <3> QED
      BY <2>1, <2>5, <3>1 DEF BreaksOff
  <2>6. CASE SwitchBreaksOff
    <3>1. Left(o, out') /\ logged' = logged
      BY <2>6 DEF SwitchBreaksOff, o
    <3>2. Size(out') + out'.folded = Size(o) + o.folded
      BY <1>4, <2>1, <3>1, LeftTells
    <3> QED
      BY <1>4, <2>1, <3>1, <3>2
  <2> QED
    BY <1>3, <1>9, <2>2, <2>3, <2>4, <2>5, <2>6
<1>10. ASSUME ~Quiet, writer' # "none", ~stranded' PROVE Whole(out') = Contents' /\ Ends(out')
  <2>1. writer = "open" /\ Tidy(out) /\ Whole(out) = Contents /\ Ends(out)
    BY <1>3, <1>8, <1>10 DEF LInv
  <2>2. CASE Flushes
    <3>1. Whole(out') = Whole(out) /\ Ends(out')
      BY <1>1, <2>1, <2>2, FlushKeepsWhole DEF Flushes
    <3> QED
      BY <2>1, <2>2, <3>1 DEF Flushes, Contents
  <2>3. CASE Switches
    <3>1. Whole(out') = Whole(o) /\ Ends(out')
      BY <1>4, <1>6, <1>10, <2>1, <2>3, FlushKeepsWhole DEF Switches, o
    <3> QED
      BY <1>4, <2>1, <2>3, <3>1 DEF Switches, Contents
  <2>4. CASE Receives
    <3> PICK m \in Message : out' = Received(out, m) /\ logged' = Append(logged, m)
      BY <2>4 DEF Receives
    <3>1. Whole(out') = Append(Whole(out), m.content) /\ Ends(out')
      BY <1>1, <2>1, ReceivedTells
    <3>2. Contents' = Append(Contents, m.content)
      BY <1>2, ContentsFacts DEF Contents
    <3> QED
      BY <2>1, <3>1, <3>2
  <2>5. CASE BreaksOff
    <3>1. Whole(out') = Whole(out) /\ Ends(out')
      BY <1>1, <2>1, <2>5, LeftTells DEF BreaksOff
    <3> QED
      BY <2>1, <2>5, <3>1 DEF BreaksOff, Contents
  <2>6. CASE SwitchBreaksOff
    <3>1. Left(o, out') /\ logged' = logged /\ Tidy(o)
      BY <1>6, <1>10, <2>6 DEF SwitchBreaksOff, o
    <3>2. Whole(out') = Whole(o) /\ Ends(out')
      BY <1>4, <2>1, <3>1, LeftTells
    <3> QED
      BY <1>4, <2>1, <3>1, <3>2 DEF Contents
  <2> QED
    BY <1>3, <1>10, <2>2, <2>3, <2>4, <2>5, <2>6
<1>11. ASSUME ~Quiet PROVE LInv'
  BY <1>3, <1>7, <1>9, <1>10, <1>11 DEF LInv
<1> QED
  BY <1>5, <1>11

LEMMA LogInvariant == Spec => [](IInv /\ LInv)
<1>1. Init => IInv /\ LInv
  BY InitIInv, InitLInv
<1>2. IInv /\ LInv /\ [Next]_vars => (IInv /\ LInv)'
  BY NextIInv, NextLInv
<1> QED
  BY <1>1, <1>2, PTL DEF Spec
-----------------------------------------------------------------------------
(* LogService.cs:145-196, 233-334: for any messages, threads and flushes    *)
(* file, buffer and count tell what was logged, each message once and in    *)
(* order, as long as no filled buffer was turned off.                      *)
THEOREM LogIsComplete == Spec => []LogComplete
<1>1. LInv => LogComplete
  BY DEF LInv, LogComplete, Whole, Text
<1> QED
  BY LogInvariant, <1>1, PTL

(* LogService.cs:121-125, 309-319: with any switches of the buffer none is  *)
(* dropped or written twice.                                               *)
THEOREM LogLosesNothing == Spec => []NothingVanishes
<1>1. IInv /\ LInv => NothingVanishes
  <2> SUFFICES ASSUME IInv, LInv PROVE NothingVanishes
    OBVIOUS
  <2>1. out.file \in Seq(Line) /\ out.buf \in Seq(Line)
    BY IInvInParts, OutTypes
  <2>2. Count(out.file) = Len(Told(out.file)) /\ Count(out.buf) = Len(Told(out.buf))
    BY <2>1, CountTold
  <2> QED
    BY <2>2 DEF LInv, NothingVanishes, Size
<1> QED
  BY LogInvariant, <1>1, PTL

(* LogService.cs:127-137: when the flush of Dispose is over, everything     *)
(* that was logged is in the file, if the buffer is in use.                *)
THEOREM LogDisposeKeeps == Spec => DisposeKeeps
<1> DEFINE Step == exiting = "no" /\ exiting' = "flushed" /\ writer = "open" /\ out'.useMemBuf /\ ~astray'
                     => Count(out'.file) = Len(logged)
<1>1. ASSUME IInv, LInv, [Next]_vars PROVE [Step]_vars
  <2> SUFFICES ASSUME exiting = "no", exiting' = "flushed", writer = "open", out'.useMemBuf, ~astray'
               PROVE  Count(out'.file) = Len(logged)
    OBVIOUS
  <2>1. out \in Out /\ Fits(out)
    BY <1>1, IInvInParts
  <2>2. Dispose
    BY <1>1 DEF Next, vars, Refuse, Finish, Check, Handle, HandleFails, FlushLogWriting, SetUseMemBuf, DisposeLogs,
                DisposeCloses, DisposeEnds
  <2>3. out' = FlushFolded(out)
    BY <2>2 DEF Dispose, Flush, FlushAlone, FlushMeets
  <2>4. out' \in Out /\ out'.buf = <<>>
    BY <2>1, <2>3, FlushFoldedFacts
  <2>5. Size(out') = Size(out) + out.folded
    BY <2>1, <2>3, FlushFoldedTells
  <2>6. Size(out) + out.folded = Len(logged)
    BY <1>1 DEF LInv
  <2>7. out'.file \in Seq(Line) /\ Len(Told(out'.file)) \in Nat /\ Len(Told(out'.buf)) = 0
    BY <2>4, OutTypes, ToldEmpty, EmptySeq
  <2>8. Count(out'.file) = Len(Told(out'.file))
    BY <2>7, CountTold
  <2> QED
    BY <2>5, <2>6, <2>7, <2>8 DEF Size
<1>2. Spec => [][Step]_vars
  BY LogInvariant, <1>1, PTL DEF Spec
<1> QED
  BY <1>2 DEF DisposeKeeps
-----------------------------------------------------------------------------
(* The state of EventLog the refinement gives: how much the file tells, and *)
(* nothing once the promise is given up.                                   *)
Waived == stranded \/ writer = "none"
Known == IF Waived THEN 0 ELSE Len(Told(out.file))

(* The file tells at most all there is. *)
LEMMA FileTells ==
  ASSUME NEW o \in Out
  PROVE  /\ Len(Told(o.file)) \in Nat /\ Len(Told(o.file)) <= Size(o) + o.folded
         /\ o.buf = <<>> /\ o.folded = 0 => Len(Told(o.file)) = Size(o) + o.folded
<1>1. Len(Told(o.file)) \in Nat /\ Len(Told(o.buf)) \in Nat /\ o.folded \in Nat
  BY OutTypes
<1>2. o.buf = <<>> => Len(Told(o.buf)) = 0
  BY ToldEmpty, EmptySeq
<1> QED
  BY <1>1, <1>2 DEF Size

(* A message that is not folded does not repeat the one logged before.      *)
LEMMA FoldedRepeats ==
  ASSUME IInv, LInv, ~Waived, NEW m \in Message, m.content = out.last
  PROVE  E!Repeats(m)
<1>1. out \in Out /\ Fits(out) /\ logged \in Seq(Message) /\ Whole(out) = Contents /\ Ends(out)
  BY IInvInParts DEF Others, LInv, Waived
<1>2. Text(out) \in Seq(Word) /\ out.folded \in Nat
  BY <1>1, OutTypes
<1>3. Text(out) # <<>> /\ Last(Text(out)) = m.content
  BY <1>1, LogAssumption DEF Ends
<1>4. Contents # <<>> /\ Last(Contents) = m.content
  BY <1>1, <1>2, <1>3, RepeatedFacts DEF Whole
<1>5. Contents \in Seq(Word) /\ Len(Contents) = Len(logged)
      /\ (logged # <<>> => Last(Contents) = Last(logged).content)
  BY <1>1, ContentsFacts
<1>6. logged # <<>>
  BY <1>4, <1>5, EmptySeq
<1> QED
  BY <1>4, <1>5, <1>6 DEF E!Repeats, E!Last, Last

LEMMA RefineInit == Init => E!Init
<1> SUFFICES ASSUME Init PROVE E!Init
  OBVIOUS
<1>1. Told(out.file) = <<>> /\ Len(<<>>) = 0
  BY ToldEmpty, EmptySeq DEF Init
<1>2. logged = <<>> /\ Known = 0 /\ Waived \in BOOLEAN
  BY <1>1 DEF Init, Known, Waived
<1> QED
  BY <1>2 DEF E!Init, Known, Waived

LEMMA RefineNext ==
  ASSUME IInv, LInv, IInv', LInv', [Next]_vars
  PROVE  [E!Next]_<<logged, Known, Waived>>
<1> DEFINE a == Len(Told(out.file))
           b == Len(Told(out'.file))
<1>1. /\ writer' = "none" <=> writer = "none"
      /\ stranded => stranded'
      /\ writer = "closed" => Quiet
      /\ Quiet \/ Flushes \/ Switches \/ Receives \/ BreaksOff \/ SwitchBreaksOff
  BY StepKinds
<1>2. CASE Waived'
  <2>1. E!Waive
    BY <1>2 DEF E!Waive, Waived
  <2> QED
    BY <2>1 DEF E!Next
<1>3. CASE ~Waived' /\ Quiet
  <2>1. ~Waived
    BY <1>1, <1>3 DEF Waived
  <2>2. UNCHANGED <<logged, Known, Waived>>
    BY <1>3, <2>1 DEF Quiet, Known, Waived
  <2> QED
    BY <2>2
<1>4. CASE ~Waived' /\ ~Quiet
  <2>1. ~Waived /\ writer = "open"
    BY <1>1, <1>4, IInvInParts DEF Waived, Others
  <2>2. out \in Out /\ Fits(out) /\ logged \in Seq(Message)
    BY IInvInParts DEF Others
  <2>3. a \in Nat /\ b \in Nat /\ Len(logged') \in Nat /\ b <= Len(logged')
        /\ (out'.buf = <<>> /\ out'.folded = 0 => b = Len(logged'))
    <3>1. out' \in Out /\ logged' \in Seq(Message)
      BY DEF IInv, TypeOK, Out, Contents0
    <3>2. Size(out') + out'.folded = Len(logged')
      BY <1>4 DEF LInv, Waived
    <3>3. Len(logged') \in Nat
      BY <3>1, LenProperties
    <3> QED
      BY <2>2, <3>1, <3>2, <3>3, FileTells
  <2>4. Known = a /\ Known' = b /\ Waived = FALSE /\ Waived' = FALSE
    BY <1>4, <2>1 DEF Known, Waived
  <2> HIDE DEF a, b
  <2>5. ASSUME a <= b, logged' = logged PROVE E!CatchUp
    <3>1. b \in a .. Len(logged)
      BY <2>3, <2>5
    <3>2. Known' \in Known .. Len(logged) /\ UNCHANGED <<logged, Waived>>
      BY <2>4, <2>5, <3>1
    <3> QED
      BY <3>2 DEF E!CatchUp, Known, Waived
  <2>6. CASE Flushes
    <3>1. Grown(out, out')
      BY <2>1, <2>2, <2>6, FlushFoldedTells DEF Flushes
    <3> QED
      BY <2>1, <2>5, <2>6, <3>1 DEF E!Next, Flushes, Grown, Waived, a, b
  <2>7. CASE Switches
    <3> DEFINE o == Toggled(out)
    <3>1. o \in Out /\ Fits(o) /\ o.file = out.file
      BY <2>2, ToggledFacts
    <3>2. out' = FlushFolded(o) /\ logged' = logged
      BY <2>7 DEF Switches
    <3> HIDE DEF o
    <3>3. Grown(o, out')
      BY <2>1, <3>1, <3>2, FlushFoldedTells
    <3>4. a <= b
      BY <3>1, <3>3 DEF Grown, a, b
    <3> QED
      BY <2>1, <2>5, <3>2, <3>4 DEF E!Next, Waived
  <2>8. CASE Receives
    <3> PICK m \in Message : out' = Received(out, m) /\ logged' = Append(logged, m)
      BY <2>8 DEF Receives
    <3>1. a <= b
      BY <2>1, <2>2, ReceivedTells DEF Grown, a, b
    <3>2. b \in a .. Len(logged')
      BY <2>3, <3>1
    <3>3. ASSUME m.urgent, ~E!Repeats(m) PROVE b = Len(logged')
      <4>1. m.content # out.last
        BY <2>1, <3>3, FoldedRepeats
      <4>2. Tidy(out)
        BY <2>1 DEF LInv, Waived
      <4>3. out'.buf = <<>> /\ out'.folded = 0
        BY <2>1, <2>2, <3>3, <4>1, <4>2, ReceivedTells
      <4> QED
        BY <2>3, <4>3
    <3>4. /\ Known' \in Known .. Len(logged')
          /\ m.urgent /\ ~E!Repeats(m) => Known' = Len(logged')
          /\ UNCHANGED Waived
      BY <2>4, <3>2, <3>3
    <3>5. E!Accept(m)
      BY <3>4 DEF E!Accept, Known, Waived
    <3> QED
      BY <2>1, <3>5 DEF E!Next, Waived
  <2>9. CASE BreaksOff \/ SwitchBreaksOff
    <3> DEFINE o == Toggled(out)
    <3>1. o \in Out /\ Fits(o) /\ o.file = out.file
      BY <2>2, ToggledFacts
    <3>2. (Left(out, out') \/ Left(o, out')) /\ logged' = logged
      BY <2>9 DEF BreaksOff, SwitchBreaksOff
    <3> HIDE DEF o
    <3>3. Grown(out, out') \/ Grown(o, out')
      BY <2>1, <2>2, <3>1, <3>2, LeftTells
    <3>4. a <= b
      BY <3>1, <3>3 DEF Grown, a, b
    <3> QED
      BY <2>1, <2>5, <3>2, <3>4 DEF E!Next, Waived
  <2> QED
    BY <1>1, <1>4, <2>6, <2>7, <2>8, <2>9
<1> QED
  BY <1>2, <1>3, <1>4

(* LogService.cs:166-178: whatever is logged, flushed, switched and         *)
(* disposed, the file of a service that has promised nothing away tells a   *)
(* beginning of the log, and all of it once an error is logged that does    *)
(* not repeat the message before.                                          *)
THEOREM LogImplementsEventLog == Spec => EventLogRefinement
<1>1. (IInv /\ LInv) /\ (IInv /\ LInv)' /\ [Next]_vars => [E!Next]_<<logged, Known, Waived>>
  BY RefineNext
<1>2. Spec => E!Init /\ [][E!Next]_<<logged, Known, Waived>>
  BY RefineInit, <1>1, LogInvariant, PTL DEF Spec
<1> QED
  BY <1>2 DEF EventLogRefinement, E!Spec, Known, Waived
=============================================================================
