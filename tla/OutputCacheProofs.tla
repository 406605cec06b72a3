------------------------- MODULE OutputCacheProofs -------------------------
(***************************************************************************)
(* Theorems about OutputCache, for all frames and trees, all lengths and   *)
(* any size of the buffer: nothing is written past the end of              *)
(* pOutputBuffer, and the cache implements the log of frames; and about    *)
(* LuaPerf, for a file of any length: what the reader finds in it is what  *)
(* was written.                                                            *)
(*                                                                         *)
(* The proofs about the writer rest on three facts: the characters in the  *)
(* buffer are never more than the count, which stays below the size        *)
(* (Fits); the list has at most one node (OneFrameWaits); sPrevNode        *)
(* describes the end of the log while a session runs (PrevInv).            *)
(*                                                                         *)
(* Those about the reader have two halves.  An inductive invariant of the  *)
(* writer (PerfInv) says that trees stand behind the header of their frame *)
(* and that the next header carries their time.  From it, in each state,   *)
(* an induction on the lines of the file: where in the log line k stands   *)
(* (Laid, Around), and what the reader holds when it has read k lines      *)
(* (Here, TimesTold, TreesTold).                                           *)
(***************************************************************************)
EXTENDS LuaPerf, SequenceTheorems, WellFoundedInduction, TLAPS

BufferRecord == [file : Seq(String), buf : Seq(String), len : Nat, n : Nat]

Fits(b) ==
  /\ b.len <= b.n
  /\ b.n < nOutputBufferSize
  /\ b.n = 0 <=> b.buf = <<>>

LEMMA ConcatAppend ==
  ASSUME NEW S, NEW x \in Seq(S), NEW y \in Seq(S), NEW e \in S
  PROVE  /\ x \o Append(y, e) = Append(x \o y, e)
         /\ (x \o y) \o <<e>> = Append(x \o y, e)
         /\ x \o y \in Seq(S)
         /\ Append(x \o y, e) \in Seq(S)
OBVIOUS

LEMMA AppendTwo ==
  ASSUME NEW S, NEW x \in Seq(S), NEW d \in S, NEW e \in S
  PROVE  Append(Append(x, d), e) = x \o <<d, e>>
OBVIOUS

LEMMA AppendOne ==
  ASSUME NEW S, NEW x \in Seq(S), NEW e \in S
  PROVE  Append(x, e) = x \o <<e>>
OBVIOUS

(* The two cases of lprofP_toBuffer keep the buffer within its size, and   *)
(* the string comes behind everything written before.                      *)
LEMMA ToBufferLemma ==
  ASSUME NEW b \in BufferRecord, Fits(b), NEW s \in String, NEW l \in Nat
  PROVE  /\ ToBuffer(b, s, l) \in BufferRecord
         /\ Fits(ToBuffer(b, s, l))
         /\ ToBuffer(b, s, l).file \o ToBuffer(b, s, l).buf = Append(b.file \o b.buf, s)
<1> DEFINE f == b.file
           u == b.buf
           r == ToBuffer(b, s, l)
<1>1. f \in Seq(String) /\ u \in Seq(String)
  BY DEF BufferRecord
<1>2. b.len \in Nat /\ b.n \in Nat
  BY DEF BufferRecord
<1>3. CASE b.n + l + 3 >= nOutputBufferSize
  <2>1. r = [file |-> (f \o u) \o <<s>>, buf |-> <<>>, len |-> 0, n |-> 0]
    BY <1>3 DEF ToBuffer, Flushed
  <2> HIDE DEF f, u, r
  <2>2. (f \o u) \o <<s>> = Append(f \o u, s) /\ Append(f \o u, s) \in Seq(String)
    BY <1>1, ConcatAppend
  <2>3. r = [file |-> Append(f \o u, s), buf |-> <<>>, len |-> 0, n |-> 0]
    BY <2>1, <2>2, Zenon
  <2>4. r \in BufferRecord
    BY <2>2, <2>3 DEF BufferRecord
  <2>5. Fits(r)
    BY <2>3, OutputAssumption DEF Fits
  <2>6. r.file = Append(f \o u, s) /\ r.buf = <<>>
    BY <2>3, Zenon
  <2>7. r.file \o r.buf = Append(f \o u, s)
    BY <2>2, <2>6, ConcatEmptySeq
  <2> QED
    BY <2>4, <2>5, <2>7 DEF f, u, r
<1>4. CASE ~(b.n + l + 3 >= nOutputBufferSize)
  <2>1. r = [b EXCEPT !.buf = Append(@, s), !.len = @ + l + 2, !.n = @ + l + 3]
    BY <1>4 DEF ToBuffer
  <2>2. r = [file |-> f, buf |-> Append(u, s), len |-> b.len + l + 2, n |-> b.n + l + 3]
    BY <2>1 DEF BufferRecord
  <2> HIDE DEF f, u, r
  <2>3. Append(u, s) \in Seq(String) /\ Append(u, s) # <<>>
    BY <1>1, AppendProperties
  <2>4. b.len + l + 2 \in Nat /\ b.n + l + 3 \in Nat
    BY <1>2
  <2>5. r \in BufferRecord
    BY SMTT(30), <1>1, <2>2, <2>3, <2>4 DEF BufferRecord
  <2>6. /\ r.file = f /\ r.buf = Append(u, s)
        /\ r.len = b.len + l + 2 /\ r.n = b.n + l + 3
    BY <2>2, Zenon
  <2>7. Fits(r)
    <3>1. b.len <= b.n /\ nOutputBufferSize \in Nat
      BY OutputAssumption DEF Fits
    <3>2. b.len + l + 2 <= b.n + l + 3 /\ b.n + l + 3 < nOutputBufferSize /\ b.n + l + 3 # 0
      BY <1>4, <1>2, <3>1
    <3>3. r.len <= r.n /\ r.n < nOutputBufferSize
      BY <2>6, <3>2
    <3>4. r.n # 0 /\ r.buf # <<>>
      BY <2>3, <2>6, <3>2
    <3> QED
      BY <3>3, <3>4 DEF Fits
  <2>8. r.file \o r.buf = Append(f \o u, s)
    <3>1. f \o Append(u, s) = Append(f \o u, s)
      BY <1>1, ConcatAppend
    <3> QED
      BY <2>6, <3>1, Zenon
  <2> QED
    BY <2>5, <2>7, <2>8 DEF f, u, r
<1> QED
  BY <1>3, <1>4

TypeInv ==
  /\ cache \in Seq(String)
  /\ lens \in Seq(Nat)
  /\ Buffer \in BufferRecord
  /\ running \in BOOLEAN

PrevInv ==
  /\ ~running => prev.data = 0
  /\ running =>
       /\ Log = <<>> => prev.data = 0
       /\ Log # <<>> => /\ prev.id = Last(Log).id
                        /\ prev.data = IF Last(Log).trees # <<>> THEN 1 ELSE 0

OInv == TypeInv /\ OneFrameWaits /\ Fits(Buffer) /\ PrevInv

LEMMA OutputInit == Init => OInv
<1> SUFFICES ASSUME Init PROVE OInv
  OBVIOUS
<1>1. Buffer = [file |-> <<>>, buf |-> <<>>, len |-> 0, n |-> 0]
  BY DEF Init, Buffer
<1>2. Buffer \in BufferRecord
  BY <1>1 DEF BufferRecord
<1>3. Fits(Buffer)
  BY <1>1, OutputAssumption DEF Fits
<1>4. cache \in Seq(String) /\ lens \in Seq(Nat) /\ running \in BOOLEAN
  BY EmptySeq DEF Init
<1>5. OneFrameWaits
  BY DEF Init, OneFrameWaits, nMaxCacheNode
<1>6. PrevInv
  BY DEF Init, PrevInv
<1> QED
  BY <1>2, <1>3, <1>4, <1>5, <1>6 DEF OInv, TypeInv

LEMMA HeaderIsString == \A id \in FrameId : Header(id) \in String
BY EmptySeq DEF Header, String

LEMMA OneElement ==
  ASSUME NEW S, NEW s \in Seq(S), Len(s) = 1
  PROVE  s[1] \in S /\ s # <<>> /\ Head(s) = s[1] /\ Tail(s) = <<>>
<1>1. s[1] \in S /\ s # <<>>
  BY ElementOfSeq
<1>2. Head(s) = s[1]
  OBVIOUS
<1>3. Tail(s) \in Seq(S) /\ Len(Tail(s)) = 0
  BY <1>1, HeadTailProperties
<1>4. Tail(s) = <<>>
  BY <1>3, EmptySeq
<1> QED
  BY <1>1, <1>2, <1>4

(* What lprofP_output takes and leaves when one frame was waiting. *)
LEMMA ListLemma ==
  ASSUME OInv, nCacheNode = 1, NEW id \in FrameId
  PROVE  /\ cache[1] \in String /\ lens[1] \in Nat /\ cache # <<>>
         /\ Head(Append(cache, Header(id))) = cache[1]
         /\ Tail(Append(cache, Header(id))) = <<Header(id)>>
         /\ Head(Append(lens, 0)) = lens[1]
         /\ Tail(Append(lens, 0)) = <<0>>
<1>1. cache \in Seq(String) /\ Len(cache) = 1 /\ lens \in Seq(Nat) /\ Len(lens) = 1
  BY DEF OInv, TypeInv, OneFrameWaits
<1>2. cache[1] \in String /\ lens[1] \in Nat
  BY <1>1, OneElement
<1>3. cache # <<>> /\ lens # <<>> /\ Head(cache) = cache[1] /\ Head(lens) = lens[1]
  BY <1>1, OneElement
<1>4. Tail(cache) = <<>> /\ Tail(lens) = <<>>
  BY <1>1, OneElement
<1>5. /\ Head(Append(cache, Header(id))) = cache[1]
      /\ Tail(Append(cache, Header(id))) = Append(Tail(cache), Header(id))
  BY <1>1, <1>3, HeadTailAppend
<1>6. /\ Head(Append(lens, 0)) = lens[1]
      /\ Tail(Append(lens, 0)) = Append(Tail(lens), 0)
  BY <1>1, <1>3, HeadTailAppend
<1>7. Append(<<>>, Header(id)) = <<Header(id)>> /\ Append(<<>>, 0) = <<0>>
  OBVIOUS
<1> QED
  BY <1>2, <1>3, <1>4, <1>5, <1>6, <1>7

(* The frame that waited is written as the log of frames wants it, and the *)
(* new one waits.                                                          *)
LEMMA OutputStep ==
  ASSUME OInv, running, nCacheNode = 1, NEW id \in FrameId,
         Output(Append(cache, Header(id)), Append(lens, 0))
  PROVE  /\ cache' = <<Header(id)>> /\ lens' = <<0>>
         /\ Buffer' \in BufferRecord /\ Fits(Buffer')
         /\ Log' = Log \o Strings(cache[1])
         /\ prev' = IF Strings(cache[1]) = <<>> THEN prev
                    ELSE [id |-> cache[1].id, data |-> IF cache[1].trees # <<>> THEN 1 ELSE 0]
<1> DEFINE f == cache[1]
           h == Header(f.id)
           b == IF f.trees # <<>>
                THEN ToBuffer(ToBuffer(Buffer, h, HeaderLen), f, lens[1])
                ELSE IF GapHeader(f) THEN ToBuffer(Buffer, f, HeaderLen)
                ELSE Buffer
<1>1. /\ f \in String /\ lens[1] \in Nat /\ cache # <<>>
      /\ Head(Append(cache, Header(id))) = f
      /\ Tail(Append(cache, Header(id))) = <<Header(id)>>
      /\ Head(Append(lens, 0)) = lens[1]
      /\ Tail(Append(lens, 0)) = <<0>>
  BY ListLemma
<1>2. /\ cache' = <<Header(id)>> /\ lens' = <<0>>
      /\ file' = b.file /\ buf' = b.buf /\ bufLen' = b.len /\ nBufferWrited' = b.n
      /\ prev' = IF Strings(f) = <<>> THEN prev
                 ELSE [id |-> f.id, data |-> IF f.trees # <<>> THEN 1 ELSE 0]
  BY <1>1 DEF Output
<1>3. /\ Buffer \in BufferRecord /\ Fits(Buffer) /\ HeaderLen \in Nat
      /\ h \in String /\ Buffer.file = file /\ Buffer.buf = buf
      /\ file \in Seq(String) /\ buf \in Seq(String)
  <2>1. f.id \in FrameId
    BY <1>1 DEF String
  <2>2. Buffer.file = file /\ Buffer.buf = buf
    BY DEF Buffer
  <2> QED
    BY <2>1, <2>2, HeaderIsString, OutputAssumption DEF OInv, TypeInv, BufferRecord
<1> HIDE DEF f, h
<1>4. Log \in Seq(String)
  BY <1>3 DEF Log
<1>5. b \in BufferRecord /\ Fits(b) /\ b.file \o b.buf = Log \o Strings(f)
  <2>1. CASE f.trees # <<>>
    <3> DEFINE c == ToBuffer(Buffer, h, HeaderLen)
               d == ToBuffer(c, f, lens[1])
    <3>1. c \in BufferRecord /\ Fits(c) /\ c.file \o c.buf = Append(Log, h)
      BY <1>3, ToBufferLemma DEF Log
    <3> HIDE DEF c
    <3>2. d \in BufferRecord /\ Fits(d) /\ d.file \o d.buf = Append(c.file \o c.buf, f)
      BY <3>1, <1>1, ToBufferLemma
    <3> HIDE DEF d
    <3>3. Append(Append(Log, h), f) = Log \o <<h, f>>
      BY <1>1, <1>3, <1>4, AppendTwo
    <3>4. Strings(f) = <<h, f>>
      BY <2>1 DEF Strings, h
    <3>5. b = d
      BY <2>1 DEF d, c
    <3> QED
      BY <3>1, <3>2, <3>3, <3>4, <3>5
  <2>2. CASE f.trees = <<>> /\ GapHeader(f)
    <3> DEFINE c == ToBuffer(Buffer, f, HeaderLen)
    <3>1. c \in BufferRecord /\ Fits(c) /\ c.file \o c.buf = Append(Log, f)
      BY <1>1, <1>3, ToBufferLemma DEF Log
    <3>2. b = c
      BY <2>2
    <3> HIDE DEF c
    <3>3. Append(Log, f) = Log \o <<f>>
      BY <1>1, <1>4, AppendOne
    <3>4. Strings(f) = <<f>>
      BY <2>2 DEF Strings
    <3> QED
      BY <3>1, <3>2, <3>3, <3>4
  <2>3. CASE f.trees = <<>> /\ ~GapHeader(f)
    <3>1. b = Buffer /\ Strings(f) = <<>>
      BY <2>3 DEF Strings
    <3>2. Log \o <<>> = Log
      BY <1>4
    <3> QED
      BY <1>3, <3>1, <3>2 DEF Log
  <2> QED
    BY <2>1, <2>2, <2>3
<1> HIDE DEF b
<1>6. Buffer' = [file |-> b.file, buf |-> b.buf, len |-> b.len, n |-> b.n]
  BY <1>2 DEF Buffer
<1>7. Buffer' = b
  BY <1>5, <1>6 DEF BufferRecord
<1>8. Log' = b.file \o b.buf
  BY <1>2 DEF Log
<1> QED
  BY <1>2, <1>5, <1>7, <1>8 DEF f

LEMMA BufferUnchanged ==
  ASSUME UNCHANGED bufferVars
  PROVE  Buffer' = Buffer /\ Log' = Log
BY DEF bufferVars, Buffer, Log

LEMMA LogIsSeq == OInv => Log \in Seq(String) /\ file \in Seq(String) /\ buf \in Seq(String)
<1> SUFFICES ASSUME OInv PROVE Log \in Seq(String) /\ file \in Seq(String) /\ buf \in Seq(String)
  OBVIOUS
<1>1. Buffer \in BufferRecord /\ Buffer.file = file /\ Buffer.buf = buf
  BY DEF OInv, TypeInv, Buffer
<1>2. file \in Seq(String) /\ buf \in Seq(String)
  BY <1>1 DEF BufferRecord
<1> QED
  BY <1>2 DEF Log

(* sPrevNode again describes the end of the log once a frame is written.   *)
LEMMA PrevStep ==
  ASSUME OInv, running, running', NEW f \in String, Log' = Log \o Strings(f),
         prev' = IF Strings(f) = <<>> THEN prev
                 ELSE [id |-> f.id, data |-> IF f.trees # <<>> THEN 1 ELSE 0]
  PROVE  PrevInv'
<1>1. Log \in Seq(String)
  BY LogIsSeq
<1>2. CASE Strings(f) = <<>>
  <2>1. Log' = Log /\ prev' = prev
    BY <1>1, <1>2, ConcatEmptySeq
  <2> QED
    BY <2>1 DEF OInv, PrevInv
<1>3. CASE Strings(f) # <<>>
  <2>1. prev' = [id |-> f.id, data |-> IF f.trees # <<>> THEN 1 ELSE 0]
    BY <1>3
  <2>2. Header(f.id) \in String
    BY HeaderIsString DEF String
  <2>3. Log' # <<>> /\ Last(Log') = f
    <3>1. CASE Strings(f) = <<Header(f.id), f>>
      <4>1. Log' = Append(Append(Log, Header(f.id)), f)
        BY <1>1, <2>2, <3>1, AppendTwo
      <4>2. Append(Log, Header(f.id)) \in Seq(String)
        BY <1>1, <2>2, AppendProperties
      <4> QED
        BY <4>1, <4>2, AppendProperties DEF Last
    <3>2. CASE Strings(f) = <<f>>
      <4>1. Log' = Append(Log, f)
        BY <1>1, <3>2, AppendOne
      <4> QED
        BY <1>1, <4>1, AppendProperties DEF Last
    <3> QED
      BY <1>3, <3>1, <3>2 DEF Strings
  <2> QED
    BY <2>1, <2>3 DEF PrevInv
<1> QED
  BY <1>2, <1>3

LEMMA AddFrameStep ==
  ASSUME OInv, NEW id \in FrameId, AddFrame(id)
  PROVE  /\ OInv'
         /\ cache' = <<Header(id)>>
         /\ Log' = Log \o (IF cache = <<>> THEN <<>> ELSE Strings(cache[1]))
<1>1. /\ running /\ running' = running
      /\ nCacheNode = Len(cache) /\ Len(lens) = Len(cache) /\ nCacheNode < 2
      /\ cache \in Seq(String) /\ lens \in Seq(Nat)
  BY DEF AddFrame, OInv, TypeInv, OneFrameWaits, nMaxCacheNode
<1>2. <<Header(id)>> \in Seq(String) /\ Len(<<Header(id)>>) = 1 /\ <<0>> \in Seq(Nat) /\ Len(<<0>>) = 1
  <2>1. Header(id) \in String
    BY HeaderIsString
  <2> HIDE DEF Header
  <2> QED
    BY <2>1
<1>3. CASE nCacheNode = 1
  <2>1. Output(Append(cache, Header(id)), Append(lens, 0)) /\ nCacheNode' = nCacheNode
    BY <1>3 DEF AddFrame, nMaxCacheNode
  <2>2. /\ cache' = <<Header(id)>> /\ lens' = <<0>>
        /\ Buffer' \in BufferRecord /\ Fits(Buffer')
        /\ Log' = Log \o Strings(cache[1])
        /\ prev' = IF Strings(cache[1]) = <<>> THEN prev
                   ELSE [id |-> cache[1].id, data |-> IF cache[1].trees # <<>> THEN 1 ELSE 0]
    BY <1>1, <1>3, <2>1, OutputStep
  <2>3. cache[1] \in String /\ cache # <<>>
    BY <1>3, ListLemma
  <2>4. PrevInv'
    BY <1>1, <2>2, <2>3, PrevStep
  <2>5. OneFrameWaits'
    BY <1>2, <1>3, <2>1, <2>2 DEF OneFrameWaits, nMaxCacheNode
  <2>6. TypeInv'
    BY <1>1, <1>2, <2>2 DEF OInv, TypeInv
  <2>7. OInv'
    BY <2>2, <2>4, <2>5, <2>6 DEF OInv, Fits
  <2> QED
    BY <2>2, <2>3, <2>7
<1>4. CASE nCacheNode = 0
  <2>1. cache = <<>> /\ lens = <<>>
    BY <1>1, <1>4, EmptySeq
  <2>2. /\ cache' = Append(cache, Header(id)) /\ lens' = Append(lens, 0)
        /\ nCacheNode' = 1 /\ prev' = prev /\ UNCHANGED bufferVars
    BY <1>4 DEF AddFrame, nMaxCacheNode
  <2>3. cache' = <<Header(id)>> /\ lens' = <<0>>
    BY <2>1, <2>2
  <2>4. Buffer' = Buffer /\ Log' = Log
    BY <2>2, BufferUnchanged
  <2>5. PrevInv' /\ Fits(Buffer)'
    BY <1>1, <2>2, <2>4 DEF OInv, PrevInv, Fits
  <2>6. OneFrameWaits'
    <3>1. Len(cache') = 1 /\ Len(lens') = 1
      BY <1>2, <2>3
    <3> QED
      BY <2>2, <3>1 DEF OneFrameWaits, nMaxCacheNode
  <2>7. TypeInv'
    BY <1>1, <1>2, <2>3, <2>4 DEF OInv, TypeInv
  <2>8. OInv'
    BY <2>5, <2>6, <2>7 DEF OInv
  <2>9. Log' = Log \o <<>>
    BY <2>4, LogIsSeq, ConcatEmptySeq
  <2> QED
    BY <2>1, <2>3, <2>8, <2>9
<1> QED
  BY <1>1, <1>3, <1>4

LEMMA AddDataStep ==
  ASSUME OInv, NEW t \in Tree, AddData(t)
  PROVE  /\ OInv' /\ running' = running /\ Log' = Log
         /\ cache' = [i \in DOMAIN cache |-> [cache[i] EXCEPT !.trees = Append(@, t)]]
<1>1. /\ running' = running /\ nCacheNode' = nCacheNode /\ prev' = prev
      /\ cache \in Seq(String) /\ lens \in Seq(Nat)
      /\ nCacheNode = Len(cache) /\ Len(lens) = Len(cache) /\ nCacheNode < 2
      /\ UNCHANGED bufferVars
  BY DEF AddData, OInv, TypeInv, OneFrameWaits, nMaxCacheNode
<1>2. Buffer' = Buffer /\ Log' = Log
  BY <1>1, BufferUnchanged
<1>3. PrevInv' /\ Fits(Buffer)'
  BY <1>1, <1>2 DEF OInv, PrevInv, Fits
<1>4. CASE cache = <<>>
  <2>1. cache' = cache /\ lens' = lens
    BY <1>4 DEF AddData
  <2>2. OInv'
    BY <1>1, <1>2, <1>3, <2>1 DEF OInv, TypeInv, OneFrameWaits
  <2>3. DOMAIN cache = {}
    BY <1>4
  <2>4. <<>> = [i \in DOMAIN cache |-> [cache[i] EXCEPT !.trees = Append(@, t)]]
    BY <2>3
  <2> QED
    BY <1>1, <1>2, <1>4, <2>1, <2>2, <2>4
<1>5. CASE cache # <<>>
  <2>1. Len(cache) = 1 /\ Len(lens) = 1
    BY <1>1, <1>5, EmptySeq
  <2>2. cache[1] \in String /\ lens[1] \in Nat
    BY <1>1, <2>1, OneElement
  <2> DEFINE c == [cache[1] EXCEPT !.trees = Append(@, t)]
             glue == IF cache[1].trees = <<>> THEN 0 ELSE 2
             l == lens[1] + glue + TreeLen[t]
  <2>3. c \in String
    <3>1. Append(cache[1].trees, t) \in Seq(Tree)
      BY <2>2 DEF String
    <3> QED
      BY <2>2, <3>1 DEF String
  <2>4. l \in Nat
    BY <2>2, OutputAssumption
  <2>5. cache' = [cache EXCEPT ![1] = c] /\ lens' = [lens EXCEPT ![1] = l]
    BY <1>5, <2>1 DEF AddData
  <2>6. cache' = [i \in DOMAIN cache |-> [cache[i] EXCEPT !.trees = Append(@, t)]]
    <3>1. DOMAIN cache = {1}
      BY <1>1, <2>1
    <3> QED
      BY <2>5, <3>1
  <2> HIDE DEF c, l
  <2>7. cache' \in Seq(String) /\ Len(cache') = 1
    BY <1>1, <2>1, <2>3, <2>5, ExceptSeq
  <2>8. lens' \in Seq(Nat) /\ Len(lens') = 1
    BY <1>1, <2>1, <2>4, <2>5, ExceptSeq
  <2>9. OneFrameWaits'
    BY <1>1, <2>1, <2>7, <2>8 DEF OneFrameWaits, nMaxCacheNode
  <2>10. TypeInv'
    BY <1>1, <1>2, <2>7, <2>8 DEF OInv, TypeInv
  <2> QED
    BY <1>1, <1>2, <1>3, <2>6, <2>9, <2>10 DEF OInv
<1> QED
  BY <1>4, <1>5

LEMMA OpenStep ==
  ASSUME OInv, Open
  PROVE  OInv' /\ Log' = <<>> /\ ~running /\ running' /\ cache' = cache
<1>1. /\ ~running /\ running' = TRUE /\ cache' = cache /\ lens' = lens /\ nCacheNode' = nCacheNode
      /\ buf' = <<>> /\ bufLen' = 0 /\ nBufferWrited' = 0 /\ file' = <<>> /\ prev' = prev
  BY DEF Open, cacheVars
<1>2. Buffer' = [file |-> <<>>, buf |-> <<>>, len |-> 0, n |-> 0] /\ Log' = <<>>
  BY <1>1 DEF Buffer, Log
<1>3. Buffer' \in BufferRecord /\ Fits(Buffer')
  BY <1>2, OutputAssumption DEF BufferRecord, Fits
<1>4. OneFrameWaits'
  BY <1>1 DEF OInv, OneFrameWaits
<1>5. PrevInv'
  BY <1>1, <1>2 DEF OInv, PrevInv
<1> QED
  BY <1>1, <1>2, <1>3, <1>4, <1>5 DEF OInv, TypeInv, Fits

LEMMA CloseStep ==
  ASSUME OInv, Close
  PROVE  OInv' /\ Log' = Log /\ running /\ ~running' /\ cache' = <<>>
<1>1. /\ running /\ running' = FALSE /\ cache' = <<>> /\ lens' = <<>> /\ nCacheNode' = 0
      /\ file' = file \o buf /\ buf' = <<>> /\ bufLen' = 0 /\ nBufferWrited' = 0
      /\ prev' = [id |-> 0, data |-> 0]
  BY DEF Close
<1>2. Log \in Seq(String)
  BY LogIsSeq
<1>3. Buffer' = [file |-> Log, buf |-> <<>>, len |-> 0, n |-> 0]
  BY <1>1 DEF Buffer, Log
<1>4. Log' = Log \o <<>>
  BY <1>1 DEF Log
<1>5. Log' = Log
  BY <1>2, <1>4, ConcatEmptySeq
<1>6. Buffer' \in BufferRecord /\ Fits(Buffer')
  BY <1>2, <1>3, OutputAssumption DEF BufferRecord, Fits
<1>7. OneFrameWaits'
  BY <1>1 DEF OneFrameWaits, nMaxCacheNode
<1>8. PrevInv'
  BY <1>1 DEF PrevInv
<1>9. TypeInv'
  BY <1>1, <1>6, EmptySeq DEF TypeInv
<1> QED
  BY <1>1, <1>5, <1>6, <1>7, <1>8, <1>9 DEF OInv, Fits

(* Steps that leave the list, sPrevNode and the buffer alone. *)
LEMMA OutputStutter ==
  ASSUME OInv, UNCHANGED <<running, cacheVars, bufferVars>>
  PROVE  OInv' /\ UNCHANGED <<running, cache, Log>>
<1>1. running' = running /\ cache' = cache /\ lens' = lens /\ nCacheNode' = nCacheNode /\ prev' = prev
  BY DEF cacheVars
<1>2. Buffer' = Buffer /\ Log' = Log
  BY BufferUnchanged
<1>3. OneFrameWaits' /\ PrevInv'
  BY <1>1, <1>2 DEF OInv, OneFrameWaits, PrevInv
<1>4. TypeInv' /\ Fits(Buffer)'
  BY <1>1, <1>2 DEF OInv, TypeInv, Fits
<1> QED
  BY <1>1, <1>2, <1>3, <1>4 DEF OInv

LEMMA OutputInvStep == OInv /\ [Next]_outputVars => OInv'
<1> SUFFICES ASSUME OInv, [Next]_outputVars PROVE OInv'
  OBVIOUS
<1>1. ASSUME NEW id \in FrameId, AddFrame(id) PROVE OInv'
  BY <1>1, AddFrameStep
<1>2. ASSUME NEW t \in Tree, AddData(t) PROVE OInv'
  BY <1>2, AddDataStep
<1>3. CASE Open
  BY <1>3, OpenStep
<1>4. CASE Close
  BY <1>4, CloseStep
<1>5. ASSUME NEW c \in BOOLEAN, SetCallback(c) PROVE OInv'
  BY <1>5, OutputStutter DEF SetCallback
<1>6. CASE UNCHANGED outputVars
  BY <1>6, OutputStutter DEF outputVars
<1> QED
  BY <1>1, <1>2, <1>3, <1>4, <1>5, <1>6 DEF Next

LEMMA OutputInvariant == Spec => []OInv
BY OutputInit, OutputInvStep, PTL DEF Spec

(* Whatever frames and trees arrive and however long they are, the strings *)
(* in pOutputBuffer and the NUL behind them fit into it, and a count of    *)
(* zero means an empty buffer (output.c:65-84).                            *)
THEOREM OutputBufferFits == Spec => []BufferFits
<1>1. OInv => BufferFits
  <2> SUFFICES ASSUME OInv PROVE BufferFits
    OBVIOUS
  <2>1. Buffer \in BufferRecord /\ Fits(Buffer)
    BY DEF OInv, TypeInv
  <2>2. Buffer.len = bufLen /\ Buffer.n = nBufferWrited /\ Buffer.buf = buf
    BY DEF Buffer
  <2>3. bufLen \in Nat /\ nBufferWrited \in Nat
    BY <2>1, <2>2 DEF BufferRecord
  <2> QED
    BY <2>1, <2>2, <2>3, OutputAssumption DEF Fits, BufferFits
<1> QED
  BY OutputInvariant, <1>1, PTL

(* At most one frame waits in the list between two calls, and nCacheNode   *)
(* counts it (output.c:107-109, 202-208).                                  *)
THEOREM OutputOneFrameWaits == Spec => []OneFrameWaits
<1>1. OInv => OneFrameWaits
  BY DEF OInv
<1> QED
  BY OutputInvariant, <1>1, PTL
(* What of TypeOK the argument above does not need. *)
RestOK ==
  /\ callback \in BOOLEAN
  /\ prev \in [id : FrameId \cup {0}, data : {0, 1}]
  /\ sent \in Seq(String)

LEMMA StringsAreStrings ==
  ASSUME NEW f \in String
  PROVE  Strings(f) \in Seq(String)
<1>1. Header(f.id) \in String
  BY HeaderIsString DEF String
<1> DEFINE h == Header(f.id)
<1> HIDE DEF h
<1>2. h \in String
  BY <1>1 DEF h
<1>3. <<h, f>> \in Seq(String) /\ <<f>> \in Seq(String) /\ <<>> \in Seq(String)
  BY <1>2
<1> QED
  BY <1>3 DEF Strings, h

LEMMA RestStep == OInv /\ RestOK /\ [Next]_outputVars => RestOK'
<1> SUFFICES ASSUME OInv, RestOK, [Next]_outputVars PROVE RestOK'
  OBVIOUS
<1>e. <<>> \in Seq(String)
  BY EmptySeq
<1>1. ASSUME NEW id \in FrameId, AddFrame(id) PROVE RestOK'
  <2>1. callback' = callback
    BY <1>1 DEF AddFrame
  <2>2. nCacheNode = Len(cache) /\ nCacheNode < 2 /\ cache \in Seq(String)
    BY DEF OInv, TypeInv, OneFrameWaits, nMaxCacheNode
  <2>3. CASE nCacheNode = 1
    <3>1. Output(Append(cache, Header(id)), Append(lens, 0))
      BY <1>1, <2>3 DEF AddFrame, nMaxCacheNode
    <3> DEFINE f == cache[1]
    <3>2. f \in String /\ Head(Append(cache, Header(id))) = f
      BY <2>3, ListLemma
    <3>3. /\ sent' = IF callback THEN Strings(f) ELSE <<>>
          /\ prev' = IF Strings(f) = <<>> THEN prev
                     ELSE [id |-> f.id, data |-> IF f.trees # <<>> THEN 1 ELSE 0]
      BY <3>1, <3>2 DEF Output, SendUnityMessage
    <3> HIDE DEF f
    <3>4. Strings(f) \in Seq(String)
      BY <3>2, StringsAreStrings
    <3>5. sent' \in Seq(String)
      BY <3>3, <3>4, <1>e
    <3>6. f.id \in FrameId \cup {0}
      BY <3>2 DEF String
    <3>7. prev' \in [id : FrameId \cup {0}, data : {0, 1}]
      BY <3>3, <3>6 DEF RestOK
    <3> QED
      BY <2>1, <3>5, <3>7 DEF RestOK
  <2>4. CASE nCacheNode = 0
    <3>1. sent' = <<>> /\ prev' = prev
      BY <1>1, <2>4 DEF AddFrame, nMaxCacheNode
    <3> QED
      BY <2>1, <3>1, <1>e DEF RestOK
  <2> QED
    BY <2>2, <2>3, <2>4
<1>2. ASSUME NEW t \in Tree, AddData(t) PROVE RestOK'
  BY <1>2, <1>e DEF AddData, RestOK
<1>3. CASE Open
  BY <1>3, <1>e DEF Open, RestOK, cacheVars
<1>4. CASE Close
  BY <1>4, <1>e DEF Close, RestOK
<1>5. ASSUME NEW c \in BOOLEAN, SetCallback(c) PROVE RestOK'
  BY <1>5, <1>e DEF SetCallback, RestOK, cacheVars
<1>6. CASE UNCHANGED outputVars
  BY <1>6 DEF outputVars, RestOK, cacheVars
<1> QED
  BY <1>1, <1>2, <1>3, <1>4, <1>5, <1>6 DEF Next

(* List and counter agree over frames, trees, closes and restarts: exactly *)
(* the frames nCacheNode counts are in the list, with their lengths, and no *)
(* frame is held back longer than until the next (output.c:86-235).        *)
THEOREM OutputCacheConsistent == Spec => []CacheConsistent
<1>1. Init => RestOK
  <2>1. <<>> \in Seq(String)
    BY EmptySeq
  <2>2. [id |-> 0, data |-> 0] \in [id : FrameId \cup {0}, data : {0, 1}]
    OBVIOUS
  <2> QED
    BY <2>1, <2>2 DEF Init, RestOK
<1>2. OInv /\ RestOK => CacheConsistent
  <2> SUFFICES ASSUME OInv, RestOK PROVE TypeOK
    BY DEF CacheConsistent, OInv
  <2>1. Buffer \in BufferRecord /\ Buffer.file = file /\ Buffer.buf = buf
        /\ Buffer.len = bufLen /\ Buffer.n = nBufferWrited
    BY DEF OInv, TypeInv, Buffer
  <2>2. file \in Seq(String) /\ buf \in Seq(String) /\ bufLen \in Nat /\ nBufferWrited \in Nat
    BY <2>1 DEF BufferRecord
  <2>3. cache \in Seq(String) /\ lens \in Seq(Nat) /\ running \in BOOLEAN /\ nCacheNode \in Nat
    BY DEF OInv, TypeInv, OneFrameWaits
  <2> QED
    BY <2>2, <2>3 DEF RestOK, TypeOK
<1> QED
  BY OutputInvariant, RestStep, <1>1, <1>2, PTL DEF Spec
-----------------------------------------------------------------------------
(* Because of PrevInv, lprofP_output decides as the log of frames does.    *)
LEMMA StringsIsWritten ==
  ASSUME OInv, running, NEW f \in String
  PROVE  Strings(f) = Abstract!Written(f)
<1>1. CASE f.trees # <<>>
  BY <1>1 DEF Strings, Abstract!Written, Header, Abstract!Header
<1>2. CASE f.trees = <<>>
  <2>1. GapHeader(f) <=> (Log # <<>> /\ Last(Log).trees # <<>> /\ Last(Log).id # f.id)
    BY <1>2 DEF GapHeader, OInv, PrevInv
  <2> QED
    BY <1>2, <2>1 DEF Strings, Abstract!Written, Last, Abstract!Last
<1> QED
  BY <1>1, <1>2

LEMMA LogInit == Init => Abstract!FrameLogInit
<1> SUFFICES ASSUME Init PROVE Abstract!FrameLogInit
  OBVIOUS
<1>1. Log = <<>>
  BY DEF Init, Log
<1> QED
  BY <1>1 DEF Init, Abstract!FrameLogInit

LEMMA LogStep ==
  OInv /\ [Next]_outputVars => [Abstract!FrameLogNext]_Abstract!frameLogVars
<1> SUFFICES ASSUME OInv, [Next]_outputVars
             PROVE  [Abstract!FrameLogNext]_Abstract!frameLogVars
  OBVIOUS
<1>1. ASSUME NEW id \in FrameId, AddFrame(id) PROVE Abstract!Announce(id)
  <2>1. /\ cache' = <<Header(id)>> /\ running /\ running' = running
        /\ Log' = Log \o (IF cache = <<>> THEN <<>> ELSE Strings(cache[1]))
    BY <1>1, AddFrameStep DEF AddFrame
  <2>2. CASE cache = <<>>
    BY <2>1, <2>2 DEF Abstract!Announce, Header, Abstract!Header
  <2>3. CASE cache # <<>>
    <3>1. cache[1] \in String
      <4>1. cache \in Seq(String) /\ nCacheNode = Len(cache) /\ nCacheNode < 2
        BY DEF OInv, TypeInv, OneFrameWaits, nMaxCacheNode
      <4>2. Len(cache) = 1
        BY <2>3, <4>1, EmptySeq
      <4> QED
        BY <4>1, <4>2, OneElement
    <3>2. Strings(cache[1]) = Abstract!Written(cache[1])
      BY <2>1, <3>1, StringsIsWritten
    <3> QED
      BY <2>1, <2>3, <3>2 DEF Abstract!Announce, Header, Abstract!Header
  <2> QED
    BY <2>2, <2>3
<1>2. ASSUME NEW t \in Tree, AddData(t) PROVE Abstract!Attach(t)
  BY <1>2, AddDataStep DEF Abstract!Attach, AddData
<1>3. ASSUME Open PROVE Abstract!Begin
  <2>1. Log' = <<>> /\ ~running /\ running' = TRUE /\ cache' = cache
    BY <1>3, OpenStep DEF Open
  <2> QED
    BY <2>1 DEF Abstract!Begin
<1>4. ASSUME Close PROVE Abstract!End
  <2>1. Log' = Log /\ running /\ running' = FALSE /\ cache' = <<>>
    BY <1>4, CloseStep DEF Close
  <2> QED
    BY <2>1 DEF Abstract!End
<1>5. ASSUME NEW c \in BOOLEAN, SetCallback(c) PROVE UNCHANGED Abstract!frameLogVars
  BY <1>5, OutputStutter DEF SetCallback, Abstract!frameLogVars
<1>6. CASE UNCHANGED outputVars
  <2>1. UNCHANGED <<running, cacheVars, bufferVars>>
    BY <1>6 DEF outputVars
  <2>2. UNCHANGED <<running, cache, Log>>
    BY <2>1, OutputStutter
  <2>3. UNCHANGED Abstract!frameLogVars
    BY <2>2 DEF Abstract!frameLogVars
  <2> QED
    BY <2>3
<1> QED
  BY <1>1, <1>2, <1>3, <1>4, <1>5, <1>6 DEF Next, Abstract!FrameLogNext

(* The list, sPrevNode and the buffer implement the log of frames: what is *)
(* in the file and the buffer is what the frames and trees call for, each  *)
(* once and in order, for every length of string and size of buffer        *)
(* (output.c:65-244).                                                      *)
THEOREM OutputImplementsLog == Spec => LogRefinement
BY LogInit, LogStep, OutputInvariant, PTL DEF Spec, LogRefinement, Abstract!FrameLogSpec
-----------------------------------------------------------------------------
LEMMA NewPart ==
  ASSUME NEW S, NEW s \in Seq(S), NEW t \in Seq(S)
  PROVE  SubSeq(s \o t, Len(s) + 1, Len(s \o t)) = t
<1>1. Len(s) \in Nat /\ Len(t) \in Nat /\ Len(s \o t) = Len(s) + Len(t)
  BY LenProperties
<1>2. CASE Len(t) = 0
  <2>1. SubSeq(s \o t, Len(s) + 1, Len(s)) = <<>>
    BY <1>1, SubSeqEmpty
  <2>2. t = <<>>
    BY <1>2, EmptySeq
  <2> QED
    BY <1>1, <1>2, <2>1, <2>2
<1>3. CASE Len(t) > 0
  <2>1. SubSeq(s \o t, Len(s) + 1, Len(s) + Len(t)) = SubSeq(t, Len(s) + 1 - Len(s), Len(s) + Len(t) - Len(s))
    BY <1>1, <1>3, SubSeqOfConcat2
  <2>2. Len(s) + 1 - Len(s) = 1 /\ Len(s) + Len(t) - Len(s) = Len(t)
    BY <1>1
  <2> QED
    BY <1>1, <2>1, <2>2, SubSeqFull
<1> QED
  BY <1>1, <1>2, <1>3

LEMMA NothingNew ==
  ASSUME OInv, Log' = Log
  PROVE  SubSeq(Log', Len(Log) + 1, Len(Log')) = <<>>
<1>1. Log \in Seq(String)
  BY LogIsSeq
<1> DEFINE l == Log
<1> HIDE DEF l
<1>2. l \in Seq(String)
  BY <1>1 DEF l
<1>3. Len(l) \in Nat
  BY <1>2, LenProperties
<1>4. SubSeq(l, Len(l) + 1, Len(l)) = <<>>
  BY <1>3, SubSeqEmpty
<1> QED
  BY <1>4 DEF l

(* lprofP_output gives the callback the strings it writes, and it alone    *)
(* writes while a session runs.                                            *)
LEMMA CallbackStep ==
  ASSUME OInv, [Next]_outputVars
  PROVE  [running /\ running' =>
            sent' = IF callback THEN SubSeq(Log', Len(Log) + 1, Len(Log')) ELSE <<>>]_outputVars
<1> DEFINE New == SubSeq(Log', Len(Log) + 1, Len(Log'))
<1> SUFFICES ASSUME running, running', ~ UNCHANGED outputVars
             PROVE  sent' = IF callback THEN New ELSE <<>>
  OBVIOUS
<1>1. ASSUME NEW id \in FrameId, AddFrame(id) PROVE sent' = IF callback THEN New ELSE <<>>
  <2>1. /\ nCacheNode = Len(cache) /\ nCacheNode < 2 /\ cache \in Seq(String)
    BY DEF OInv, TypeInv, OneFrameWaits, nMaxCacheNode
  <2>2. Log' = Log \o (IF cache = <<>> THEN <<>> ELSE Strings(cache[1]))
    BY <1>1, AddFrameStep
  <2>3. CASE nCacheNode = 1
    <3> DEFINE f == cache[1]
    <3>1. f \in String /\ cache # <<>> /\ Head(Append(cache, Header(id))) = f
      BY <2>3, ListLemma
    <3>2. Output(Append(cache, Header(id)), Append(lens, 0))
      BY <1>1, <2>3 DEF AddFrame, nMaxCacheNode
    <3>3. sent' = IF callback THEN Strings(f) ELSE <<>>
      BY <3>1, <3>2 DEF Output, SendUnityMessage
    <3>4. Strings(f) \in Seq(String) /\ Log \in Seq(String)
      BY <3>1, StringsAreStrings, LogIsSeq
    <3>5. Log' = Log \o Strings(f)
      BY <2>2, <3>1
    <3> HIDE DEF f
    <3>6. New = Strings(f)
      BY <3>4, <3>5, NewPart
    <3> QED
      BY <3>3, <3>6
  <2>4. CASE nCacheNode = 0
    <3>1. sent' = <<>>
      BY <1>1, <2>4 DEF AddFrame, nMaxCacheNode
    <3>2. cache = <<>>
      BY <2>1, <2>4, EmptySeq
    <3>3. Log' = Log
      BY <2>2, <3>2, LogIsSeq, EmptySeq
    <3>4. New = <<>>
      BY <3>3, NothingNew
    <3> QED
      BY <3>1, <3>4
  <2> QED
    BY <2>1, <2>3, <2>4
<1>2. ASSUME NEW t \in Tree, AddData(t) PROVE sent' = IF callback THEN New ELSE <<>>
  <2>1. sent' = <<>> /\ Log' = Log
    BY <1>2, AddDataStep DEF AddData
  <2>2. New = <<>>
    BY <2>1, NothingNew
  <2> QED
    BY <2>1, <2>2
<1>3. ~Open /\ ~Close
  BY DEF Open, Close
<1>4. ASSUME NEW c \in BOOLEAN, SetCallback(c) PROVE sent' = IF callback THEN New ELSE <<>>
  <2>1. sent' = <<>> /\ UNCHANGED bufferVars
    BY <1>4 DEF SetCallback
  <2>2. Log' = Log
    BY <2>1 DEF Log, bufferVars
  <2>3. New = <<>>
    BY <2>2, NothingNew
  <2> QED
    BY <2>1, <2>3
<1> HIDE DEF New
<1> QED
  BY <1>1, <1>2, <1>3, <1>4 DEF Next

(* The callback is given exactly what goes to the file, when it goes to the *)
(* buffer, whatever its registrations and the buffer's state               *)
(* (output.c:160-175, 194).                                                *)
THEOREM OutputCallbackSeesLog == Spec => CallbackSeesLog
BY OutputInvariant, CallbackStep, PTL DEF Spec, CallbackSeesLog

-----------------------------------------------------------------------------
(* Trees stand behind the header of their frame. *)
Headed ==
  \A j \in 1 .. Len(Log) :
    Log[j].trees # <<>> => j > 1 /\ Log[j - 1].trees = <<>> /\ Log[j - 1].id = Log[j].id

(* What the header behind the trees of string j carries. *)
TimeOf(j) == IF j \in unheaded THEN Nobody ELSE j

CarriesOK ==
  /\ carries \in Seq(Int) /\ Len(carries) = Len(Log) /\ unheaded \subseteq 1 .. Len(Log)
  /\ \A j \in 1 .. Len(Log) - 1 : Log[j].trees # <<>> => carries[j + 1] = TimeOf(j)

(* The log ends with trees: the next header will carry their time. *)
LastOpen == Log # <<>> /\ Log[Len(Log)].trees # <<>>

CarriedOK ==
  /\ preFrame \in BOOLEAN /\ carried \in Int
  /\ ~running => cache = <<>> /\ carried = Nobody
  /\ running /\ cache = <<>> => Log = <<>>
  /\ running /\ cache # <<>> => /\ preFrame <=> cache[1].trees # <<>>
                                /\ LastOpen => carried = TimeOf(Len(Log))
  /\ carried \notin {Nobody, Stray} => LastOpen /\ carried = Len(Log)

PerfInv == Headed /\ CarriesOK /\ CarriedOK

LEMMA InitPerfInv == PerfInit => PerfInv
<1> SUFFICES ASSUME PerfInit PROVE PerfInv
  OBVIOUS
<1>1. Log = <<>> /\ Len(Log) = 0
  BY EmptySeq DEF PerfInit, Init, Log
<1>2. carries = <<>> /\ carries \in Seq(Int) /\ unheaded = {} /\ carried = 0 /\ preFrame = FALSE
  BY EmptySeq DEF PerfInit, Nobody
<1>3. running = FALSE /\ cache = <<>>
  BY DEF PerfInit, Init
<1>4. Headed
  BY <1>1 DEF Headed
<1>5. CarriesOK
  <2>1. Len(carries) = Len(Log)
    BY <1>1, <1>2
  <2> QED
    BY <1>1, <1>2, <2>1 DEF CarriesOK
<1>6. CarriedOK
  <2>1. preFrame \in BOOLEAN
    BY <1>2
  <2>2. carried \in Int /\ carried = Nobody
    BY <1>2 DEF Nobody
  <2> QED
    BY <1>3, <2>1, <2>2 DEF CarriedOK
<1> QED
  BY <1>4, <1>5, <1>6 DEF PerfInv

(* PerfInv is about these. *)
LEMMA PerfInvStutter ==
  ASSUME PerfInv, UNCHANGED <<Log, running, cache, preFrame, carried, carries, unheaded>>
  PROVE  PerfInv'
<1>1. Headed'
  BY DEF PerfInv, Headed
<1>2. CarriesOK'
  BY DEF PerfInv, CarriesOK, TimeOf
<1>3. CarriedOK'
  BY DEF PerfInv, CarriedOK, LastOpen, TimeOf
<1> QED
  BY <1>1, <1>2, <1>3 DEF PerfInv

LEMMA CacheOne ==
  ASSUME OInv
  PROVE  /\ cache \in Seq(String) /\ Len(cache) \in {0, 1} /\ nCacheNode = Len(cache)
         /\ cache # <<>> => nCacheNode = 1 /\ Len(cache) = 1 /\ cache[1] \in String /\ DOMAIN cache = {1}
<1>1. cache \in Seq(String) /\ nCacheNode = Len(cache) /\ nCacheNode < 2
  BY DEF OInv, TypeInv, OneFrameWaits, nMaxCacheNode
<1>2. Len(cache) \in {0, 1}
  BY <1>1
<1>3. cache # <<>> => Len(cache) = 1
  BY <1>1, <1>2, EmptySeq
<1>4. Len(cache) = 1 => cache[1] \in String /\ DOMAIN cache = {1}
  BY <1>1
<1> QED
  BY <1>1, <1>2, <1>3, <1>4

LEMMA TreeKeeps ==
  ASSUME OInv, PerfInv, NEW t \in Tree, LprofTTojson(t)
  PROVE  PerfInv'
<1>1. /\ running' = running /\ Log' = Log /\ running
      /\ cache' = [i \in DOMAIN cache |-> [cache[i] EXCEPT !.trees = Append(@, t)]]
  BY AddDataStep DEF LprofTTojson, AddData
<1>2. preFrame' = TRUE /\ UNCHANGED <<carried, carries, unheaded>>
  BY DEF LprofTTojson
<1>3. Headed'
  BY <1>1 DEF PerfInv, Headed
<1>4. CarriesOK'
  BY <1>1, <1>2 DEF PerfInv, CarriesOK, TimeOf
<1>5. cache' # <<>> => cache # <<>> /\ cache'[1].trees # <<>>
  <2>1. CASE cache = <<>>
    <3>1. DOMAIN cache = {}
      BY <2>1
    <3>2. DOMAIN cache' = {}
      BY <1>1, <3>1
    <3>3. cache' \in Seq(String)
      <4>1. OInv'
        BY AddDataStep DEF LprofTTojson
      <4> QED
        BY <4>1 DEF OInv, TypeInv
    <3> QED
      BY <3>2, <3>3
  <2>2. CASE cache # <<>>
    <3>1. cache[1] \in String /\ DOMAIN cache = {1}
      BY <2>2, CacheOne
    <3>2. cache'[1] = [cache[1] EXCEPT !.trees = Append(@, t)]
      BY <1>1, <3>1
    <3>3. cache'[1].trees = Append(cache[1].trees, t) /\ cache[1].trees \in Seq(Tree)
      BY <3>1, <3>2 DEF String
    <3>4. Append(cache[1].trees, t) # <<>>
      BY <3>3, AppendProperties
    <3> QED
      BY <2>2, <3>3, <3>4
  <2> QED
    BY <2>1, <2>2
<1>6. cache' = <<>> => cache = <<>>
  <2>1. CASE cache # <<>>
    <3>1. DOMAIN cache' = {1}
      BY <1>1, <2>1, CacheOne
    <3> QED
      BY <3>1
  <2> QED
    BY <2>1
<1>7. CarriedOK'
  <2>1. /\ running /\ cache = <<>> => Log = <<>>
        /\ running /\ cache # <<>> => (LastOpen => carried = TimeOf(Len(Log)))
        /\ carried \notin {Nobody, Stray} => LastOpen /\ carried = Len(Log)
        /\ carried \in Int
    BY DEF PerfInv, CarriedOK
  <2>2. LastOpen' = LastOpen /\ TimeOf(Len(Log))' = TimeOf(Len(Log))
    BY <1>1, <1>2 DEF LastOpen, TimeOf
  <2> QED
    BY <1>1, <1>2, <1>5, <1>6, <2>1, <2>2 DEF CarriedOK
<1> QED
  BY <1>3, <1>4, <1>7 DEF PerfInv

LEMMA NewFileKeeps ==
  ASSUME OInv, PerfInv, NewFile
  PROVE  PerfInv'
<1>1. Log' = <<>> /\ ~running /\ running' /\ cache' = cache
  BY OpenStep DEF NewFile
<1>2. carries' = <<>> /\ unheaded' = {} /\ preFrame' = preFrame /\ carried' = carried
  BY DEF NewFile
<1>3. Len(Log') = 0 /\ <<>> \in Seq(Int)
  BY <1>1, EmptySeq
<1>4. Headed'
  BY <1>3 DEF Headed
<1>5. CarriesOK'
  <2>1. Len(carries') = Len(Log')
    BY <1>1, <1>2
  <2> QED
    BY <1>2, <1>3, <2>1 DEF CarriesOK
<1>6. CarriedOK'
  BY <1>1, <1>2 DEF PerfInv, CarriedOK
<1> QED
  BY <1>4, <1>5, <1>6 DEF PerfInv

LEMMA EndFileKeeps ==
  ASSUME OInv, PerfInv, EndFile
  PROVE  PerfInv'
<1>1. Log' = Log /\ running /\ ~running' /\ cache' = <<>>
  BY CloseStep DEF EndFile
<1>2. carried' = Nobody /\ UNCHANGED <<preFrame, carries, unheaded>>
  BY DEF EndFile
<1>3. Headed'
  BY <1>1 DEF PerfInv, Headed
<1>4. CarriesOK'
  BY <1>1, <1>2 DEF PerfInv, CarriesOK, TimeOf
<1>5. CarriedOK'
  BY <1>1, <1>2 DEF PerfInv, CarriedOK, Nobody
<1> QED
  BY <1>3, <1>4, <1>5 DEF PerfInv
-----------------------------------------------------------------------------
(* What a new frame leaves of the one before it in the log. *)
LEMMA FrameCases ==
  ASSUME OInv, PerfInv, NEW id \in FrameId, LprofTFrame(id)
  PROVE  /\ running /\ running' /\ cache' # <<>> /\ cache'[1].trees = <<>>
         /\ preFrame' = FALSE /\ Log \in Seq(String)
         /\ \/ cache = <<>> /\ Log = <<>> /\ Log' = Log
            \/ /\ cache # <<>> /\ cache[1] \in String /\ cache[1].trees # <<>>
               /\ Log' = Log \o <<Header(cache[1].id), cache[1]>>
            \/ /\ cache # <<>> /\ cache[1] \in String /\ cache[1].trees = <<>>
               /\ Log' = Log \o <<cache[1]>>
            \/ cache # <<>> /\ cache[1].trees = <<>> /\ Log' = Log
<1>1. /\ AddFrame(id) /\ running /\ running' = running
  BY DEF LprofTFrame, AddFrame
<1>2. /\ cache' = <<Header(id)>>
      /\ Log' = Log \o (IF cache = <<>> THEN <<>> ELSE Strings(cache[1]))
  BY <1>1, AddFrameStep
<1>3. cache' # <<>> /\ cache'[1].trees = <<>>
  BY <1>2 DEF Header
<1>4. Log \in Seq(String)
  BY LogIsSeq
<1>5. Log \o <<>> = Log
  BY <1>4, ConcatEmptySeq
<1>6. cache = <<>> => Log = <<>> /\ Log' = Log
  BY <1>1, <1>2, <1>5 DEF PerfInv, CarriedOK
<1>7. cache # <<>> => cache[1] \in String
  BY CacheOne
<1>8. ASSUME cache # <<>>, cache[1].trees # <<>>
      PROVE  Log' = Log \o <<Header(cache[1].id), cache[1]>>
  BY <1>2, <1>8 DEF Strings
<1>9. ASSUME cache # <<>>, cache[1].trees = <<>>
      PROVE  Log' = Log \o <<cache[1]>> \/ Log' = Log
  BY <1>2, <1>5, <1>9 DEF Strings
<1>10. preFrame' = FALSE
  BY DEF LprofTFrame, FrameHeader
<1> QED
  BY <1>1, <1>3, <1>4, <1>6, <1>7, <1>8, <1>9, <1>10

(* What comes behind a sequence leaves it as it is. *)
LEMMA SeqBefore ==
  ASSUME NEW S, NEW l \in Seq(S), NEW w \in Seq(S)
  PROVE  /\ Len(l) \in Nat /\ Len(w) \in Nat /\ Len(l \o w) = Len(l) + Len(w)
         /\ l \o w \in Seq(S)
         /\ \A j \in 1 .. Len(l) : (l \o w)[j] = l[j]
         /\ \A j \in 1 .. Len(w) : (l \o w)[Len(l) + j] = w[j]
<1>1. Len(l) \in Nat /\ Len(w) \in Nat
  BY LenProperties
<1>2. /\ l \o w \in Seq(S) /\ Len(l \o w) = Len(l) + Len(w)
      /\ \A i \in 1 .. Len(l) + Len(w) : (l \o w)[i] = IF i <= Len(l) THEN l[i] ELSE w[i - Len(l)]
  BY ConcatProperties
<1> DEFINE x == l \o w
<1> HIDE DEF x
<1>3. ASSUME NEW j \in 1 .. Len(l) PROVE x[j] = l[j]
  BY <1>1, <1>2 DEF x
<1>4. ASSUME NEW j \in 1 .. Len(w) PROVE x[Len(l) + j] = w[j]
  <2>1. Len(l) + j \in 1 .. Len(l) + Len(w) /\ ~(Len(l) + j <= Len(l)) /\ (Len(l) + j) - Len(l) = j
    BY <1>1
  <2> QED
    BY <1>2, <2>1 DEF x
<1> QED
  BY <1>1, <1>2, <1>3, <1>4 DEF x

LEMMA LogBefore ==
  ASSUME NEW l \in Seq(String), NEW w \in Seq(String)
  PROVE  /\ Len(l) \in Nat /\ Len(w) \in Nat /\ Len(l \o w) = Len(l) + Len(w)
         /\ l \o w \in Seq(String)
         /\ \A j \in 1 .. Len(l) : (l \o w)[j] = l[j]
         /\ \A j \in 1 .. Len(w) : (l \o w)[Len(l) + j] = w[j]
BY SeqBefore

LEMMA NumbersBefore ==
  ASSUME NEW l \in Seq(Int), NEW w \in Seq(Int)
  PROVE  /\ Len(l) \in Nat /\ Len(w) \in Nat /\ Len(l \o w) = Len(l) + Len(w)
         /\ l \o w \in Seq(Int)
         /\ \A j \in 1 .. Len(l) : (l \o w)[j] = l[j]
         /\ \A j \in 1 .. Len(w) : (l \o w)[Len(l) + j] = w[j]
BY SeqBefore

LEMMA CarriesGrow ==
  ASSUME NEW a \in Int, NEW b \in Int
  PROVE  /\ SubSeq(<<a, b>>, 1, 0) = <<>>
         /\ SubSeq(<<a, b>>, 1, 1) = <<a>>
         /\ SubSeq(<<a, b>>, 1, 2) = <<a, b>>
<1>1. <<a, b>> \in Seq(Int) /\ Len(<<a, b>>) = 2 /\ <<a, b>>[1] = a
  OBVIOUS
<1> DEFINE s == <<a, b>>
<1> HIDE DEF s
<1>2. SubSeq(s, 1, 0) = <<>> /\ SubSeq(s, 1, 2) = s
  <2>1. s \in Seq(Int) /\ Len(s) = 2
    BY <1>1 DEF s
  <2>2. SubSeq(s, 1, Len(s)) = s
    BY <2>1, SubSeqFull
  <2> QED
    BY <2>1, <2>2, SubSeqEmpty
<1>3. SubSeq(s, 1, 1) = <<a>>
  <2>1. \A i \in 1 .. 1 : s[i] \in Int
    BY <1>1 DEF s
  <2>2. /\ SubSeq(s, 1, 1) \in Seq(Int) /\ Len(SubSeq(s, 1, 1)) = 1 /\ SubSeq(s, 1, 1)[1] = a
    <3>1. /\ SubSeq(s, 1, 1) \in Seq(Int)
          /\ Len(SubSeq(s, 1, 1)) = IF 1 <= 1 THEN 1 - 1 + 1 ELSE 0
          /\ \A i \in 1 .. 1 - 1 + 1 : SubSeq(s, 1, 1)[i] = s[1 + i - 1]
      BY <2>1, SubSeqProperties
    <3> QED
      BY <1>1, <3>1 DEF s
  <2>3. <<a>> \in Seq(Int) /\ Len(<<a>>) = 1 /\ <<a>>[1] = a
    OBVIOUS
  <2>4. \A i \in 1 .. 1 : i = 1
    OBVIOUS
  <2> DEFINE u == SubSeq(s, 1, 1)
             v == <<a>>
  <2> HIDE DEF u, v
  <2>5. \A i \in 1 .. Len(u) : u[i] = v[i]
    BY <2>2, <2>3, <2>4 DEF u, v
  <2>6. u = v
    BY <2>2, <2>3, <2>5, SeqEqual DEF u, v
  <2> QED
    BY <2>6 DEF u, v
<1> QED
  BY <1>2, <1>3 DEF s

(* A log that is longer by w, with carries that is longer by c. *)
LEMMA LogGrows ==
  ASSUME PerfInv, Log \in Seq(String), NEW w \in Seq(String), NEW c \in Seq(Int),
         Log' = Log \o w, carries' = carries \o c, Len(w) = Len(c), Len(w) >= 1,
         w[1].trees = <<>>, unheaded' = unheaded,
         LastOpen => c[1] = TimeOf(Len(Log)),
         \A j \in 2 .. Len(w) : w[j].trees # <<>> /\ w[j - 1].trees = <<>> /\ w[j - 1].id = w[j].id
  PROVE  /\ Headed' /\ CarriesOK' /\ Len(Log') = Len(Log) + Len(w)
         /\ Log'[Len(Log')] = w[Len(w)] /\ Log' # <<>>
<1> DEFINE n == Len(Log)
           m == Len(w)
           new == Log'
           more == carries'
<1>1. /\ n \in Nat /\ m \in Nat /\ Len(new) = n + m /\ new \in Seq(String)
      /\ \A j \in 1 .. n : new[j] = Log[j]
      /\ \A j \in 1 .. m : new[n + j] = w[j]
  BY LogBefore
<1>2. carries \in Seq(Int) /\ Len(carries) = n /\ unheaded \subseteq 1 .. n
  BY DEF PerfInv, CarriesOK
<1>3. /\ more \in Seq(Int) /\ Len(more) = n + m
      /\ \A j \in 1 .. n : more[j] = carries[j]
      /\ more[n + 1] = c[1]
  <2>1. /\ carries \o c \in Seq(Int) /\ Len(carries \o c) = Len(carries) + Len(c)
        /\ \A j \in 1 .. Len(carries) : (carries \o c)[j] = carries[j]
        /\ \A j \in 1 .. Len(c) : (carries \o c)[Len(carries) + j] = c[j]
    BY <1>2, NumbersBefore
  <2>2. more = carries \o c /\ 1 \in 1 .. Len(c)
    BY <1>1
  <2> HIDE DEF more
  <2> QED
    BY <1>2, <2>1, <2>2
<1>4. /\ \A j \in 1 .. n : Log[j].trees # <<>> => j > 1 /\ Log[j - 1].trees = <<>> /\ Log[j - 1].id = Log[j].id
      /\ \A j \in 1 .. n - 1 : Log[j].trees # <<>> => carries[j + 1] = TimeOf(j)
  BY DEF PerfInv, Headed, CarriesOK
<1>5. n > 0 /\ Log[n].trees # <<>> => c[1] = TimeOf(n)
  <2>1. ASSUME Log = <<>> PROVE n = 0
    <3>1. Len(<<>>) = 0
      BY EmptySeq
    <3> QED
      BY <2>1, <3>1
  <2>2. n > 0 => Log # <<>>
    <3> HIDE DEF n
    <3> QED
      BY <2>1
  <2> QED
    BY <2>2 DEF LastOpen
<1>6. \A j : TimeOf(j)' = TimeOf(j)
  BY DEF TimeOf
<1> HIDE DEF n, m, new, more
<1>7. ASSUME NEW j \in 1 .. n + m, new[j].trees # <<>>
      PROVE  j > 1 /\ new[j - 1].trees = <<>> /\ new[j - 1].id = new[j].id
  <2>1. CASE j \in 1 .. n
    <3>1. j > 1 /\ Log[j - 1].trees = <<>> /\ Log[j - 1].id = Log[j].id
      BY <1>1, <1>4, <1>7, <2>1
    <3> QED
      BY <1>1, <2>1, <3>1
  <2>2. CASE j \notin 1 .. n
    <3>1. PICK i \in 1 .. m : j = n + i
      <4>1. j - n \in 1 .. m /\ j = n + (j - n)
        BY <1>1, <2>2
      <4> QED
        BY <4>1
    <3>2. new[j] = w[i]
      BY <1>1, <3>1
    <3>3. i # 1
      BY <1>7, <3>2
    <3>4. i \in 2 .. m /\ i - 1 \in 1 .. m /\ j - 1 = n + (i - 1) /\ j > 1
      BY <1>1, <3>1, <3>3
    <3>5. new[j - 1] = w[i - 1]
      BY <1>1, <3>4
    <3>6. w[i - 1].trees = <<>> /\ w[i - 1].id = w[i].id
      BY <3>4 DEF m
    <3> QED
      BY <3>2, <3>4, <3>5, <3>6
  <2> QED
    BY <2>1, <2>2
<1>8. Headed'
  BY <1>1, <1>7 DEF Headed, new
<1>9. ASSUME NEW j \in 1 .. n + m - 1, new[j].trees # <<>>
      PROVE  more[j + 1] = TimeOf(j)
  <2>1. CASE j \in 1 .. n - 1
    <3>1. j \in 1 .. n /\ j + 1 \in 1 .. n
      BY <1>1, <2>1, SMTT(30)
    <3> QED
      BY <1>1, <1>3, <1>4, <1>9, <2>1, <3>1
  <2>2. CASE j = n
    <3>1. n > 0 /\ n \in 1 .. n
      BY <1>1, <1>9, <2>2
    <3>2. Log[n].trees # <<>>
      BY <1>1, <1>9, <2>2, <3>1
    <3> QED
      BY <1>3, <1>5, <2>2, <3>1, <3>2
  <2>3. CASE j > n
    <3>1. j + 1 \in 1 .. n + m /\ (j + 1) - 1 = j
      BY <1>1, <1>9
    <3>2. j + 1 - n \in 2 .. m /\ n + (j + 1 - n) = j + 1 /\ j + 1 - n \in 1 .. m
      BY <1>1, <1>9, <2>3
    <3>3. new[j + 1].trees # <<>>
      <4> DEFINE i == j + 1 - n
      <4> HIDE DEF i
      <4>1. i \in 2 .. m /\ i \in 1 .. m /\ n + i = j + 1
        BY <3>2 DEF i
      <4>2. w[i].trees # <<>> /\ new[n + i] = w[i]
        BY <1>1, <4>1 DEF m
      <4> QED
        BY <4>1, <4>2
    <3>4. new[j].trees = <<>>
      BY <1>7, <3>1, <3>3
    <3> QED
      BY <1>9, <3>4
  <2>4. n \in Int /\ m \in Int
    BY <1>1
  <2> QED
    BY <2>1, <2>2, <2>3, <2>4
<1>10. CarriesOK'
  <2>1. unheaded' \subseteq 1 .. n + m
    BY <1>1, <1>2
  <2>2. \A j \in 1 .. Len(new) - 1 : new[j].trees # <<>> => more[j + 1] = TimeOf(j)'
    BY <1>1, <1>6, <1>9
  <2> QED
    BY <1>1, <1>3, <2>1, <2>2 DEF CarriesOK, new, more
<1>11. m \in 1 .. m
  BY <1>1 DEF m
<1>12. new[n + m] = w[m] /\ n + m # 0
  BY <1>1, <1>11
<1>13. new # <<>>
  BY <1>1, <1>12, EmptySeq
<1> QED
  BY <1>1, <1>8, <1>10, <1>12, <1>13 DEF n, m, new

LEMMA FrameKeeps ==
  ASSUME OInv, PerfInv, NEW id \in FrameId, LprofTFrame(id)
  PROVE  PerfInv'
<1> DEFINE f == cache[1]
           d == Len(Log') - Len(Log)
<1>1. /\ running /\ running' /\ cache' # <<>> /\ cache'[1].trees = <<>>
      /\ preFrame' = FALSE /\ Log \in Seq(String) /\ Len(Log) \in Nat
  BY FrameCases, LenProperties
<1>2. /\ carried' = IF ~preFrame THEN Nobody
                    ELSE IF cache # <<>> /\ cache[1].trees # <<>> THEN Len(Log')
                    ELSE Stray
      /\ carries' = carries \o SubSeq(<<carried, Nobody>>, 1, d)
      /\ unheaded' = unheaded \cup {p \in {carried} \ {Nobody, Stray} : Log' = Log}
  BY DEF LprofTFrame, FrameHeader
<1>3. /\ preFrame \in BOOLEAN /\ carried \in Int /\ carries \in Seq(Int)
      /\ running /\ cache # <<>> => /\ preFrame <=> cache[1].trees # <<>>
                                    /\ LastOpen => carried = TimeOf(Len(Log))
      /\ carried \notin {Nobody, Stray} => LastOpen /\ carried = Len(Log)
  BY DEF PerfInv, CarriedOK, CarriesOK
<1>4. /\ SubSeq(<<carried, Nobody>>, 1, 0) = <<>>
      /\ SubSeq(<<carried, Nobody>>, 1, 1) = <<carried>>
      /\ SubSeq(<<carried, Nobody>>, 1, 2) = <<carried, Nobody>>
  <2>1. Nobody \in Int
    BY DEF Nobody
  <2> QED
    BY <1>3, <2>1, CarriesGrow
<1>5. Nobody \in Int /\ Stray \in Int /\ Nobody = 0
  BY DEF Nobody, Stray
<1>6. CASE cache = <<>> /\ Log = <<>> /\ Log' = Log
  <2>1. d = 0 /\ carries' = carries
    <3>1. d = 0
      BY <1>1, <1>6
    <3> HIDE DEF d
    <3>2. carries \o <<>> = carries
      BY <1>3, ConcatEmptySeq
    <3> QED
      BY <1>2, <1>4, <3>1, <3>2
  <2>2. ~LastOpen /\ ~LastOpen'
    BY <1>6 DEF LastOpen
  <2>3. unheaded' = unheaded
    BY <1>2, <1>3, <2>2
  <2>4. carried' \in {Nobody, Stray}
    BY <1>2, <1>6
  <2>5. Headed'
    BY <1>6 DEF PerfInv, Headed
  <2>6. CarriesOK'
    BY <1>6, <2>1, <2>3 DEF PerfInv, CarriesOK, TimeOf
  <2>7. CarriedOK'
    BY <1>1, <1>5, <2>2, <2>4 DEF CarriedOK
  <2> QED
    BY <2>5, <2>6, <2>7 DEF PerfInv
<1>7. CASE cache # <<>> /\ f \in String /\ f.trees # <<>> /\ Log' = Log \o <<Header(f.id), f>>
  <2> DEFINE h == Header(f.id)
             w == <<h, f>>
             c == <<carried, Nobody>>
  <2>1. h \in String /\ h.trees = <<>> /\ h.id = f.id
    BY <1>7, HeaderIsString DEF Header, String
  <2> HIDE DEF h, f
  <2>2. /\ w \in Seq(String) /\ Len(w) = 2 /\ w[1] = h /\ w[2] = f
        /\ c \in Seq(Int) /\ Len(c) = 2 /\ c[1] = carried
    BY <1>3, <1>5, <1>7, <2>1
  <2>3. Log' = Log \o w
    BY <1>7 DEF h, f
  <2> HIDE DEF w, c
  <2>4. Len(Log') = Len(Log) + 2
    <3>1. Len(Log \o w) = Len(Log) + Len(w)
      BY <1>1, <2>2, SeqBefore
    <3> QED
      BY <2>2, <2>3, <3>1
  <2>5. carries' = carries \o c
    <3>1. d = 2
      BY <1>1, <2>4
    <3> HIDE DEF d
    <3> QED
      BY <1>2, <1>4, <3>1 DEF c
  <2>6. Log' # Log
    BY <1>1, <2>4
  <2>7. unheaded' = unheaded
    BY <1>2, <2>6
  <2>8. \A j \in 2 .. Len(w) : w[j].trees # <<>> /\ w[j - 1].trees = <<>> /\ w[j - 1].id = w[j].id
    <3>1. \A j \in 2 .. Len(w) : j = 2 /\ j - 1 = 1
      BY <2>2
    <3> QED
      BY <1>7, <2>1, <2>2, <3>1
  <2>9. LastOpen => c[1] = TimeOf(Len(Log))
    BY <1>1, <1>3, <1>7, <2>2
  <2>10. w[1].trees = <<>> /\ Len(w) = Len(c) /\ Len(w) >= 1
    BY <2>1, <2>2
  <2>11. /\ Headed' /\ CarriesOK' /\ Log' # <<>>
         /\ Log'[Len(Log')] = f
    BY <1>1, <2>2, <2>3, <2>5, <2>7, <2>8, <2>9, <2>10, LogGrows
  <2>12. LastOpen'
    BY <1>7, <2>11 DEF LastOpen
  <2>13. carried' = Len(Log')
    BY <1>1, <1>2, <1>3, <1>7 DEF f
  <2>14. TimeOf(Len(Log))' = Len(Log')
    <3>1. unheaded \subseteq 1 .. Len(Log)
      BY DEF PerfInv, CarriesOK
    <3>2. Len(Log') \notin unheaded'
      BY <1>1, <2>4, <2>7, <3>1
    <3> QED
      BY <3>2 DEF TimeOf
  <2>15. Len(Log') \in Int
    BY <1>1, <2>4
  <2>16. CarriedOK'
    BY <1>1, <2>12, <2>13, <2>14, <2>15 DEF CarriedOK
  <2> QED
    BY <2>11, <2>16 DEF PerfInv
<1>8. CASE cache # <<>> /\ f \in String /\ f.trees = <<>> /\ Log' = Log \o <<f>>
  <2> DEFINE w == <<f>>
             c == <<carried>>
  <2> HIDE DEF f
  <2>1. /\ w \in Seq(String) /\ Len(w) = 1 /\ w[1] = f
        /\ c \in Seq(Int) /\ Len(c) = 1 /\ c[1] = carried
    BY <1>3, <1>8
  <2>2. Log' = Log \o w
    BY <1>8 DEF f
  <2> HIDE DEF w, c
  <2>3. Len(Log') = Len(Log) + 1
    <3>1. Len(Log \o w) = Len(Log) + Len(w)
      BY <1>1, <2>1, SeqBefore
    <3> QED
      BY <2>1, <2>2, <3>1
  <2>4. carries' = carries \o c
    <3>1. d = 1
      BY <1>1, <2>3
    <3> HIDE DEF d
    <3> QED
      BY <1>2, <1>4, <3>1 DEF c
  <2>5. Log' # Log
    BY <1>1, <2>3
  <2>6. unheaded' = unheaded
    BY <1>2, <2>5
  <2>7. \A j \in 2 .. Len(w) : FALSE
    BY <2>1
  <2>8. LastOpen => c[1] = TimeOf(Len(Log))
    BY <1>1, <1>3, <1>8, <2>1
  <2>9. w[1].trees = <<>> /\ Len(w) = Len(c) /\ Len(w) >= 1
    BY <1>8, <2>1
  <2>10. /\ Headed' /\ CarriesOK' /\ Log' # <<>>
         /\ Log'[Len(Log')] = f
    BY <1>1, <2>1, <2>2, <2>4, <2>6, <2>7, <2>8, <2>9, LogGrows
  <2>11. ~LastOpen'
    BY <1>8, <2>10 DEF LastOpen
  <2>12. carried' = Nobody
    BY <1>1, <1>2, <1>3, <1>8 DEF f
  <2>13. CarriedOK'
    BY <1>1, <1>5, <2>11, <2>12 DEF CarriedOK
  <2> QED
    BY <2>10, <2>13 DEF PerfInv
<1>9. CASE cache # <<>> /\ f.trees = <<>> /\ Log' = Log
  <2>1. d = 0 /\ carries' = carries
    <3>1. d = 0
      BY <1>1, <1>9
    <3> HIDE DEF d
    <3>2. carries \o <<>> = carries
      BY <1>3, ConcatEmptySeq
    <3> QED
      BY <1>2, <1>4, <3>1, <3>2
  <2>2. carried' = Nobody
    BY <1>1, <1>2, <1>3, <1>9
  <2>3. Headed'
    BY <1>9 DEF PerfInv, Headed
  <2>4. unheaded \subseteq unheaded' /\ \A p \in unheaded' \ unheaded : p = carried /\ LastOpen /\ p = Len(Log)
    BY <1>2, <1>3
  <2>5. LastOpen' = LastOpen
    BY <1>9 DEF LastOpen
  <2>6. LastOpen => TimeOf(Len(Log))' = Nobody
    <3> SUFFICES ASSUME LastOpen PROVE Len(Log) \in unheaded'
      BY <1>9 DEF TimeOf
    <3>1. carried = TimeOf(Len(Log))
      BY <1>1, <1>3, <1>9
    <3>2. CASE Len(Log) \in unheaded
      BY <2>4, <3>2
    <3>3. CASE Len(Log) \notin unheaded
      <4>1. carried = Len(Log)
        BY <3>1, <3>3 DEF TimeOf
      <4>2. Len(Log) # 0
        BY <1>1, EmptySeq DEF LastOpen
      <4>3. carried \notin {Nobody, Stray}
        BY <1>1, <4>1, <4>2 DEF Nobody, Stray
      <4> QED
        BY <1>2, <1>9, <4>1, <4>3
    <3> QED
      BY <3>2, <3>3
  <2>7. CarriesOK'
    <3>1. unheaded \subseteq 1 .. Len(Log) /\ Len(carries) = Len(Log)
      BY DEF PerfInv, CarriesOK
    <3>2. LastOpen => Len(Log) \in 1 .. Len(Log)
      BY <1>1, EmptySeq DEF LastOpen
    <3>3. unheaded' \subseteq 1 .. Len(Log)
      BY <2>4, <3>1, <3>2
    <3>4. ASSUME NEW j \in 1 .. Len(Log) - 1, Log[j].trees # <<>>
          PROVE  carries[j + 1] = TimeOf(j)'
      <4>1. carries[j + 1] = TimeOf(j)
        BY <3>4 DEF PerfInv, CarriesOK
      <4>2. j # Len(Log)
        BY <1>1
      <4>3. j \in unheaded' <=> j \in unheaded
        BY <2>4, <4>2
      <4> QED
        BY <4>1, <4>3 DEF TimeOf
    <3> QED
      BY <1>3, <1>9, <2>1, <3>1, <3>3, <3>4 DEF CarriesOK
  <2>8. CarriedOK'
    <3>1. preFrame' \in BOOLEAN /\ ~(preFrame' <=> ~(cache'[1].trees # <<>>))
      BY <1>1
    <3>2. carried' \in Int /\ carried' \in {Nobody, Stray}
      BY <1>5, <2>2
    <3>3. LastOpen' => carried' = TimeOf(Len(Log))'
      BY <2>2, <2>5, <2>6
    <3> QED
      BY <1>1, <3>1, <3>2, <3>3 DEF CarriedOK
  <2> QED
    BY <2>3, <2>7, <2>8 DEF PerfInv
<1> QED
  BY <1>6, <1>7, <1>8, <1>9, FrameCases

LEMMA PerfStep == PerfNext => [Next]_outputVars
<1> SUFFICES ASSUME PerfNext PROVE [Next]_outputVars
  OBVIOUS
<1> QED
  BY DEF PerfNext, Next, LprofTFrame, LprofTTojson, NewFile, EndFile

LEMMA PerfInvStep == OInv /\ PerfInv /\ [PerfNext]_perfVars => PerfInv'
<1> SUFFICES ASSUME OInv, PerfInv, [PerfNext]_perfVars PROVE PerfInv'
  OBVIOUS
<1>1. ASSUME NEW c \in BOOLEAN, SetCallback(c), UNCHANGED <<preFrame, carried, carries, unheaded>>
      PROVE  PerfInv'
  <2>1. UNCHANGED <<running, cache, Log>>
    BY <1>1, OutputStutter DEF SetCallback
  <2> QED
    BY <1>1, <2>1, PerfInvStutter
<1>2. CASE UNCHANGED perfVars
  <2>1. UNCHANGED <<running, cacheVars, bufferVars, preFrame, carried, carries, unheaded>>
    BY <1>2 DEF perfVars, outputVars
  <2>2. UNCHANGED <<running, cache, Log>>
    BY <2>1, OutputStutter
  <2> QED
    BY <2>1, <2>2, PerfInvStutter
<1> QED
  BY <1>1, <1>2, FrameKeeps, TreeKeeps, NewFileKeeps, EndFileKeeps DEF PerfNext

(* What holds of OutputCache holds with the reader's variables beside it. *)
LEMMA PerfIsOutput == PerfSpec => Spec
<1>1. PerfInit => Init
  BY DEF PerfInit
<1>2. [PerfNext]_perfVars => [Next]_outputVars
  BY PerfStep DEF perfVars
<1> QED
  BY <1>1, <1>2, PTL DEF PerfSpec, Spec

LEMMA PerfInvariant == PerfSpec => [](OInv /\ PerfInv)
BY PerfIsOutput, OutputInvariant, InitPerfInv, PerfInvStep, PTL DEF PerfSpec

-----------------------------------------------------------------------------
(* Line i of string j; a header is its string's only line, and has i = 0. *)
At(j, i) ==
  IF i = 0
  THEN [header |-> TRUE, id |-> Log[j].id, of |-> carries[j]]
  ELSE [header |-> FALSE, tree |-> Log[j].trees[i], at |-> j]

AnyLine == {At(j, i) : j \in 1 .. Len(Log), i \in Nat}
Size(j) == Len(Log[j].trees)
First(j) == IF Size(j) = 0 THEN 0 ELSE 1

(* Line k of f is line i[k] of string e[k], one of the first n. *)
Stands(f, n, e, i, k) ==
  /\ e[k] \in 1 .. n /\ i[k] \in Nat /\ i[k] <= Size(e[k]) /\ (i[k] = 0 <=> Size(e[k]) = 0)
  /\ f[k] = At(e[k], i[k])

(* The line behind line k is the next of its string or the first of the next. *)
Follows(e, i, k) ==
  \/ i[k] < Size(e[k]) /\ e[k + 1] = e[k] /\ i[k + 1] = i[k] + 1
  \/ i[k] = Size(e[k]) /\ e[k + 1] = e[k] + 1 /\ i[k + 1] = First(e[k + 1])

(* f is the text of the first n strings. *)
Laid(f, n, e, i) ==
  /\ f \in Seq(AnyLine) /\ Len(f) \in Nat /\ Len(f) >= 1
  /\ \A k \in 1 .. Len(f) : Stands(f, n, e, i, k)
  /\ e[1] = 1 /\ i[1] = First(1)
  /\ \A k \in 1 .. Len(f) - 1 : Follows(e, i, k)
  /\ e[Len(f)] = n /\ i[Len(f)] = Size(n)

(* A set of numbers with 0 and each successor has all. *)
LEMMA LineInduction ==
  ASSUME NEW T, 0 \in T, \A n \in Nat : n \in T => n + 1 \in T
  PROVE  \A n \in Nat : n \in T
<1> DEFINE U == {n \in Nat : n \notin T}
<1> SUFFICES ASSUME U # {} PROVE FALSE
  OBVIOUS
<1>1. U \subseteq Nat
  OBVIOUS
<1>2. PICK n \in U : \A m \in U : <<m, n>> \notin OpToRel(<, Nat)
  BY <1>1, NatLessThanWellFounded, WFMin
<1>3. \A m \in U : m \in Nat /\ n \in Nat /\ ~(m < n)
  BY <1>2 DEF OpToRel
<1>4. n \in Nat /\ n # 0
  OBVIOUS
<1>5. n - 1 \in Nat /\ n - 1 \notin U
  BY <1>3, <1>4
<1> QED
  BY <1>4, <1>5

LEMMA StringSize ==
  ASSUME Log \in Seq(String), NEW j \in 1 .. Len(Log)
  PROVE  /\ Log[j] \in String /\ Log[j].trees \in Seq(Tree) /\ Log[j].id \in FrameId
         /\ Size(j) \in Nat /\ (Size(j) = 0 <=> Log[j].trees = <<>>)
<1>1. Log[j] \in String
  BY ElementOfSeq
<1>2. Log[j].trees \in Seq(Tree) /\ Log[j].id \in FrameId
  BY <1>1 DEF String
<1> QED
  BY <1>1, <1>2, LenProperties, EmptySeq DEF Size

LEMMA LineIs ==
  ASSUME Log \in Seq(String), NEW j \in 1 .. Len(Log)
  PROVE  /\ Line(j) \in Seq(AnyLine)
         /\ Len(Line(j)) = IF Size(j) = 0 THEN 1 ELSE Size(j)
         /\ \A k \in 1 .. Len(Line(j)) : Line(j)[k] = At(j, IF Size(j) = 0 THEN 0 ELSE k)
<1>1. Log[j].trees \in Seq(Tree) /\ Size(j) \in Nat /\ (Size(j) = 0 <=> Log[j].trees = <<>>)
  BY StringSize
<1>2. CASE Size(j) = 0
  <2>1. Line(j) = <<At(j, 0)>>
    BY <1>1, <1>2 DEF Line, At
  <2>2. At(j, 0) \in AnyLine
    BY DEF AnyLine
  <2> DEFINE a == At(j, 0)
  <2> HIDE DEF a
  <2>3. <<a>> \in Seq(AnyLine) /\ Len(<<a>>) = 1 /\ \A k \in 1 .. 1 : <<a>>[k] = a
    BY <2>2 DEF a
  <2> QED
    BY <1>2, <2>1, <2>3 DEF a
<1>3. CASE Size(j) # 0
  <2> DEFINE l == [i \in 1 .. Size(j) |-> At(j, i)]
  <2>1. DOMAIN Log[j].trees = 1 .. Size(j)
    BY <1>1, LenProperties DEF Size
  <2>2. \A i \in 1 .. Size(j) : At(j, i) = [header |-> FALSE, tree |-> Log[j].trees[i], at |-> j]
    BY <1>1 DEF At
  <2>3. Line(j) = l
    BY <1>1, <1>3, <2>1, <2>2 DEF Line
  <2>4. \A i \in 1 .. Size(j) : At(j, i) \in AnyLine
    BY <1>1 DEF AnyLine
  <2>5. l \in Seq(AnyLine) /\ Len(l) = Size(j)
    <3>1. l \in [1 .. Size(j) -> AnyLine]
      BY <2>4
    <3> HIDE DEF l
    <3> QED
      BY <1>1, <3>1, SeqDef, LenProperties
  <2>6. \A k \in 1 .. Size(j) : l[k] = At(j, k)
    OBVIOUS
  <2> HIDE DEF l
  <2> QED
    BY <1>3, <2>3, <2>5, <2>6
<1> QED
  BY <1>2, <1>3
-----------------------------------------------------------------------------
(* The recursive function of FlattenSeq for the lines. *)
LineSeq == [j \in DOMAIN Log |-> Line(j)]
Flat(f, n) == f = [k \in 1 .. n |-> IF k = 1 THEN LineSeq[k] ELSE f[k - 1] \o LineSeq[k]]
FlatOf == CHOOSE f : Flat(f, Len(LineSeq))

LEMMA LinesAre ==
  ASSUME Log \in Seq(String), Len(Log) # 0
  PROVE  /\ Lines = FlatOf[Len(Log)]
         /\ \A k \in 1 .. Len(Log) : FlatOf[k] = IF k = 1 THEN Line(k) ELSE FlatOf[k - 1] \o Line(k)
<1>1. DOMAIN Log = 1 .. Len(Log) /\ Len(Log) \in Nat
  BY LenProperties
<1>2. LineSeq \in Seq(Seq(AnyLine)) /\ Len(LineSeq) = Len(Log) /\ \A k \in 1 .. Len(Log) : LineSeq[k] = Line(k)
  <2>1. LineSeq \in [1 .. Len(Log) -> Seq(AnyLine)] /\ \A k \in 1 .. Len(Log) : LineSeq[k] = Line(k)
    BY <1>1, LineIs DEF LineSeq
  <2> QED
    BY <1>1, <2>1, SeqDef, LenProperties
<1>3. Lines = FlatOf[Len(Log)]
  <2>1. Lines = FlattenSeq(LineSeq)
    BY DEF Lines, LineSeq
  <2> QED
    BY <1>2, <2>1 DEF FlattenSeq, FlatOf, Flat
<1> DEFINE T == {n \in Nat : \E f : Flat(f, n)}
<1>4. 0 \in T
  <2> DEFINE g == [k \in 1 .. 0 |-> 0]
  <2>1. Flat(g, 0)
    BY DEF Flat
  <2> QED
    BY <2>1
<1>5. ASSUME NEW n \in Nat, n \in T PROVE n + 1 \in T
  <2>1. PICK f : Flat(f, n)
    BY <1>5
  <2> DEFINE last == IF n + 1 = 1 THEN LineSeq[n + 1] ELSE f[n] \o LineSeq[n + 1]
             g == [k \in 1 .. n + 1 |-> IF k \in 1 .. n THEN f[k] ELSE last]
  <2>2. \A k \in 1 .. n : f[k] = IF k = 1 THEN LineSeq[k] ELSE f[k - 1] \o LineSeq[k]
    BY <2>1 DEF Flat
  <2> HIDE DEF last
  <2>3. ASSUME NEW k \in 1 .. n + 1
        PROVE  g[k] = IF k = 1 THEN LineSeq[k] ELSE g[k - 1] \o LineSeq[k]
    <3>1. CASE k \in 1 .. n
      <4>1. g[k] = f[k] /\ (k # 1 => k - 1 \in 1 .. n + 1 /\ g[k - 1] = f[k - 1])
        BY <3>1
      <4> HIDE DEF g
      <4> QED
        BY <2>2, <3>1, <4>1
    <3>2. CASE k = n + 1
      <4>1. g[k] = last /\ (k # 1 => k - 1 = n /\ n \in 1 .. n + 1 /\ g[k - 1] = f[n])
        BY <3>2
      <4> HIDE DEF g
      <4> QED
        BY <3>2, <4>1 DEF last
    <3> QED
      BY <3>1, <3>2
  <2>4. Flat(g, n + 1)
    <3>1. g = [k \in 1 .. n + 1 |-> g[k]]
      OBVIOUS
    <3> HIDE DEF g
    <3> QED
      BY <2>3, <3>1 DEF Flat
  <2> HIDE DEF g
  <2> QED
    BY <2>4
<1>6. \E f : Flat(f, Len(LineSeq))
  <2>1. Len(Log) \in T
    <3> HIDE DEF T
    <3> QED
      BY <1>1, <1>4, <1>5, LineInduction
  <2> QED
    BY <1>2, <2>1
<1>7. Flat(FlatOf, Len(LineSeq))
  BY <1>6 DEF FlatOf
<1>8. \A k \in 1 .. Len(Log) : FlatOf[k] = IF k = 1 THEN LineSeq[k] ELSE FlatOf[k - 1] \o LineSeq[k]
  BY <1>2, <1>7 DEF Flat
<1> QED
  BY <1>2, <1>3, <1>8

LEMMA LaidFirst ==
  ASSUME Log \in Seq(String), Len(Log) # 0
  PROVE  \E e, i : Laid(Line(1), 1, e, i)
<1> DEFINE f == Line(1)
           m == Len(f)
           e == [k \in 1 .. m |-> 1]
           i == [k \in 1 .. m |-> IF Size(1) = 0 THEN 0 ELSE k]
<1>1. 1 \in 1 .. Len(Log)
  BY LenProperties
<1>2. /\ f \in Seq(AnyLine) /\ Size(1) \in Nat
      /\ m = IF Size(1) = 0 THEN 1 ELSE Size(1)
      /\ \A k \in 1 .. m : f[k] = At(1, IF Size(1) = 0 THEN 0 ELSE k)
  BY <1>1, LineIs, StringSize
<1> HIDE DEF f, m
<1>3. m \in Nat /\ m >= 1 /\ m = Len(f) /\ 1 \in 1 .. m /\ m \in 1 .. m
  BY <1>2 DEF m
<1>4. \A k \in 1 .. m : e[k] = 1 /\ i[k] = IF Size(1) = 0 THEN 0 ELSE k
  OBVIOUS
<1> HIDE DEF e, i
<1>5. \A k \in 1 .. m : Stands(f, 1, e, i, k)
  <2> TAKE k \in 1 .. m
  <2>1. e[k] = 1 /\ i[k] = IF Size(1) = 0 THEN 0 ELSE k
    BY <1>4
  <2>2. i[k] \in Nat /\ i[k] <= Size(1) /\ (i[k] = 0 <=> Size(1) = 0)
    BY <1>2, <2>1
  <2>3. f[k] = At(1, i[k])
    BY <1>2, <2>1
  <2> QED
    BY <2>1, <2>2, <2>3 DEF Stands
<1>6. e[1] = 1 /\ i[1] = First(1)
  BY <1>3, <1>4 DEF First
<1>7. \A k \in 1 .. m - 1 : Follows(e, i, k)
  <2> TAKE k \in 1 .. m - 1
  <2>1. k \in 1 .. m /\ k + 1 \in 1 .. m /\ Size(1) # 0 /\ k < Size(1)
    BY <1>2, <1>3
  <2> QED
    BY <1>4, <2>1 DEF Follows
<1>8. e[m] = 1 /\ i[m] = Size(1)
  BY <1>2, <1>3, <1>4
<1>9. Laid(f, 1, e, i)
  BY <1>2, <1>3, <1>5, <1>6, <1>7, <1>8 DEF Laid
<1> QED
  BY <1>9 DEF f

LEMMA LinesBefore ==
  ASSUME NEW l \in Seq(AnyLine), NEW w \in Seq(AnyLine)
  PROVE  /\ Len(l) \in Nat /\ Len(w) \in Nat /\ Len(l \o w) = Len(l) + Len(w)
         /\ l \o w \in Seq(AnyLine)
         /\ \A j \in 1 .. Len(l) : (l \o w)[j] = l[j]
         /\ \A j \in 1 .. Len(w) : (l \o w)[Len(l) + j] = w[j]
BY SeqBefore

LEMMA LaidOut ==
  ASSUME NEW f, NEW n, NEW e, NEW i, f \in Seq(AnyLine) /\ Len(f) \in Nat /\ Len(f) >= 1,
         \A k \in 1 .. Len(f) : Stands(f, n, e, i, k),
         e[1] = 1 /\ i[1] = First(1),
         \A k \in 1 .. Len(f) - 1 : Follows(e, i, k),
         e[Len(f)] = n /\ i[Len(f)] = Size(n)
  PROVE  Laid(f, n, e, i)
BY DEF Laid

LEMMA LaidMore ==
  ASSUME Log \in Seq(String), NEW n \in 1 .. Len(Log) - 1, NEW f, NEW e, NEW i, Laid(f, n, e, i)
  PROVE  \E d, h : Laid(f \o Line(n + 1), n + 1, d, h)
<1> DEFINE w == Line(n + 1)
           g == f \o w
           c == Len(f)
           m == Len(w)
           s == Size(n + 1)
           d == [k \in 1 .. c + m |-> IF k <= c THEN e[k] ELSE n + 1]
           h == [k \in 1 .. c + m |-> IF k <= c THEN i[k] ELSE IF s = 0 THEN 0 ELSE k - c]
<1>1. n \in Nat /\ n + 1 \in 1 .. Len(Log)
  BY LenProperties
<1>2. /\ w \in Seq(AnyLine) /\ s \in Nat
      /\ m = IF s = 0 THEN 1 ELSE s
      /\ \A k \in 1 .. m : w[k] = At(n + 1, IF s = 0 THEN 0 ELSE k)
  BY <1>1, LineIs, StringSize
<1>3. /\ f \in Seq(AnyLine) /\ c \in Nat /\ c >= 1
      /\ \A k \in 1 .. c : Stands(f, n, e, i, k)
      /\ e[1] = 1 /\ i[1] = First(1)
      /\ \A k \in 1 .. c - 1 : Follows(e, i, k)
      /\ e[c] = n /\ i[c] = Size(n)
  BY DEF Laid
<1> HIDE DEF w
<1>4. /\ g \in Seq(AnyLine) /\ Len(g) = c + m
      /\ \A k \in 1 .. c : g[k] = f[k]
      /\ \A k \in 1 .. m : g[c + k] = w[k]
  BY <1>2, <1>3, LinesBefore
<1> HIDE DEF g, c, m, s
<1>5. m \in Nat /\ m >= 1 /\ c + m \in Nat /\ c + m >= 1
  BY <1>2, <1>3
<1>6. /\ \A k \in 1 .. c : d[k] = e[k] /\ h[k] = i[k]
      /\ \A k \in 1 .. m : d[c + k] = n + 1 /\ h[c + k] = IF s = 0 THEN 0 ELSE k
  <2>1. \A k \in 1 .. c : k \in 1 .. c + m /\ k <= c
    BY <1>3, <1>5
  <2>2. \A k \in 1 .. m : c + k \in 1 .. c + m /\ ~(c + k <= c) /\ (c + k) - c = k
    BY <1>3, <1>5
  <2> QED
    BY <2>1, <2>2
<1> HIDE DEF d, h
<1>7. \A k \in 1 .. c + m : k \in 1 .. c \/ \E l \in 1 .. m : k = c + l
  <2> TAKE k \in 1 .. c + m
  <2>1. CASE k > c
    <3>1. k - c \in 1 .. m /\ k = c + (k - c)
      BY <1>3, <1>5, <2>1
    <3> QED
      BY <3>1
  <2> QED
    BY <1>3, <2>1
<1>8. \A k \in 1 .. c + m : Stands(g, n + 1, d, h, k)
  <2> TAKE k \in 1 .. c + m
  <2>1. CASE k \in 1 .. c
    <3>1. d[k] = e[k] /\ h[k] = i[k] /\ g[k] = f[k]
      BY <1>4, <1>6, <2>1
    <3>2. Stands(f, n, e, i, k)
      BY <1>3, <2>1
    <3>3. e[k] \in 1 .. n + 1
      BY <1>1, <3>2 DEF Stands
    <3> QED
      BY <3>1, <3>2, <3>3 DEF Stands
  <2>2. ASSUME NEW l \in 1 .. m, k = c + l
        PROVE  Stands(g, n + 1, d, h, k)
    <3>1. d[k] = n + 1 /\ h[k] = (IF s = 0 THEN 0 ELSE l) /\ g[k] = w[l]
      BY <1>4, <1>6, <2>2
    <3>2. h[k] \in Nat /\ h[k] <= s /\ (h[k] = 0 <=> s = 0)
      BY <1>2, <1>5, <3>1
    <3>3. g[k] = At(n + 1, h[k])
      BY <1>2, <3>1
    <3>4. n + 1 \in 1 .. n + 1
      BY <1>1
    <3> QED
      BY <3>1, <3>2, <3>3, <3>4 DEF s, Stands
  <2> QED
    BY <1>7, <2>1, <2>2
<1>9. d[1] = 1 /\ h[1] = First(1)
  BY <1>3, <1>6
<1>10. \A k \in 1 .. c + m - 1 : Follows(d, h, k)
  <2> TAKE k \in 1 .. c + m - 1
  <2>1. CASE k < c
    <3>1. k \in 1 .. c - 1 /\ k \in 1 .. c /\ k + 1 \in 1 .. c
      BY <1>3, <2>1
    <3> QED
      BY <1>3, <1>6, <3>1 DEF Follows
  <2>2. CASE k = c
    <3>1. c \in 1 .. c /\ 1 \in 1 .. m
      BY <1>3, <1>5
    <3>2. d[c] = n /\ h[c] = Size(n) /\ d[c + 1] = n + 1 /\ h[c + 1] = IF s = 0 THEN 0 ELSE 1
      BY <1>3, <1>6, <3>1
    <3> QED
      BY <2>2, <3>2 DEF First, s, Follows
  <2>3. CASE k > c
    <3> DEFINE l == k - c
    <3>1. l \in 1 .. m /\ l + 1 \in 1 .. m /\ k = c + l /\ k + 1 = c + (l + 1) /\ s # 0 /\ l < s
      BY <1>2, <1>3, <1>5, <2>3
    <3> HIDE DEF l
    <3>2. d[k] = n + 1 /\ d[k + 1] = n + 1 /\ h[k] = l /\ h[k + 1] = l + 1
      BY <1>6, <3>1
    <3> QED
      BY <3>1, <3>2 DEF s, Follows
  <2> QED
    BY <1>3, <2>1, <2>2, <2>3
<1>11. d[c + m] = n + 1 /\ h[c + m] = s
  <2>1. m \in 1 .. m
    BY <1>5
  <2> QED
    BY <1>2, <1>6, <2>1
<1>12. Laid(g, n + 1, d, h)
  <2>1. g \in Seq(AnyLine) /\ Len(g) \in Nat /\ Len(g) >= 1
    BY <1>4, <1>5
  <2>2. Len(g) = c + m
    BY <1>4
  <2>3. \A k \in 1 .. Len(g) : Stands(g, n + 1, d, h, k)
    BY <1>8, <2>2
  <2>4. \A k \in 1 .. Len(g) - 1 : Follows(d, h, k)
    <3>1. Len(g) - 1 = c + m - 1
      <4>1. c \in Nat /\ m \in Nat
        BY <1>3, <1>5
      <4> QED
        BY <2>2, <4>1
    <3> QED
      BY <1>10, <3>1
  <2>5. d[Len(g)] = n + 1 /\ h[Len(g)] = Size(n + 1)
    BY <1>11, <2>2 DEF s
  <2> QED
    BY <1>9, <2>1, <2>3, <2>4, <2>5, LaidOut
<1> QED
  BY <1>12 DEF g, w

(* The lines of the file and where in the log they stand. *)
LEMMA LinesLaid ==
  ASSUME Log \in Seq(String), Len(Log) # 0
  PROVE  \E e, i : Laid(Lines, Len(Log), e, i)
<1> DEFINE T == {n \in Nat : n + 1 <= Len(Log) => \E e, i : Laid(FlatOf[n + 1], n + 1, e, i)}
<1>1. Len(Log) \in Nat /\ 1 \in 1 .. Len(Log)
  BY LenProperties
<1>2. 0 \in T
  BY <1>1, LaidFirst, LinesAre
<1>3. ASSUME NEW n \in Nat, n \in T PROVE n + 1 \in T
  <2>1. ASSUME (n + 1) + 1 <= Len(Log)
        PROVE  \E e, i : Laid(FlatOf[(n + 1) + 1], (n + 1) + 1, e, i)
    <3>1. /\ n + 1 \in 1 .. Len(Log) - 1 /\ (n + 1) + 1 \in 1 .. Len(Log) /\ (n + 1) + 1 # 1
          /\ ((n + 1) + 1) - 1 = n + 1 /\ n + 1 <= Len(Log)
      BY <1>1, <2>1
    <3>2. PICK e, i : Laid(FlatOf[n + 1], n + 1, e, i)
      BY <1>3, <3>1
    <3>3. FlatOf[(n + 1) + 1] = FlatOf[n + 1] \o Line((n + 1) + 1)
      BY <3>1, LinesAre
    <3>4. \E d, h : Laid(FlatOf[n + 1] \o Line((n + 1) + 1), (n + 1) + 1, d, h)
      BY <3>1, <3>2, LaidMore
    <3> QED
      BY <3>3, <3>4
  <2> QED
    BY <2>1
<1>4. Len(Log) - 1 \in T
  <2> HIDE DEF T
  <2>1. Len(Log) - 1 \in Nat
    BY <1>1
  <2> QED
    BY <1>2, <1>3, <2>1, LineInduction
<1>5. (Len(Log) - 1) + 1 = Len(Log)
  BY <1>1
<1> QED
  BY <1>1, <1>4, <1>5, LinesAre

-----------------------------------------------------------------------------
(* The lines of the string before line k, and those before them. *)
Around(e, i, k) ==
  /\ i[k] <= k
  /\ \A m \in 1 .. k : /\ m > k - i[k] => e[m] = e[k] /\ i[m] = m - (k - i[k])
                       /\ m <= k - i[k] /\ i[m] # 0 => e[m] < e[k]

LEMMA LaidAround ==
  ASSUME NEW f, NEW n \in Nat, NEW e, NEW i, Laid(f, n, e, i)
  PROVE  \A k \in 1 .. Len(f) : Around(e, i, k)
<1> DEFINE N == Len(f)
           T == {k \in Nat : k + 1 <= N => Around(e, i, k + 1)}
<1>1. N \in Nat /\ N >= 1 /\ e[1] = 1 /\ i[1] = First(1)
  BY DEF Laid
<1>2. \A k \in 1 .. N : e[k] \in Nat /\ i[k] \in Nat
  <2> TAKE k \in 1 .. N
  <2>1. Stands(f, n, e, i, k)
    BY DEF Laid
  <2> QED
    BY <2>1 DEF Stands
<1>3. \A k \in 1 .. N - 1 : Follows(e, i, k)
  BY DEF Laid
<1>4. \A j : First(j) \in {0, 1}
  BY DEF First
<1> HIDE DEF N
<1>5. 0 \in T
  <2>1. i[1] \in {0, 1}
    BY <1>1, <1>4
  <2> QED
    BY <1>1, <2>1 DEF Around
<1>6. ASSUME NEW k \in Nat, k \in T PROVE k + 1 \in T
  <2> SUFFICES ASSUME (k + 1) + 1 <= N PROVE Around(e, i, (k + 1) + 1)
    OBVIOUS
  <2> DEFINE l == k + 1
  <2>1. l \in 1 .. N - 1 /\ l \in 1 .. N /\ l + 1 \in 1 .. N /\ l \in Nat /\ Around(e, i, l)
    BY <1>1, <1>6
  <2> HIDE DEF l
  <2>2. Follows(e, i, l)
    BY <1>3, <2>1
  <2>3. /\ i[l] <= l
        /\ \A m \in 1 .. l : /\ m > l - i[l] => e[m] = e[l] /\ i[m] = m - (l - i[l])
                             /\ m <= l - i[l] /\ i[m] # 0 => e[m] < e[l]
    BY <2>1 DEF Around
  <2>4. i[l] \in Nat /\ i[l + 1] \in Nat /\ e[l] \in Nat /\ e[l + 1] \in Nat
    BY <1>2, <2>1
  <2>5. CASE e[l + 1] = e[l] /\ i[l + 1] = i[l] + 1
    <3>1. (l + 1) - i[l + 1] = l - i[l]
      BY <2>1, <2>4, <2>5
    <3>2. ASSUME NEW m \in 1 .. l + 1
          PROVE  /\ m > l - i[l] => e[m] = e[l + 1] /\ i[m] = m - (l - i[l])
                 /\ m <= l - i[l] /\ i[m] # 0 => e[m] < e[l + 1]
      <4>1. CASE m = l + 1
        BY <2>1, <2>4, <2>5, <4>1
      <4>2. CASE m \in 1 .. l
        BY <2>3, <2>5, <4>2
      <4> QED
        BY <2>1, <4>1, <4>2
    <3>3. i[l + 1] <= l + 1
      BY <2>1, <2>3, <2>4, <2>5
    <3> QED
      BY <3>1, <3>2, <3>3 DEF Around, l
  <2>6. CASE e[l + 1] = e[l] + 1 /\ i[l + 1] = First(e[l + 1])
    <3>1. i[l + 1] \in {0, 1}
      BY <1>4, <2>6
    <3>2. ASSUME NEW m \in 1 .. l + 1
          PROVE  /\ m > (l + 1) - i[l + 1] => e[m] = e[l + 1] /\ i[m] = m - ((l + 1) - i[l + 1])
                 /\ m <= (l + 1) - i[l + 1] /\ i[m] # 0 => e[m] < e[l + 1]
      <4>1. CASE m = l + 1
        BY <2>1, <3>1, <4>1
      <4>2. CASE m \in 1 .. l
        <5>1. m <= (l + 1) - i[l + 1]
          BY <2>1, <3>1, <4>2
        <5>2. e[m] \in Nat /\ m \in 1 .. N
          BY <1>1, <1>2, <2>1, <4>2
        <5>3. i[m] # 0 => e[m] <= e[l]
          <6>1. m > l - i[l] \/ m <= l - i[l]
            BY <2>1, <2>4, <4>2
          <6> QED
            BY <2>3, <2>4, <4>2, <5>2, <6>1
        <5> QED
          BY <2>1, <2>4, <2>6, <3>1, <4>2, <5>1, <5>2, <5>3
      <4> QED
        BY <2>1, <4>1, <4>2
    <3> QED
      BY <2>1, <3>1, <3>2 DEF Around, l
  <2> QED
    BY <2>2, <2>5, <2>6 DEF Follows
<1>7. \A k \in Nat : k \in T
  <2> HIDE DEF T
  <2> QED
    BY <1>5, <1>6, LineInduction
<1>8. ASSUME NEW k \in 1 .. N PROVE Around(e, i, k)
  <2>1. k - 1 \in Nat /\ (k - 1) + 1 = k /\ k <= N
    BY <1>1
  <2>2. k - 1 \in T
    BY <1>7, <2>1
  <2> QED
    BY <2>1, <2>2
<1> QED
  BY <1>8 DEF N
-----------------------------------------------------------------------------
(* The recursive functions of the reader and of what it should take. *)
After(l, f) == f = [k \in 0 .. Len(l) |-> IF k = 0 THEN Reader ELSE ReadLine(f[k - 1], l[k])]

LEMMA ReadingIs ==
  ASSUME NEW l, Len(l) \in Nat
  PROVE  /\ Reading(l)[0] = Reader
         /\ \A k \in 1 .. Len(l) : Reading(l)[k] = ReadLine(Reading(l)[k - 1], l[k])
<1> DEFINE Upto(n, f) == f = [k \in 0 .. n |-> IF k = 0 THEN Reader ELSE ReadLine(f[k - 1], l[k])]
           T == {n \in Nat : \E f : Upto(n, f)}
<1>1. 0 \in T
  <2> DEFINE g == [k \in 0 .. 0 |-> Reader]
  <2>1. Upto(0, g)
    OBVIOUS
  <2> QED
    BY <2>1
<1>2. ASSUME NEW n \in Nat, n \in T PROVE n + 1 \in T
  <2>1. PICK f : Upto(n, f)
    BY <1>2
  <2> DEFINE g == [k \in 0 .. n + 1 |-> IF k \in 0 .. n THEN f[k] ELSE ReadLine(f[n], l[n + 1])]
  <2>2. ASSUME NEW k \in 0 .. n + 1
        PROVE  g[k] = IF k = 0 THEN Reader ELSE ReadLine(g[k - 1], l[k])
    <3>1. CASE k = n + 1
      <4>1. k # 0 /\ k \notin 0 .. n /\ k - 1 = n /\ n \in 0 .. n /\ n \in 0 .. n + 1
        BY <3>1
      <4>2. g[k] = ReadLine(f[n], l[n + 1]) /\ g[k - 1] = f[n]
        BY <4>1
      <4> HIDE DEF g
      <4> QED
        BY <3>1, <4>1, <4>2
    <3>2. CASE k \in 0 .. n
      <4>1. g[k] = f[k] /\ (k # 0 => k - 1 \in 0 .. n /\ k - 1 \in 0 .. n + 1 /\ g[k - 1] = f[k - 1])
        BY <3>2
      <4>2. f[k] = IF k = 0 THEN Reader ELSE ReadLine(f[k - 1], l[k])
        BY <2>1, <3>2
      <4> HIDE DEF g
      <4> QED
        BY <4>1, <4>2
    <3> QED
      BY <3>1, <3>2
  <2>3. Upto(n + 1, g)
    <3>1. g = [k \in 0 .. n + 1 |-> g[k]]
      OBVIOUS
    <3> HIDE DEF g
    <3> QED
      BY <2>2, <3>1
  <2> HIDE DEF g, Upto
  <2> QED
    BY <2>3
<1>3. \E f : After(l, f)
  <2>1. Len(l) \in T
    <3> HIDE DEF T
    <3> QED
      BY <1>1, <1>2, LineInduction
  <2> QED
    BY <2>1 DEF After
<1>4. Reading(l) = CHOOSE f : After(l, f)
  BY DEF Reading, After
<1>5. After(l, Reading(l))
  BY <1>3, <1>4
<1> DEFINE r == Reading(l)
<1>6. r = [k \in 0 .. Len(l) |-> IF k = 0 THEN Reader ELSE ReadLine(r[k - 1], l[k])]
  BY <1>5 DEF After
<1> HIDE DEF r
<1>7. \A k \in 0 .. Len(l) : r[k] = IF k = 0 THEN Reader ELSE ReadLine(r[k - 1], l[k])
  BY <1>6
<1> QED
  BY <1>7 DEF r

(* What line n adds to what is kept. *)
KeepLine(l, k, n, v) ==
  IF ~l[n].header /\ Shows(l, k, l[n].at)
  THEN Append(v, [frame |-> Log[l[n].at].id, tree |-> l[n].tree])
  ELSE v
KeptBy(l, k, f) == f = [n \in 0 .. k |-> IF n = 0 THEN <<>> ELSE KeepLine(l, k, n, f[n - 1])]

LEMMA KeptIs ==
  ASSUME NEW l, NEW k \in Nat
  PROVE  /\ Kept(l, k)[0] = <<>>
         /\ \A n \in 1 .. k : Kept(l, k)[n] = KeepLine(l, k, n, Kept(l, k)[n - 1])
<1> DEFINE Upto(m, f) == f = [n \in 0 .. m |-> IF n = 0 THEN <<>> ELSE KeepLine(l, k, n, f[n - 1])]
           T == {m \in Nat : \E f : Upto(m, f)}
<1>1. 0 \in T
  <2> DEFINE g == [n \in 0 .. 0 |-> <<>>]
  <2>1. Upto(0, g)
    OBVIOUS
  <2> QED
    BY <2>1
<1>2. ASSUME NEW m \in Nat, m \in T PROVE m + 1 \in T
  <2>1. PICK f : Upto(m, f)
    BY <1>2
  <2> DEFINE g == [n \in 0 .. m + 1 |-> IF n \in 0 .. m THEN f[n] ELSE KeepLine(l, k, m + 1, f[m])]
  <2>2. ASSUME NEW n \in 0 .. m + 1
        PROVE  g[n] = IF n = 0 THEN <<>> ELSE KeepLine(l, k, n, g[n - 1])
    <3>1. CASE n = m + 1
      <4>1. n # 0 /\ n \notin 0 .. m /\ n - 1 = m /\ m \in 0 .. m /\ m \in 0 .. m + 1
        BY <3>1
      <4>2. g[n] = KeepLine(l, k, m + 1, f[m]) /\ g[n - 1] = f[m]
        BY <4>1
      <4> HIDE DEF g
      <4> QED
        BY <3>1, <4>1, <4>2
    <3>2. CASE n \in 0 .. m
      <4>1. g[n] = f[n] /\ (n # 0 => n - 1 \in 0 .. m /\ n - 1 \in 0 .. m + 1 /\ g[n - 1] = f[n - 1])
        BY <3>2
      <4>2. f[n] = IF n = 0 THEN <<>> ELSE KeepLine(l, k, n, f[n - 1])
        BY <2>1, <3>2
      <4> HIDE DEF g
      <4> QED
        BY <4>1, <4>2
    <3> QED
      BY <3>1, <3>2
  <2>3. Upto(m + 1, g)
    <3>1. g = [n \in 0 .. m + 1 |-> g[n]]
      OBVIOUS
    <3> HIDE DEF g
    <3> QED
      BY <2>2, <3>1
  <2> HIDE DEF g, Upto
  <2> QED
    BY <2>3
<1>3. \E f : KeptBy(l, k, f)
  <2>1. k \in T
    <3> HIDE DEF T
    <3> QED
      BY <1>1, <1>2, LineInduction
  <2> QED
    BY <2>1 DEF KeptBy
<1>4. Kept(l, k) = CHOOSE f : KeptBy(l, k, f)
  BY DEF Kept, KeptBy, KeepLine
<1>5. KeptBy(l, k, Kept(l, k))
  BY <1>3, <1>4
<1> DEFINE v == Kept(l, k)
<1>6. v = [n \in 0 .. k |-> IF n = 0 THEN <<>> ELSE KeepLine(l, k, n, v[n - 1])]
  BY <1>5 DEF KeptBy
<1> HIDE DEF v
<1>7. \A n \in 0 .. k : v[n] = IF n = 0 THEN <<>> ELSE KeepLine(l, k, n, v[n - 1])
  BY <1>6
<1> QED
  BY <1>7 DEF v

-----------------------------------------------------------------------------
Number == FrameId \cup {0}
Readers ==
  [frame : Number, cache : Seq(Tree), interested : BOOLEAN,
   perf : Seq([frame : Number, tree : Tree]), frameperf : Seq([frame : Number, of : Int])]

(* What a flush puts in perf. *)
Taken(r) == [j \in DOMAIN r.cache |-> [frame |-> r.frame, tree |-> r.cache[j]]]

LEMMA TakenIs ==
  ASSUME NEW r \in Readers
  PROVE  /\ Taken(r) \in Seq([frame : Number, tree : Tree]) /\ Len(Taken(r)) = Len(r.cache)
         /\ Len(r.cache) \in Nat
         /\ \A j \in 1 .. Len(r.cache) : Taken(r)[j] = [frame |-> r.frame, tree |-> r.cache[j]]
<1>1. r.cache \in Seq(Tree) /\ r.frame \in Number
  BY DEF Readers
<1>2. DOMAIN r.cache = 1 .. Len(r.cache) /\ Len(r.cache) \in Nat /\ \A j \in 1 .. Len(r.cache) : r.cache[j] \in Tree
  BY <1>1, LenProperties, ElementOfSeq
<1>3. Taken(r) \in [1 .. Len(r.cache) -> [frame : Number, tree : Tree]]
  BY <1>1, <1>2 DEF Taken
<1>4. \A j \in 1 .. Len(r.cache) : Taken(r)[j] = [frame |-> r.frame, tree |-> r.cache[j]]
  BY <1>2 DEF Taken
<1> DEFINE t == Taken(r)
           S == [frame : Number, tree : Tree]
           n == Len(r.cache)
<1>5. t \in [1 .. n -> S] /\ n \in Nat
  BY <1>2, <1>3
<1> HIDE DEF t, S, n
<1>6. t \in Seq(S)
  BY <1>5, SeqDef
<1>7. Len(t) = n
  <2>1. DOMAIN t = 1 .. n /\ DOMAIN t = 1 .. Len(t) /\ Len(t) \in Nat
    BY <1>5, <1>6, LenProperties
  <2> QED
    BY <1>5, <2>1
<1> QED
  BY <1>2, <1>4, <1>6, <1>7 DEF t, S, n

LEMMA FlushIs ==
  ASSUME NEW r \in Readers
  PROVE  /\ Flush(r) \in Readers
         /\ Flush(r).frame = r.frame /\ Flush(r).cache = <<>> /\ Flush(r).interested = FALSE
         /\ Flush(r).perf = IF r.interested THEN r.perf \o Taken(r) ELSE r.perf
         /\ Flush(r).frameperf = r.frameperf
<1> DEFINE p == IF r.interested THEN r.perf \o Taken(r) ELSE r.perf
<1>1. p \in Seq([frame : Number, tree : Tree])
  <2>1. r.perf \in Seq([frame : Number, tree : Tree])
    BY DEF Readers
  <2>2. r.perf \o Taken(r) \in Seq([frame : Number, tree : Tree])
    BY <2>1, TakenIs, ConcatProperties
  <2> QED
    BY <2>1, <2>2
<1>2. Flush(r) = [r EXCEPT !.perf = p, !.interested = FALSE, !.cache = <<>>]
  BY DEF Flush, Taken
<1> HIDE DEF p
<1>3. <<>> \in Seq(Tree)
  BY EmptySeq
<1>4. /\ Flush(r) \in Readers
      /\ Flush(r).frame = r.frame /\ Flush(r).cache = <<>> /\ Flush(r).interested = FALSE
      /\ Flush(r).perf = p /\ Flush(r).frameperf = r.frameperf
  BY <1>1, <1>2, <1>3 DEF Readers
<1> QED
  BY <1>4 DEF p

(* What a header and a tree make of the reader. *)
LEMMA HeaderIs ==
  ASSUME Log \in Seq(String), CarriesOK, NEW r \in Readers, NEW j \in 1 .. Len(Log)
  PROVE  LET x == ReadLine(r, At(j, 0))
         IN  /\ x \in Readers
             /\ x.frame = Log[j].id /\ x.cache = <<>> /\ x.interested = FALSE
             /\ x.perf = Flush(r).perf
             /\ x.frameperf = IF carries[j] # Nobody /\ r.interested
                              THEN Append(r.frameperf, [frame |-> r.frame, of |-> carries[j]])
                              ELSE r.frameperf
<1> DEFINE x == ReadLine(r, At(j, 0))
           new == [frame |-> r.frame, of |-> carries[j]]
           timed == IF carries[j] # Nobody /\ r.interested
                    THEN [r EXCEPT !.frameperf = Append(@, new)]
                    ELSE r
           id == Log[j].id
<1>2. x = [Flush(timed) EXCEPT !.frame = id]
  <2> DEFINE l == At(j, 0)
  <2>1. l.header /\ l.id = id /\ l.of = carries[j]
    BY DEF At
  <2> HIDE DEF l
  <2>2. ReadLine(r, l) = ReadHeader(r, l)
    BY <2>1 DEF ReadLine
  <2>3. ReadHeader(r, l) = [Flush(timed) EXCEPT !.frame = id]
    BY <2>1, Zenon DEF ReadHeader
  <2> QED
    BY <2>2, <2>3 DEF l
<1>3. id \in Number /\ carries[j] \in Int
  <2>1. carries \in Seq(Int) /\ Len(carries) = Len(Log)
    BY DEF CarriesOK
  <2> QED
    BY <2>1, StringSize, ElementOfSeq DEF Number
<1>4. new \in [frame : Number, of : Int]
  BY <1>3 DEF Readers
<1>5. /\ timed \in Readers /\ timed.frame = r.frame /\ timed.cache = r.cache
      /\ timed.interested = r.interested /\ timed.perf = r.perf
      /\ timed.frameperf = IF carries[j] # Nobody /\ r.interested THEN Append(r.frameperf, new) ELSE r.frameperf
  <2> HIDE DEF new
  <2>1. r.frameperf \in Seq([frame : Number, of : Int])
    BY DEF Readers
  <2>2. Append(r.frameperf, new) \in Seq([frame : Number, of : Int])
    BY <1>4, <2>1, AppendProperties
  <2>3. CASE carries[j] # Nobody /\ r.interested
    <3>1. timed = [r EXCEPT !.frameperf = Append(r.frameperf, new)]
      BY <2>3
    <3> HIDE DEF timed
    <3> QED
      BY <2>2, <2>3, <3>1 DEF Readers
  <2>4. CASE ~(carries[j] # Nobody /\ r.interested)
    <3>1. timed = r
      BY <2>4
    <3> HIDE DEF timed
    <3> QED
      BY <2>4, <3>1
  <2> QED
    BY <2>3, <2>4
<1> HIDE DEF timed, new, x
<1>6. Taken(timed) = Taken(r)
  BY <1>5 DEF Taken
<1>7. /\ Flush(timed) \in Readers /\ Flush(timed).cache = <<>> /\ Flush(timed).interested = FALSE
      /\ Flush(timed).perf = Flush(r).perf /\ Flush(timed).frameperf = timed.frameperf
  <2>1. timed \in Readers /\ timed.interested = r.interested /\ timed.perf = r.perf
    BY <1>5
  <2>2. /\ Flush(timed) \in Readers /\ Flush(timed).cache = <<>> /\ Flush(timed).interested = FALSE
        /\ Flush(timed).perf = IF timed.interested THEN timed.perf \o Taken(timed) ELSE timed.perf
        /\ Flush(timed).frameperf = timed.frameperf
    BY <2>1, FlushIs
  <2>3. Flush(r).perf = IF r.interested THEN r.perf \o Taken(r) ELSE r.perf
    BY FlushIs
  <2> QED
    BY <1>6, <2>1, <2>2, <2>3
<1>8. /\ x \in Readers /\ x.frame = id /\ x.cache = <<>> /\ x.interested = FALSE
      /\ x.perf = Flush(r).perf /\ x.frameperf = timed.frameperf
  BY <1>2, <1>3, <1>7 DEF Readers
<1> QED
  BY <1>5, <1>8 DEF x, new

LEMMA TreeIs ==
  ASSUME Log \in Seq(String), NEW r \in Readers, NEW j \in 1 .. Len(Log), NEW i \in 1 .. Size(j)
  PROVE  LET x == ReadLine(r, At(j, i))
         IN  /\ x \in Readers
             /\ x.frame = r.frame /\ x.cache = Append(r.cache, Log[j].trees[i])
             /\ x.interested = (r.interested \/ Log[j].trees[i] \in Interesting)
             /\ x.perf = r.perf /\ x.frameperf = r.frameperf
<1> DEFINE x == ReadLine(r, At(j, i))
           t == Log[j].trees[i]
<1>1. i # 0 /\ t \in Tree
  BY StringSize, ElementOfSeq DEF Size
<1>2. At(j, i) = [header |-> FALSE, tree |-> t, at |-> j]
  BY <1>1 DEF At
<1>3. x = [r EXCEPT !.cache = Append(@, t), !.interested = @ \/ t \in Interesting]
  BY <1>2 DEF ReadLine, ReadTree
<1>4. r.cache \in Seq(Tree) /\ r.interested \in BOOLEAN
  BY DEF Readers
<1> HIDE DEF x, t
<1>5. Append(r.cache, t) \in Seq(Tree)
  BY <1>1, <1>4, AppendProperties
<1>6. /\ x \in Readers /\ x.frame = r.frame /\ x.cache = Append(r.cache, t)
      /\ x.interested = (r.interested \/ t \in Interesting)
      /\ x.perf = r.perf /\ x.frameperf = r.frameperf
  BY <1>3, <1>4, <1>5 DEF Readers
<1> QED
  BY <1>6 DEF x, t
-----------------------------------------------------------------------------
(* The reader r has read line j of string n, and the trees before it. *)
Here(r, n, j) ==
  /\ r \in Readers
  /\ r.frame = Log[n].id
  /\ Len(r.cache) = j /\ \A l \in 1 .. j : r.cache[l] = Log[n].trees[l]
  /\ r.interested <=> \E l \in 1 .. j : Log[n].trees[l] \in Interesting

LEMMA HereHeader ==
  ASSUME Log \in Seq(String), CarriesOK, NEW r \in Readers, NEW n \in 1 .. Len(Log)
  PROVE  Here(ReadLine(r, At(n, 0)), n, 0)
<1> DEFINE x == ReadLine(r, At(n, 0))
<1>1. x \in Readers /\ x.frame = Log[n].id /\ x.cache = <<>> /\ x.interested = FALSE
  BY HeaderIs
<1> HIDE DEF x
<1>2. Len(x.cache) = 0
  BY <1>1, EmptySeq
<1>3. Here(x, n, 0)
  BY <1>1, <1>2 DEF Here
<1> QED
  BY <1>3 DEF x

LEMMA HereTree ==
  ASSUME Log \in Seq(String), NEW r \in Readers, NEW n \in 1 .. Len(Log),
         NEW m \in 1 .. Len(Log), NEW j \in Nat, j + 1 <= Size(m), Here(r, n, j),
         n = m \/ (j = 0 /\ Log[n].id = Log[m].id)
  PROVE  Here(ReadLine(r, At(m, j + 1)), m, j + 1)
<1> DEFINE x == ReadLine(r, At(m, j + 1))
           t == Log[m].trees
<1>1. j + 1 \in 1 .. Size(m)
  BY StringSize
<1>2. /\ x \in Readers
      /\ x.frame = r.frame /\ x.cache = Append(r.cache, t[j + 1])
      /\ x.interested = (r.interested \/ t[j + 1] \in Interesting)
  BY <1>1, TreeIs
<1>3. /\ r.frame = Log[n].id /\ r.cache \in Seq(Tree) /\ r.interested \in BOOLEAN
      /\ Len(r.cache) = j /\ \A l \in 1 .. j : r.cache[l] = Log[n].trees[l]
      /\ r.interested <=> \E l \in 1 .. j : Log[n].trees[l] \in Interesting
  BY DEF Here, Readers
<1>4. /\ \A l \in 1 .. j : r.cache[l] = t[l]
      /\ r.interested <=> \E l \in 1 .. j : t[l] \in Interesting
  BY <1>3
<1>5. x.frame = Log[m].id
  BY <1>2, <1>3
<1> HIDE DEF x, t
<1>6. t[j + 1] \in Tree
  BY <1>1, StringSize, ElementOfSeq DEF Size, t
<1>7. /\ Len(x.cache) = j + 1 /\ x.cache[j + 1] = t[j + 1]
      /\ \A l \in 1 .. j : x.cache[l] = r.cache[l]
  BY <1>2, <1>3, <1>6, AppendProperties
<1>8. \A l \in 1 .. j + 1 : l = j + 1 \/ l \in 1 .. j
  OBVIOUS
<1>9. \A l \in 1 .. j + 1 : x.cache[l] = t[l]
  BY <1>4, <1>7, <1>8
<1>10. x.interested <=> \E l \in 1 .. j + 1 : t[l] \in Interesting
  <2>1. j + 1 \in 1 .. j + 1 /\ \A l \in 1 .. j : l \in 1 .. j + 1
    OBVIOUS
  <2> QED
    BY <1>2, <1>3, <1>4, <1>8, <2>1
<1> QED
  BY <1>2, <1>5, <1>7, <1>9, <1>10 DEF Here, t, x

-----------------------------------------------------------------------------
LEMMA ReaderIs ==
  /\ Reader \in Readers /\ Reader.frameperf = <<>> /\ Reader.perf = <<>>
  /\ Reader.cache = <<>> /\ Reader.interested = FALSE
<1> DEFINE P == [frame : Number, tree : Tree]
           Q == [frame : Number, of : Int]
<1>1. <<>> \in Seq(Tree) /\ <<>> \in Seq(P) /\ <<>> \in Seq(Q)
  BY EmptySeq
<1> HIDE DEF P, Q
<1>2. 0 \in Number
  BY DEF Number
<1>3. Readers = [frame : Number, cache : Seq(Tree), interested : BOOLEAN, perf : Seq(P), frameperf : Seq(Q)]
  BY DEF Readers, P, Q
<1> QED
  BY <1>1, <1>2, <1>3 DEF Reader

(* What the lines say at line k, with the facts the induction needs. *)
LEMMA LaidAt ==
  ASSUME Log \in Seq(String), NEW f, NEW e, NEW i, Laid(f, Len(Log), e, i), NEW k \in 1 .. Len(f)
  PROVE  /\ Len(Log) \in Nat /\ Len(f) \in Nat /\ e[k] \in 1 .. Len(Log) /\ Size(e[k]) \in Nat
         /\ i[k] \in Nat /\ i[k] <= Size(e[k]) /\ (i[k] = 0 <=> Size(e[k]) = 0)
         /\ f[k] = At(e[k], i[k])
<1>1. Stands(f, Len(Log), e, i, k) /\ Len(f) \in Nat
  BY DEF Laid
<1>2. e[k] \in 1 .. Len(Log)
  BY <1>1 DEF Stands
<1> QED
  BY <1>1, <1>2, StringSize, LenProperties DEF Stands

(* The line behind line k, by whether it is a header. *)
LEMMA LaidNext ==
  ASSUME Log \in Seq(String), Headed, NEW f, NEW e, NEW i, Laid(f, Len(Log), e, i),
         NEW k \in 1 .. Len(f) - 1
  PROVE  \/ /\ i[k + 1] = 0 /\ e[k + 1] = e[k] + 1 /\ i[k] = Size(e[k])
         \/ /\ i[k + 1] = i[k] + 1 /\ e[k + 1] = e[k]
         \/ /\ i[k + 1] = 1 /\ e[k + 1] = e[k] + 1 /\ i[k] = 0
            /\ Size(e[k]) = 0 /\ Log[e[k]].id = Log[e[k + 1]].id
<1>1. Follows(e, i, k) /\ Len(f) \in Nat
  BY DEF Laid
<1>2. k \in 1 .. Len(f) /\ k + 1 \in 1 .. Len(f)
  BY <1>1
<1>3. e[k] \in 1 .. Len(Log) /\ e[k + 1] \in 1 .. Len(Log) /\ Len(Log) \in Nat
  BY <1>2, LaidAt
<1>4. ASSUME e[k + 1] = e[k] + 1, First(e[k + 1]) = 1
      PROVE  Size(e[k]) = 0 /\ Log[e[k]].id = Log[e[k + 1]].id
  <2>1. Size(e[k + 1]) # 0
    BY <1>4 DEF First
  <2>2. Log[e[k + 1]].trees # <<>>
    BY <1>3, <2>1, StringSize
  <2>3. Log[e[k + 1] - 1].trees = <<>> /\ Log[e[k + 1] - 1].id = Log[e[k + 1]].id
    BY <1>3, <2>2 DEF Headed
  <2>4. e[k + 1] - 1 = e[k]
    BY <1>3, <1>4
  <2> QED
    BY <1>3, <2>3, <2>4, StringSize
<1>5. First(e[k + 1]) \in {0, 1}
  BY DEF First
<1> QED
  BY <1>1, <1>4, <1>5 DEF Follows

(* After each line the reader knows its string and the trees before it. *)
LEMMA ReaderHere ==
  ASSUME Log \in Seq(String), Headed, CarriesOK, NEW f, NEW e, NEW i, Laid(f, Len(Log), e, i)
  PROVE  \A k \in 1 .. Len(f) : Here(Reading(f)[k], e[k], i[k])
<1> DEFINE T == {k \in Nat : k + 1 <= Len(f) => Here(Reading(f)[k + 1], e[k + 1], i[k + 1])}
<1>1. Len(f) \in Nat /\ Len(f) >= 1 /\ e[1] = 1 /\ i[1] = First(1) /\ 1 \in 1 .. Len(f)
  BY DEF Laid
<1>2. /\ Reading(f)[0] = Reader
      /\ \A k \in 1 .. Len(f) : Reading(f)[k] = ReadLine(Reading(f)[k - 1], f[k])
  BY <1>1, ReadingIs
<1>3. 0 \in T
  <2>1. Reading(f)[1] = ReadLine(Reader, f[1])
    BY <1>1, <1>2
  <2>2. f[1] = At(1, i[1]) /\ 1 \in 1 .. Len(Log) /\ i[1] \in Nat /\ i[1] <= Size(1) /\ (i[1] = 0 <=> Size(1) = 0)
    BY <1>1, LaidAt
  <2>3. Log[1].trees = <<>>
    BY <2>2 DEF Headed
  <2>4. i[1] = 0
    BY <2>2, <2>3, StringSize
  <2>5. Here(ReadLine(Reader, At(1, 0)), 1, 0)
    BY <2>2, ReaderIs, HereHeader
  <2>6. Here(Reading(f)[1], e[1], i[1])
    BY <1>1, <2>1, <2>2, <2>4, <2>5
  <2> QED
    BY <2>6
<1>4. ASSUME NEW n \in Nat, n \in T PROVE n + 1 \in T
  <2> SUFFICES ASSUME (n + 1) + 1 <= Len(f)
               PROVE  Here(Reading(f)[(n + 1) + 1], e[(n + 1) + 1], i[(n + 1) + 1])
    OBVIOUS
  <2> DEFINE k == n + 1
             r == Reading(f)[k]
  <2>1. k \in 1 .. Len(f) - 1 /\ k \in 1 .. Len(f) /\ k + 1 \in 1 .. Len(f) /\ (k + 1) - 1 = k /\ Here(r, e[k], i[k])
    BY <1>1, <1>4
  <2> HIDE DEF k
  <2>2. Reading(f)[k + 1] = ReadLine(r, f[k + 1])
    BY <1>2, <2>1
  <2> HIDE DEF r
  <2>3. r \in Readers
    BY <2>1 DEF Here
  <2>4. /\ e[k] \in 1 .. Len(Log) /\ i[k] \in Nat
        /\ e[k + 1] \in 1 .. Len(Log) /\ i[k + 1] \in Nat /\ i[k + 1] <= Size(e[k + 1])
        /\ f[k + 1] = At(e[k + 1], i[k + 1])
    BY <2>1, LaidAt
  <2>5. CASE i[k + 1] = 0
    <3>1. Here(ReadLine(r, At(e[k + 1], 0)), e[k + 1], 0)
      BY <2>3, <2>4, HereHeader
    <3> QED
      BY <2>2, <2>4, <2>5, <3>1 DEF k
  <2>6. ASSUME i[k + 1] = i[k] + 1, e[k] = e[k + 1] \/ (i[k] = 0 /\ Log[e[k]].id = Log[e[k + 1]].id)
        PROVE  Here(Reading(f)[k + 1], e[k + 1], i[k + 1])
    <3> DEFINE a == e[k]
               b == e[k + 1]
               j == i[k]
    <3>1. /\ a \in 1 .. Len(Log) /\ b \in 1 .. Len(Log) /\ j \in Nat /\ j + 1 <= Size(b)
          /\ Here(r, a, j) /\ (a = b \/ (j = 0 /\ Log[a].id = Log[b].id))
      BY <2>1, <2>4, <2>6
    <3> HIDE DEF a, b, j
    <3>2. Here(ReadLine(r, At(b, j + 1)), b, j + 1)
      BY <2>3, <3>1, HereTree
    <3> QED
      BY <2>2, <2>4, <2>6, <3>2 DEF b, j
  <2>7. \/ i[k + 1] = 0
        \/ i[k + 1] = i[k] + 1 /\ (e[k] = e[k + 1] \/ (i[k] = 0 /\ Log[e[k]].id = Log[e[k + 1]].id))
    BY <2>1, LaidNext
  <2> QED
    BY <2>5, <2>6, <2>7 DEF k
<1>5. ASSUME NEW k \in 1 .. Len(f) PROVE Here(Reading(f)[k], e[k], i[k])
  <2>1. k - 1 \in Nat /\ (k - 1) + 1 = k /\ k <= Len(f)
    BY <1>1
  <2>2. k - 1 \in T
    <3> HIDE DEF T
    <3> QED
      BY <1>3, <1>4, <2>1, LineInduction
  <2> QED
    BY <2>1, <2>2
<1> QED
  BY <1>5
-----------------------------------------------------------------------------
(* The frames before string n whose time is to be found. *)
Due(n) == {j \in 1 .. n - 1 : Wanted(j)} \ unheaded

TimesTold(t, n) ==
  /\ \A j \in DOMAIN t : t[j].frame = Log[t[j].of].id
  /\ \A j, l \in DOMAIN t : t[j].of = t[l].of => j = l
  /\ {t[j].of : j \in DOMAIN t} = Due(n)

LEMMA WantedIs ==
  ASSUME Log \in Seq(String), NEW n \in 1 .. Len(Log)
  PROVE  Wanted(n) <=> \E l \in 1 .. Size(n) : Log[n].trees[l] \in Interesting
<1>1. DOMAIN Log[n].trees = 1 .. Size(n)
  BY StringSize, LenProperties DEF Size
<1> QED
  BY <1>1 DEF Wanted, ToSet

LEMMA DueGrows ==
  ASSUME NEW n \in Nat, n >= 1
  PROVE  Due(n + 1) = IF Wanted(n) /\ n \notin unheaded THEN Due(n) \cup {n} ELSE Due(n)
<1>1. \A j : j \in 1 .. n <=> j \in 1 .. n - 1 \/ j = n
  OBVIOUS
<1>2. (n + 1) - 1 = n
  OBVIOUS
<1> QED
  BY <1>1, <1>2 DEF Due

LEMMA TimesAppend ==
  ASSUME NEW t \in Seq([frame : Number, of : Int]), NEW n \in Nat, n >= 1, TimesTold(t, n),
         Wanted(n), n \notin unheaded, Log[n].id \in Number
  PROVE  TimesTold(Append(t, [frame |-> Log[n].id, of |-> n]), n + 1)
<1> DEFINE S == [frame : Number, of : Int]
           new == [frame |-> Log[n].id, of |-> n]
           u == Append(t, new)
           m == Len(t)
<1>1. new \in S /\ new.frame = Log[n].id /\ new.of = n
  OBVIOUS
<1> HIDE DEF S, new
<1>2. t \in Seq(S)
  BY DEF S
<1>3. /\ m \in Nat /\ DOMAIN t = 1 .. m /\ Len(u) = m + 1 /\ DOMAIN u = 1 .. m + 1
      /\ u[m + 1] = new /\ \A j \in 1 .. m : u[j] = t[j]
  BY <1>1, <1>2, AppendProperties, LenProperties
<1> HIDE DEF u, m
<1>4. \A j : j \in DOMAIN u <=> j \in DOMAIN t \/ j = m + 1
  BY <1>3
<1>5. \A j \in DOMAIN t : t[j].of # n
  <2>1. \A j \in DOMAIN t : t[j].of \in Due(n)
    BY DEF TimesTold
  <2>2. n \notin Due(n)
    BY DEF Due
  <2> QED
    BY <2>1, <2>2
<1>6. \A j \in DOMAIN u : u[j].frame = Log[u[j].of].id
  BY <1>1, <1>3, <1>4 DEF TimesTold
<1>7. ASSUME NEW j \in DOMAIN u, NEW l \in DOMAIN u, u[j].of = u[l].of PROVE j = l
  <2>1. CASE j = m + 1 \/ l = m + 1
    BY <1>1, <1>3, <1>4, <1>5, <1>7, <2>1
  <2>2. CASE j \in DOMAIN t /\ l \in DOMAIN t
    BY <1>3, <1>7, <2>2 DEF TimesTold
  <2> QED
    BY <1>4, <2>1, <2>2
<1>8. {u[j].of : j \in DOMAIN u} = {t[j].of : j \in DOMAIN t} \cup {n}
  BY <1>1, <1>3, <1>4
<1>9. {u[j].of : j \in DOMAIN u} = Due(n + 1)
  BY <1>8, DueGrows DEF TimesTold
<1>10. TimesTold(u, n + 1)
  BY <1>6, <1>7, <1>9 DEF TimesTold
<1> QED
  BY <1>10 DEF u, new

-----------------------------------------------------------------------------
(* A line leaves the times as they are, or adds that of its header. *)
LEMMA TimesStep ==
  ASSUME Log \in Seq(String), Headed, CarriesOK, NEW f, NEW e, NEW i, Laid(f, Len(Log), e, i),
         NEW k \in 1 .. Len(f) - 1, TimesTold(Reading(f)[k].frameperf, e[k])
  PROVE  TimesTold(Reading(f)[k + 1].frameperf, e[k + 1])
<1> DEFINE r == Reading(f)[k]
           x == Reading(f)[k + 1]
           n == e[k]
<1>1. Len(f) \in Nat
  BY DEF Laid
<1>2. k \in 1 .. Len(f) /\ k + 1 \in 1 .. Len(f) /\ (k + 1) - 1 = k
  BY <1>1
<1>3. /\ n \in 1 .. Len(Log) /\ Len(Log) \in Nat /\ i[k] \in Nat /\ Size(n) \in Nat
      /\ e[k + 1] \in 1 .. Len(Log) /\ i[k + 1] \in Nat /\ i[k + 1] <= Size(e[k + 1])
      /\ f[k + 1] = At(e[k + 1], i[k + 1])
  BY <1>2, LaidAt
<1>4. x = ReadLine(r, f[k + 1])
  BY <1>1, <1>2, ReadingIs
<1>5. Here(r, n, i[k])
  BY <1>2, ReaderHere
<1>6. r \in Readers /\ r.frame = Log[n].id
  BY <1>5 DEF Here
<1> HIDE DEF r, x
<1>7. ASSUME i[k + 1] # 0 PROVE x.frameperf = r.frameperf
  <2>1. i[k + 1] \in 1 .. Size(e[k + 1])
    BY <1>3, <1>7, StringSize
  <2> QED
    BY <1>3, <1>4, <1>6, <2>1, TreeIs
<1>8. TimesTold(r.frameperf, n)
  BY DEF r
<1>9. CASE i[k + 1] = i[k] + 1 /\ e[k + 1] = n
  BY <1>3, <1>7, <1>8, <1>9 DEF x
<1>10. CASE i[k + 1] = 1 /\ e[k + 1] = n + 1 /\ Size(n) = 0
  <2>1. ~Wanted(n)
    <3>1. \A l \in 1 .. Size(n) : FALSE
      BY <1>10
    <3> QED
      BY <1>3, <3>1, WantedIs
  <2>2. Due(n + 1) = Due(n)
    <3>1. n \in Nat /\ n >= 1
      BY <1>3
    <3> QED
      BY <2>1, <3>1, DueGrows
  <2>3. TimesTold(r.frameperf, n + 1)
    BY <1>8, <2>2 DEF TimesTold
  <2>4. x.frameperf = r.frameperf
    BY <1>7, <1>10
  <2>5. TimesTold(x.frameperf, e[k + 1])
    BY <1>10, <2>3, <2>4
  <2> QED
    BY <2>5 DEF x
<1>11. CASE i[k + 1] = 0 /\ e[k + 1] = n + 1 /\ i[k] = Size(n)
  <2>1. x.frameperf = IF carries[n + 1] # Nobody /\ r.interested
                      THEN Append(r.frameperf, [frame |-> Log[n].id, of |-> carries[n + 1]])
                      ELSE r.frameperf
    <3>1. x = ReadLine(r, At(n + 1, 0)) /\ n + 1 \in 1 .. Len(Log)
      BY <1>3, <1>4, <1>11
    <3>2. ReadLine(r, At(n + 1, 0)).frameperf
            = IF carries[n + 1] # Nobody /\ r.interested
              THEN Append(r.frameperf, [frame |-> r.frame, of |-> carries[n + 1]])
              ELSE r.frameperf
      BY <1>6, <3>1, HeaderIs
    <3> QED
      BY <1>6, <3>1, <3>2
  <2>2. r.interested <=> Wanted(n)
    BY <1>3, <1>5, <1>11, WantedIs DEF Here
  <2>3. Wanted(n) => carries[n + 1] = TimeOf(n)
    <3>1. Wanted(n) => Log[n].trees # <<>>
      BY <1>3, WantedIs, StringSize
    <3>2. n \in 1 .. Len(Log) - 1
      BY <1>3, <1>11
    <3> QED
      BY <3>1, <3>2 DEF CarriesOK
  <2>4. n >= 1 /\ n \in Nat /\ n # Nobody
    BY <1>3 DEF Nobody
  <2>5. CASE Wanted(n) /\ n \notin unheaded
    <3>1. carries[n + 1] = n
      BY <2>3, <2>5 DEF TimeOf
    <3>2. x.frameperf = Append(r.frameperf, [frame |-> Log[n].id, of |-> n])
      BY <2>1, <2>2, <2>4, <2>5, <3>1
    <3>3. r.frameperf \in Seq([frame : Number, of : Int]) /\ Log[n].id \in Number
      BY <1>3, <1>6, StringSize DEF Readers, Number
    <3>4. TimesTold(x.frameperf, n + 1)
      BY <1>8, <2>4, <2>5, <3>2, <3>3, TimesAppend
    <3> QED
      BY <1>11, <3>4 DEF x
  <2>6. CASE ~(Wanted(n) /\ n \notin unheaded)
    <3>1. Wanted(n) => carries[n + 1] = Nobody
      BY <2>3, <2>6 DEF TimeOf
    <3>2. x.frameperf = r.frameperf
      BY <2>1, <2>2, <3>1
    <3>3. Due(n + 1) = Due(n)
      BY <2>4, <2>6, DueGrows
    <3>4. TimesTold(r.frameperf, n + 1)
      BY <1>8, <3>3 DEF TimesTold
    <3> QED
      BY <1>11, <3>2, <3>4 DEF x
  <2> QED
    BY <2>5, <2>6
<1> QED
  BY <1>2, <1>9, <1>10, <1>11, LaidNext

LEMMA NothingDue == Due(1) = {} /\ TimesTold(<<>>, 1)
<1>1. Due(1) = {}
  BY DEF Due
<1>2. DOMAIN <<>> = {}
  OBVIOUS
<1> QED
  BY <1>1, <1>2 DEF TimesTold

LEMMA ReaderTimes ==
  ASSUME Log \in Seq(String), Headed, CarriesOK, NEW f, NEW e, NEW i, Laid(f, Len(Log), e, i)
  PROVE  TimesTold(Reading(f)[Len(f)].frameperf, Len(Log))
<1> DEFINE T == {k \in Nat : k + 1 <= Len(f) => TimesTold(Reading(f)[k + 1].frameperf, e[k + 1])}
<1>1. /\ Len(f) \in Nat /\ Len(f) >= 1 /\ e[1] = 1 /\ i[1] = First(1) /\ 1 \in 1 .. Len(f)
      /\ e[Len(f)] = Len(Log)
  BY DEF Laid
<1>2. 0 \in T
  <2>1. Reading(f)[1] = ReadLine(Reader, f[1])
    BY <1>1, ReadingIs
  <2>2. f[1] = At(1, i[1]) /\ 1 \in 1 .. Len(Log) /\ (i[1] = 0 <=> Size(1) = 0)
    BY <1>1, LaidAt
  <2>3. Log[1].trees = <<>>
    BY <2>2 DEF Headed
  <2>4. i[1] = 0
    BY <2>2, <2>3, StringSize
  <2>5. Reading(f)[1] = ReadLine(Reader, At(1, 0))
    BY <2>1, <2>2, <2>4
  <2>6. ReadLine(Reader, At(1, 0)).frameperf = <<>>
    BY <2>2, ReaderIs, HeaderIs
  <2>7. TimesTold(Reading(f)[1].frameperf, e[1])
    BY <1>1, <2>5, <2>6, NothingDue
  <2> QED
    BY <2>7
<1>3. ASSUME NEW n \in Nat, n \in T PROVE n + 1 \in T
  <2>1. ASSUME (n + 1) + 1 <= Len(f)
        PROVE  TimesTold(Reading(f)[(n + 1) + 1].frameperf, e[(n + 1) + 1])
    <3>1. n + 1 \in 1 .. Len(f) - 1 /\ n + 1 <= Len(f)
      BY <1>1, <2>1
    <3>2. TimesTold(Reading(f)[n + 1].frameperf, e[n + 1])
      BY <1>3, <3>1
    <3> QED
      BY <3>1, <3>2, TimesStep
  <2> QED
    BY <2>1
<1>4. Len(f) - 1 \in T
  <2>1. Len(f) - 1 \in Nat
    BY <1>1
  <2> HIDE DEF T
  <2> QED
    BY <1>2, <1>3, <2>1, LineInduction
<1>5. (Len(f) - 1) + 1 = Len(f)
  BY <1>1
<1> QED
  BY <1>1, <1>4, <1>5

(* An empty file. *)
LEMMA NoLines ==
  ASSUME Log \in Seq(String), Len(Log) = 0
  PROVE  Len(Lines) = 0
<1>1. DOMAIN Log = {}
  BY LenProperties
<1>2. LineSeq = <<>>
  BY <1>1 DEF LineSeq
<1>3. Len(LineSeq) = 0 /\ Lines = FlattenSeq(LineSeq)
  BY <1>2, EmptySeq DEF Lines, LineSeq
<1> QED
  BY <1>3 DEF FlattenSeq

LEMMA TimesHold == OInv /\ PerfInv => TimesAreFound
<1> SUFFICES ASSUME OInv, PerfInv PROVE TimesAreFound
  OBVIOUS
<1>1. Log \in Seq(String) /\ Headed /\ CarriesOK /\ Len(Log) \in Nat
  BY LogIsSeq, LenProperties DEF PerfInv
<1> DEFINE t == Reading(Lines)[Len(Lines)].frameperf
<1>2. CASE Len(Log) = 0
  <2>1. Reading(Lines)[0] = Reader /\ Len(Lines) = 0
    BY <1>1, <1>2, NoLines, ReadingIs
  <2>2. t = <<>> /\ Flush(Reading(Lines)[Len(Lines)]).frameperf = <<>>
    BY <2>1, ReaderIs, FlushIs
  <2>3. DOMAIN <<>> = {}
    OBVIOUS
  <2>4. \A j \in 1 .. Len(Log) - 1 : FALSE
    BY <1>2
  <2> HIDE DEF t
  <2> QED
    BY <2>2, <2>3, <2>4 DEF TimesAreFound, Read
<1>3. CASE Len(Log) # 0
  <2>1. PICK e, i : Laid(Lines, Len(Log), e, i)
    BY <1>1, <1>3, LinesLaid
  <2>2. Len(Lines) \in 1 .. Len(Lines)
    BY <2>1 DEF Laid
  <2>3. Reading(Lines)[Len(Lines)] \in Readers
    BY <1>1, <2>1, <2>2, ReaderHere DEF Here
  <2>4. Read(Lines, Len(Lines)).frameperf = t
    BY <2>3, FlushIs DEF Read
  <2>5. TimesTold(t, Len(Log))
    BY <1>1, <2>1, ReaderTimes
  <2> HIDE DEF t
  <2>6. \A k \in DOMAIN t : t[k].of # Stray
    <3>1. \A k \in DOMAIN t : t[k].of \in Due(Len(Log))
      BY <2>5 DEF TimesTold
    <3>2. Stray \notin Due(Len(Log))
      BY <1>1 DEF Due, Stray
    <3> QED
      BY <3>1, <3>2
  <2> QED
    BY <2>4, <2>5, <2>6 DEF TimesAreFound, TimesTold, Due
<1> QED
  BY <1>2, <1>3

(* For any frames and trees: the time of a frame's trees, which stands in  *)
(* another frame's header, is recorded once under the number of the frame  *)
(* it was measured in, and none is missing but that of the last frame and  *)
(* of the frames no header came after (build_luaperf.py:190-193,           *)
(* stack.c:524-563).                                                       *)
THEOREM PerfTimesAreFound == PerfSpec => []TimesAreFound
BY PerfInvariant, TimesHold, PTL

-----------------------------------------------------------------------------
LEMMA AtIs ==
  /\ \A j : At(j, 0).header = TRUE
  /\ \A j, l : l # 0 => At(j, l).header = FALSE /\ At(j, l).at = j /\ At(j, l).tree = Log[j].trees[l]
BY DEF At

LEMMA ShowsIs ==
  ASSUME Log \in Seq(String), NEW f, NEW e, NEW i, Laid(f, Len(Log), e, i),
         NEW k \in Nat, k <= Len(f), NEW j
  PROVE  Shows(f, k, j) <=> \E l \in 1 .. k : i[l] # 0 /\ e[l] = j /\ Log[j].trees[i[l]] \in Interesting
<1>1. Len(f) \in Nat
  BY DEF Laid
<1>2. ASSUME NEW l \in 1 .. k
      PROVE  ~f[l].header /\ f[l].at = j /\ f[l].tree \in Interesting
               <=> i[l] # 0 /\ e[l] = j /\ Log[j].trees[i[l]] \in Interesting
  <2>1. f[l] = At(e[l], i[l])
    <3>1. l \in 1 .. Len(f)
      BY <1>1
    <3> QED
      BY <3>1, LaidAt
  <2> QED
    BY <2>1, AtIs
<1> QED
  BY <1>2 DEF Shows

(* What the n-th of k lines adds. *)
LEMMA KeepsLine ==
  ASSUME Log \in Seq(String), NEW f, NEW e, NEW i, Laid(f, Len(Log), e, i),
         NEW k \in Nat, k <= Len(f), NEW n \in 1 .. k
  PROVE  Kept(f, k)[n] = IF i[n] # 0 /\ Shows(f, k, e[n])
                         THEN Append(Kept(f, k)[n - 1], [frame |-> Log[e[n]].id, tree |-> Log[e[n]].trees[i[n]]])
                         ELSE Kept(f, k)[n - 1]
<1>1. Len(f) \in Nat
  BY DEF Laid
<1>2. n \in 1 .. Len(f)
  BY <1>1
<1>3. f[n] = At(e[n], i[n])
  BY <1>2, LaidAt
<1>4. Kept(f, k)[n] = KeepLine(f, k, n, Kept(f, k)[n - 1])
  BY KeptIs
<1>5. CASE i[n] = 0
  <2>1. f[n].header
    BY <1>3, <1>5, AtIs
  <2> QED
    BY <1>4, <1>5, <2>1 DEF KeepLine
<1>6. CASE i[n] # 0
  <2>1. ~f[n].header /\ f[n].at = e[n] /\ f[n].tree = Log[e[n]].trees[i[n]]
    BY <1>3, <1>6, AtIs
  <2> QED
    BY <1>4, <1>6, <2>1 DEF KeepLine
<1> QED
  BY <1>5, <1>6

LEMMA KeptTyped ==
  ASSUME Log \in Seq(String), NEW f, NEW e, NEW i, Laid(f, Len(Log), e, i),
         NEW k \in Nat, k <= Len(f)
  PROVE  \A n \in 0 .. k : Kept(f, k)[n] \in Seq([frame : Number, tree : Tree])
<1> DEFINE S == [frame : Number, tree : Tree]
           T == {n \in Nat : n <= k => Kept(f, k)[n] \in Seq(S)}
<1>1. Len(f) \in Nat
  BY DEF Laid
<1> HIDE DEF S
<1>2. 0 \in T
  BY KeptIs, EmptySeq
<1>3. ASSUME NEW n \in Nat, n \in T PROVE n + 1 \in T
  <2>1. ASSUME n + 1 <= k PROVE Kept(f, k)[n + 1] \in Seq(S)
    <3> DEFINE m == n + 1
               v == Kept(f, k)[n]
    <3>1. m \in 1 .. k /\ m - 1 = n /\ m \in 1 .. Len(f) /\ v \in Seq(S)
      BY <1>1, <1>3, <2>1
    <3> HIDE DEF m, v
    <3>2. Kept(f, k)[m] = IF i[m] # 0 /\ Shows(f, k, e[m])
                          THEN Append(v, [frame |-> Log[e[m]].id, tree |-> Log[e[m]].trees[i[m]]])
                          ELSE v
      BY <3>1, KeepsLine DEF v
    <3>3. ASSUME i[m] # 0 PROVE [frame |-> Log[e[m]].id, tree |-> Log[e[m]].trees[i[m]]] \in S
      <4>1. e[m] \in 1 .. Len(Log) /\ i[m] \in 1 .. Size(e[m])
        BY <3>1, <3>3, LaidAt
      <4>2. Log[e[m]].id \in Number /\ Log[e[m]].trees[i[m]] \in Tree
        BY <4>1, StringSize, ElementOfSeq DEF Size, Number
      <4> QED
        BY <4>2 DEF S
    <3>4. Kept(f, k)[m] \in Seq(S)
      BY <3>1, <3>2, <3>3, AppendProperties
    <3> QED
      BY <3>4 DEF m
  <2> QED
    BY <2>1
<1>4. \A n \in Nat : n \in T
  <2> HIDE DEF T
  <2> QED
    BY <1>2, <1>3, LineInduction
<1>5. \A n \in 0 .. k : Kept(f, k)[n] \in Seq(S)
  BY <1>4
<1> QED
  BY <1>5 DEF S

(* Lines that show the same of the frames before them keep the same of them. *)
LEMMA KeptSame ==
  ASSUME Log \in Seq(String), NEW f, NEW e, NEW i, Laid(f, Len(Log), e, i),
         NEW k \in Nat, NEW l \in Nat, k <= Len(f), l <= Len(f), NEW b \in Nat, b <= k, b <= l,
         \A m \in 1 .. b : i[m] # 0 => (Shows(f, k, e[m]) <=> Shows(f, l, e[m]))
  PROVE  Kept(f, k)[b] = Kept(f, l)[b]
<1> DEFINE T == {n \in Nat : n <= b => Kept(f, k)[n] = Kept(f, l)[n]}
<1>1. 0 \in T
  BY KeptIs
<1>2. ASSUME NEW n \in Nat, n \in T PROVE n + 1 \in T
  <2>1. ASSUME n + 1 <= b PROVE Kept(f, k)[n + 1] = Kept(f, l)[n + 1]
    <3> DEFINE m == n + 1
    <3>1. m \in 1 .. k /\ m \in 1 .. l /\ m \in 1 .. b /\ m - 1 = n /\ Kept(f, k)[n] = Kept(f, l)[n]
      BY <1>2, <2>1
    <3> HIDE DEF m
    <3>2. Kept(f, k)[m] = IF i[m] # 0 /\ Shows(f, k, e[m])
                          THEN Append(Kept(f, k)[n], [frame |-> Log[e[m]].id, tree |-> Log[e[m]].trees[i[m]]])
                          ELSE Kept(f, k)[n]
      BY <3>1, KeepsLine
    <3>3. Kept(f, l)[m] = IF i[m] # 0 /\ Shows(f, l, e[m])
                          THEN Append(Kept(f, l)[n], [frame |-> Log[e[m]].id, tree |-> Log[e[m]].trees[i[m]]])
                          ELSE Kept(f, l)[n]
      BY <3>1, KeepsLine
    <3>4. i[m] # 0 => (Shows(f, k, e[m]) <=> Shows(f, l, e[m]))
      BY <3>1
    <3>5. Kept(f, k)[m] = Kept(f, l)[m]
      BY <3>1, <3>2, <3>3, <3>4
    <3> QED
      BY <3>5 DEF m
  <2> QED
    BY <2>1
<1>3. b \in T
  <2> HIDE DEF T
  <2> QED
    BY <1>1, <1>2, LineInduction
<1> QED
  BY <1>3

(* The last string of the first k lines is of interest if the reader is interested. *)
LEMMA ShowsLast ==
  ASSUME Log \in Seq(String), Headed, CarriesOK, NEW f, NEW e, NEW i, Laid(f, Len(Log), e, i),
         NEW k \in 1 .. Len(f)
  PROVE  Shows(f, k, e[k]) <=> Reading(f)[k].interested
<1>1. Len(f) \in Nat /\ k \in Nat /\ k <= Len(f) /\ i[k] \in Nat /\ e[k] \in Nat
  <2>1. Len(f) \in Nat
    BY DEF Laid
  <2> QED
    BY <2>1, LaidAt
<1>2. /\ i[k] <= k
      /\ \A m \in 1 .. k : /\ m > k - i[k] => e[m] = e[k] /\ i[m] = m - (k - i[k])
                           /\ m <= k - i[k] /\ i[m] # 0 => e[m] < e[k]
  <2>1. Len(Log) \in Nat
    BY LenProperties
  <2>2. Around(e, i, k)
    BY <2>1, LaidAround
  <2> QED
    BY <2>2 DEF Around
<1>3. Reading(f)[k].interested <=> \E l \in 1 .. i[k] : Log[e[k]].trees[l] \in Interesting
  BY ReaderHere DEF Here
<1>4. Shows(f, k, e[k]) <=> \E m \in 1 .. k : i[m] # 0 /\ e[m] = e[k] /\ Log[e[k]].trees[i[m]] \in Interesting
  <2> DEFINE j == e[k]
  <2> HIDE DEF j
  <2>1. Shows(f, k, j) <=> \E m \in 1 .. k : i[m] # 0 /\ e[m] = j /\ Log[j].trees[i[m]] \in Interesting
    BY <1>1, ShowsIs
  <2> QED
    BY <2>1 DEF j
<1>5. ASSUME NEW l \in 1 .. i[k]
      PROVE  LET m == (k - i[k]) + l IN m \in 1 .. k /\ i[m] = l /\ i[m] # 0 /\ e[m] = e[k]
  <2> DEFINE m == (k - i[k]) + l
  <2>1. m \in 1 .. k /\ m > k - i[k] /\ m - (k - i[k]) = l
    BY <1>1, <1>2
  <2> HIDE DEF m
  <2>2. m \in 1 .. k /\ i[m] = l /\ i[m] # 0 /\ e[m] = e[k]
    BY <1>1, <1>2, <2>1
  <2> QED
    BY <2>2 DEF m
<1>6. ASSUME NEW m \in 1 .. k, i[m] # 0, e[m] = e[k] PROVE i[m] \in 1 .. i[k]
  <2>1. ~(m <= k - i[k])
    BY <1>1, <1>2, <1>6
  <2> QED
    BY <1>1, <1>2, <2>1
<1> QED
  BY <1>3, <1>4, <1>5, <1>6

-----------------------------------------------------------------------------
(* The first j elements of a sequence. *)
Part(g, j) == [l \in 1 .. j |-> g[l]]

LEMMA PartIs ==
  ASSUME NEW S, NEW g \in Seq(S), NEW j \in Nat, j <= Len(g)
  PROVE  Part(g, j) \in Seq(S) /\ Len(Part(g, j)) = j /\ DOMAIN Part(g, j) = 1 .. j
<1>1. Len(g) \in Nat /\ \A l \in 1 .. Len(g) : g[l] \in S
  BY LenProperties, ElementOfSeq
<1>2. \A l \in 1 .. j : l \in 1 .. Len(g)
  BY <1>1
<1>3. Part(g, j) \in [1 .. j -> S]
  BY <1>1, <1>2 DEF Part
<1> DEFINE p == Part(g, j)
<1> HIDE DEF p
<1>4. p \in [1 .. j -> S]
  BY <1>3 DEF p
<1>5. p \in Seq(S)
  BY <1>4, SeqDef
<1>6. DOMAIN p = 1 .. j /\ DOMAIN p = 1 .. Len(p) /\ Len(p) \in Nat
  BY <1>4, <1>5, LenProperties
<1>7. Len(p) = j
  BY <1>6
<1> QED
  BY <1>5, <1>6, <1>7 DEF p

LEMMA PartGrows ==
  ASSUME NEW S, NEW g \in Seq(S), NEW j \in Nat, j + 1 <= Len(g)
  PROVE  Append(Part(g, j), g[j + 1]) = Part(g, j + 1)
<1>1. Len(g) \in Nat /\ j + 1 \in 1 .. Len(g) /\ g[j + 1] \in S
  BY LenProperties, ElementOfSeq
<1> DEFINE p == Part(g, j)
           q == Part(g, j + 1)
           u == Append(p, g[j + 1])
<1>2. /\ p \in Seq(S) /\ Len(p) = j /\ q \in Seq(S) /\ Len(q) = j + 1
      /\ \A l \in 1 .. j : p[l] = g[l]
      /\ \A l \in 1 .. j + 1 : q[l] = g[l]
  BY <1>1, PartIs DEF Part
<1> HIDE DEF p, q
<1>3. u \in Seq(S) /\ Len(u) = j + 1 /\ u[j + 1] = g[j + 1] /\ \A l \in 1 .. j : u[l] = p[l]
  BY <1>1, <1>2, AppendProperties
<1> HIDE DEF u
<1>4. \A l \in 1 .. j + 1 : l \in 1 .. j \/ l = j + 1
  OBVIOUS
<1>5. \A l \in 1 .. Len(u) : u[l] = q[l]
  BY <1>2, <1>3, <1>4
<1>6. u = q
  BY <1>2, <1>3, <1>5, SeqEqual
<1> QED
  BY <1>6 DEF u, p, q

LEMMA PartAll ==
  ASSUME NEW S, NEW g \in Seq(S)
  PROVE  Part(g, 0) = <<>> /\ Part(g, Len(g)) = g
<1>1. Len(g) \in Nat /\ DOMAIN g = 1 .. Len(g) /\ g \in [1 .. Len(g) -> S]
  BY LenProperties
<1>2. Part(g, Len(g)) = g
  BY <1>1 DEF Part
<1>3. Part(g, 0) \in Seq(S) /\ Len(Part(g, 0)) = 0
  BY <1>1, PartIs
<1> QED
  BY <1>2, <1>3, EmptySeq

(* If the reader has all of the frames before, a flush gives it the rest. *)
LEMMA FlushKept ==
  ASSUME Log \in Seq(String), Headed, CarriesOK, NEW f, NEW e, NEW i, Laid(f, Len(Log), e, i),
         NEW k \in 1 .. Len(f), Reading(f)[k].perf = Kept(f, k)[k - i[k]]
  PROVE  Flush(Reading(f)[k]).perf = Kept(f, k)[k]
<1> DEFINE r == Reading(f)[k]
           S == [frame : Number, tree : Tree]
           b == k - i[k]
           v == Kept(f, k)[b]
           g == Taken(r)
           n == e[k]
           z == i[k]
<1>1. Len(f) \in Nat /\ k \in Nat /\ k <= Len(f) /\ z \in Nat /\ Len(Log) \in Nat
  <2>1. Len(f) \in Nat
    BY DEF Laid
  <2> QED
    BY <2>1, LaidAt
<1>2. Around(e, i, k)
  BY <1>1, LaidAround
<1>3. b \in 0 .. k /\ b + z = k
  BY <1>1, <1>2 DEF Around
<1>4. v \in Seq(S)
  BY <1>1, <1>3, KeptTyped
<1>5. Here(r, n, z)
  BY ReaderHere
<1>6. r \in Readers /\ r.frame = Log[n].id /\ Len(r.cache) = z /\ \A l \in 1 .. z : r.cache[l] = Log[n].trees[l]
  BY <1>5 DEF Here
<1>7. /\ g \in Seq(S) /\ Len(g) = z
      /\ \A l \in 1 .. z : g[l] = [frame |-> Log[n].id, tree |-> Log[n].trees[l]]
  BY <1>6, TakenIs
<1>8. Shows(f, k, n) <=> r.interested
  BY ShowsLast
<1>9. \A l \in 1 .. z : LET m == b + l IN m \in 1 .. k /\ i[m] = l /\ i[m] # 0 /\ e[m] = n
  <2> TAKE l \in 1 .. z
  <2> DEFINE m == b + l
  <2>1. m \in 1 .. k /\ m > k - i[k] /\ m - (k - i[k]) = l /\ l # 0
    BY <1>1, <1>3, SMTT(30)
  <2> HIDE DEF m
  <2>2. m \in 1 .. k /\ i[m] = l /\ i[m] # 0 /\ e[m] = n
    BY <1>2, <2>1 DEF Around
  <2> QED
    BY <2>2 DEF m
<1> DEFINE T == {j \in Nat : j <= z => Kept(f, k)[b + j] = IF r.interested THEN v \o Part(g, j) ELSE v}
<1> HIDE DEF S, g
<1>10. 0 \in T
  <2>1. b + 0 = b
    BY <1>3
  <2>2. Part(g, 0) = <<>> /\ v \o <<>> = v
    BY <1>4, <1>7, PartAll, ConcatEmptySeq
  <2> QED
    BY <2>1, <2>2
<1> HIDE DEF r, v, n
<1>11. ASSUME NEW j \in Nat, j \in T PROVE j + 1 \in T
  <2> SUFFICES ASSUME j + 1 <= z
               PROVE  Kept(f, k)[b + (j + 1)] = IF r.interested THEN v \o Part(g, j + 1) ELSE v
    OBVIOUS
  <2> DEFINE m == b + (j + 1)
             x == [frame |-> Log[n].id, tree |-> Log[n].trees[j + 1]]
  <2>1. j + 1 \in 1 .. z /\ j <= z
    BY <1>1
  <2>2. m \in 1 .. k /\ i[m] = j + 1 /\ i[m] # 0 /\ e[m] = n
    BY <1>9, <2>1
  <2>3. m - 1 = b + j
    BY <1>1, <1>3, SMTT(30)
  <2>4. Kept(f, k)[b + j] = IF r.interested THEN v \o Part(g, j) ELSE v
    BY <1>11, <2>1
  <2> HIDE DEF m
  <2>5. Kept(f, k)[m] = IF r.interested THEN Append(Kept(f, k)[b + j], x) ELSE Kept(f, k)[b + j]
    <3>1. Kept(f, k)[m] = IF i[m] # 0 /\ Shows(f, k, e[m])
                          THEN Append(Kept(f, k)[m - 1], [frame |-> Log[e[m]].id, tree |-> Log[e[m]].trees[i[m]]])
                          ELSE Kept(f, k)[m - 1]
      BY <1>1, <2>2, KeepsLine
    <3> QED
      BY <1>8, <2>2, <2>3, <3>1
  <2>6. x = g[j + 1] /\ x \in S
    BY <1>7, <2>1, ElementOfSeq
  <2> HIDE DEF x
  <2>7. Append(v \o Part(g, j), x) = v \o Part(g, j + 1)
    <3>1. Part(g, j) \in Seq(S) /\ Append(Part(g, j), x) = Part(g, j + 1)
      BY <1>7, <2>1, <2>6, PartIs, PartGrows
    <3> DEFINE p == Part(g, j)
    <3>2. v \o Append(p, x) = Append(v \o p, x)
      <4>1. p \in Seq(S) /\ v \in Seq(S) /\ x \in S
        BY <1>4, <2>6, <3>1
      <4> HIDE DEF p
      <4> QED
        BY <4>1, ConcatAppend
    <3> QED
      BY <3>1, <3>2
  <2>8. Kept(f, k)[m] = IF r.interested THEN v \o Part(g, j + 1) ELSE v
    BY <2>4, <2>5, <2>7
  <2> QED
    BY <2>8 DEF m
<1>12. z \in T
  <2> HIDE DEF T
  <2> QED
    BY <1>1, <1>10, <1>11, LineInduction
<1>13. Kept(f, k)[k] = IF r.interested THEN v \o g ELSE v
  <2>1. Part(g, z) = g
    BY <1>7, PartAll
  <2>2. Kept(f, k)[b + z] = IF r.interested THEN v \o Part(g, z) ELSE v
    BY <1>1, <1>12
  <2> QED
    BY <1>3, <2>1, <2>2
<1>14. Flush(r).perf = IF r.interested THEN r.perf \o g ELSE r.perf
  BY <1>6, FlushIs DEF g
<1>15. r.perf = v
  BY DEF r, v
<1> QED
  BY <1>13, <1>14, <1>15 DEF r
-----------------------------------------------------------------------------
(* What the reader has of the frames before the present one, line by line. *)
LEMMA TreesStep ==
  ASSUME Log \in Seq(String), Headed, CarriesOK, NEW f, NEW e, NEW i, Laid(f, Len(Log), e, i),
         NEW k \in 1 .. Len(f) - 1, Reading(f)[k].perf = Kept(f, k)[k - i[k]]
  PROVE  Reading(f)[k + 1].perf = Kept(f, k + 1)[(k + 1) - i[k + 1]]
<1> DEFINE r == Reading(f)[k]
           l == k + 1
           b == l - i[l]
<1>1. Len(f) \in Nat
  BY DEF Laid
<1>2. /\ k \in 1 .. Len(f) /\ l \in 1 .. Len(f) /\ l - 1 = k /\ k \in Nat /\ l \in Nat
      /\ k <= Len(f) /\ l <= Len(f) /\ l = k + 1
  BY <1>1
<1> HIDE DEF l
<1>3. /\ e[k] \in 1 .. Len(Log) /\ i[k] \in Nat /\ Len(Log) \in Nat
      /\ e[l] \in 1 .. Len(Log) /\ i[l] \in Nat /\ i[l] <= Size(e[l])
      /\ f[l] = At(e[l], i[l])
  BY <1>2, LaidAt
<1>4. Reading(f)[l] = ReadLine(r, f[l])
  BY <1>1, <1>2, ReadingIs
<1>5. r \in Readers
  BY <1>2, ReaderHere DEF Here
<1>6. \/ i[l] = 0
      \/ i[l] = i[k] + 1
  BY <1>2, LaidNext
<1>7. \A j : Shows(f, k, j) <=> \E m \in 1 .. k : i[m] # 0 /\ e[m] = j /\ Log[j].trees[i[m]] \in Interesting
  BY <1>2, ShowsIs
<1>8. \A j : Shows(f, l, j) <=> \E m \in 1 .. l : i[m] # 0 /\ e[m] = j /\ Log[j].trees[i[m]] \in Interesting
  BY <1>2, ShowsIs
<1>9. \A m : m \in 1 .. l <=> m \in 1 .. k \/ m = l
  BY <1>2
<1>10. CASE i[l] = 0
  <2>1. Reading(f)[l].perf = Flush(r).perf
    <3>1. Reading(f)[l] = ReadLine(r, At(e[l], 0))
      BY <1>3, <1>4, <1>10
    <3>2. ReadLine(r, At(e[l], 0)).perf = Flush(r).perf
      BY <1>3, <1>5, HeaderIs
    <3> QED
      BY <3>1, <3>2
  <2>2. Flush(r).perf = Kept(f, k)[k]
    BY <1>2, FlushKept
  <2>3. \A j : Shows(f, k, j) <=> Shows(f, l, j)
    BY <1>7, <1>8, <1>9, <1>10
  <2>4. Kept(f, k)[k] = Kept(f, l)[k]
    BY <1>2, <2>3, KeptSame
  <2>5. Kept(f, l)[l] = Kept(f, l)[k]
    <3>1. l \in 1 .. l
      BY <1>2
    <3>2. Kept(f, l)[l] = IF i[l] # 0 /\ Shows(f, l, e[l])
                          THEN Append(Kept(f, l)[l - 1], [frame |-> Log[e[l]].id, tree |-> Log[e[l]].trees[i[l]]])
                          ELSE Kept(f, l)[l - 1]
      BY <1>2, <3>1, KeepsLine
    <3> QED
      BY <1>2, <1>10, <3>2
  <2>6. l - i[l] = l
    BY <1>2, <1>10
  <2> QED
    BY <2>1, <2>2, <2>4, <2>5, <2>6 DEF l
<1>11. CASE i[l] = i[k] + 1
  <2>1. i[l] \in 1 .. Size(e[l])
    BY <1>3, <1>11, StringSize
  <2>2. Reading(f)[l].perf = r.perf
    BY <1>3, <1>4, <1>5, <2>1, TreeIs
  <2>3. Around(e, i, l)
    BY <1>2, <1>3, LaidAround
  <2>4. b = k - i[k] /\ b \in Nat /\ b <= k /\ b <= l
    BY <1>2, <1>3, <1>11, <2>3 DEF Around
  <2>5. ASSUME NEW m \in 1 .. b, i[m] # 0 PROVE Shows(f, k, e[m]) <=> Shows(f, l, e[m])
    <3>1. m \in 1 .. l /\ m \in 1 .. Len(f)
      BY <1>2, <2>4
    <3>2. e[m] < e[l] /\ e[m] \in Nat
      BY <1>3, <2>3, <2>5, <3>1, LaidAt, SMTT(30) DEF Around
    <3>3. e[m] # e[l]
      BY <1>3, <3>2
    <3> QED
      BY <1>7, <1>8, <1>9, <3>3, SMTT(30)
  <2> HIDE DEF b
  <2>6. Kept(f, k)[b] = Kept(f, l)[b]
    BY <1>2, <2>4, <2>5, KeptSame
  <2>7. r.perf = Kept(f, k)[b]
    BY <2>4
  <2>8. Reading(f)[l].perf = Kept(f, l)[b]
    BY <2>2, <2>6, <2>7
  <2> QED
    BY <2>8 DEF b, l
<1> QED
  BY <1>6, <1>10, <1>11

LEMMA TreesTold ==
  ASSUME Log \in Seq(String), Headed, CarriesOK, NEW f, NEW e, NEW i, Laid(f, Len(Log), e, i)
  PROVE  \A k \in 1 .. Len(f) : Reading(f)[k].perf = Kept(f, k)[k - i[k]]
<1> DEFINE T == {k \in Nat : k + 1 <= Len(f) => Reading(f)[k + 1].perf = Kept(f, k + 1)[(k + 1) - i[k + 1]]}
<1>1. Len(f) \in Nat /\ Len(f) >= 1 /\ e[1] = 1 /\ i[1] = First(1) /\ 1 \in 1 .. Len(f)
  BY DEF Laid
<1>2. 0 \in T
  <2>1. Reading(f)[1] = ReadLine(Reader, f[1])
    BY <1>1, ReadingIs
  <2>2. f[1] = At(1, i[1]) /\ 1 \in 1 .. Len(Log) /\ (i[1] = 0 <=> Size(1) = 0)
    BY <1>1, LaidAt
  <2>3. Log[1].trees = <<>>
    BY <2>2 DEF Headed
  <2>4. i[1] = 0
    BY <2>2, <2>3, StringSize
  <2>5. Reading(f)[1] = ReadLine(Reader, At(1, 0))
    BY <2>1, <2>2, <2>4
  <2>6. ReadLine(Reader, At(1, 0)).perf = Flush(Reader).perf
    BY <2>2, ReaderIs, HeaderIs
  <2>7. Flush(Reader).perf = <<>>
    BY ReaderIs, FlushIs
  <2>8. Kept(f, 1)[1] = Kept(f, 1)[0] /\ Kept(f, 1)[0] = <<>>
    <3>1. 1 \in 1 .. 1 /\ 1 - 1 = 0 /\ 1 \in Nat /\ 1 <= Len(f)
      BY <1>1
    <3>2. Kept(f, 1)[1] = IF i[1] # 0 /\ Shows(f, 1, e[1])
                          THEN Append(Kept(f, 1)[1 - 1], [frame |-> Log[e[1]].id, tree |-> Log[e[1]].trees[i[1]]])
                          ELSE Kept(f, 1)[1 - 1]
      BY <3>1, KeepsLine
    <3>3. Kept(f, 1)[0] = <<>>
      BY KeptIs
    <3> QED
      BY <2>4, <3>1, <3>2, <3>3
  <2>9. Reading(f)[1].perf = Kept(f, 1)[1 - i[1]]
    BY <2>4, <2>5, <2>6, <2>7, <2>8
  <2> QED
    BY <2>9
<1>3. ASSUME NEW n \in Nat, n \in T PROVE n + 1 \in T
  <2> SUFFICES ASSUME (n + 1) + 1 <= Len(f)
               PROVE  Reading(f)[(n + 1) + 1].perf = Kept(f, (n + 1) + 1)[((n + 1) + 1) - i[(n + 1) + 1]]
    OBVIOUS
  <2>1. n + 1 \in 1 .. Len(f) - 1 /\ n + 1 <= Len(f)
    BY <1>1
  <2>2. Reading(f)[n + 1].perf = Kept(f, n + 1)[(n + 1) - i[n + 1]]
    BY <1>3, <2>1
  <2> QED
    BY <2>1, <2>2, TreesStep
<1>4. ASSUME NEW k \in 1 .. Len(f) PROVE Reading(f)[k].perf = Kept(f, k)[k - i[k]]
  <2>1. k - 1 \in Nat /\ (k - 1) + 1 = k /\ k <= Len(f)
    BY <1>1
  <2>2. k - 1 \in T
    <3> HIDE DEF T
    <3> QED
      BY <1>2, <1>3, <2>1, LineInduction
  <2> QED
    BY <2>1, <2>2
<1> QED
  BY <1>4

LEMMA TreesHold == OInv /\ PerfInv => TreesAreFound
<1> SUFFICES ASSUME OInv, PerfInv PROVE TreesAreFound
  OBVIOUS
<1>1. Log \in Seq(String) /\ Headed /\ CarriesOK /\ Len(Log) \in Nat
  BY LogIsSeq, LenProperties DEF PerfInv
<1> DEFINE f == Lines
<1>2. Len(f) \in Nat
  BY <1>1, NoLines, LinesLaid DEF Laid
<1>3. ASSUME NEW k \in 0 .. Len(f) PROVE Read(f, k).perf = Kept(f, k)[k]
  <2>1. CASE k = 0
    <3>1. Reading(f)[0] = Reader /\ Kept(f, 0)[0] = <<>>
      BY <1>2, ReadingIs, KeptIs
    <3>2. Flush(Reader).perf = <<>>
      BY ReaderIs, FlushIs
    <3> QED
      BY <2>1, <3>1, <3>2 DEF Read
  <2>2. CASE k # 0
    <3>1. k \in 1 .. Len(f) /\ Len(Log) # 0
      BY <1>1, <1>2, <2>2, NoLines
    <3>2. PICK e, i : Laid(f, Len(Log), e, i)
      BY <1>1, <3>1, LinesLaid
    <3>3. Reading(f)[k].perf = Kept(f, k)[k - i[k]]
      BY <1>1, <3>1, <3>2, TreesTold
    <3>4. Flush(Reading(f)[k]).perf = Kept(f, k)[k]
      BY <1>1, <3>1, <3>2, <3>3, FlushKept
    <3> QED
      BY <3>4 DEF Read
  <2> QED
    BY <2>1, <2>2
<1> QED
  BY <1>3 DEF TreesAreFound

(* For a file of any number of lines and any set of interesting trees: the *)
(* reader takes, from each frame it has seen such a tree of, all the trees *)
(* it has lines of, under the frame's number, in order, and nothing else   *)
(* (build_luaperf.py:178-222, output.c:144-190).                           *)
THEOREM PerfTreesAreFound == PerfSpec => []TreesAreFound
BY PerfInvariant, TreesHold, PTL
=============================================================================
