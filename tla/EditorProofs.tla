---------------------------- MODULE EditorProofs -----------------------------
(***************************************************************************)
(* Theorems about the editor's side: PacketStream and EditorWindow for any *)
(* writers and any number of packets, NetLink for any number of            *)
(* connections.                                                            *)
(*                                                                         *)
(* The editor executes the packets whole and in order, and each message is *)
(* in one place on its way through the window.  Until something is read in *)
(* part, the parts in the stream are those behind the ones read in the     *)
(* sequence of all parts of all packets (StreamOK).  In the window, a      *)
(* result taken is not stored over before it is shown, and what the worker *)
(* joined is what it clears (HandOver).                                    *)
(*                                                                         *)
(* No TcpClient is left behind open unless two threads meet in Disconnect, *)
(* and while no thread acts out of turn the timers are those of the        *)
(* current connection.  NoSocketLeft becomes inductive with what is known  *)
(* of a thread alone in Disconnect (Alone): the client is still there, and *)
(* closed before it is forgotten.  TimersFitConnection with the types is   *)
(* inductive as it stands.                                                 *)
(***************************************************************************)
EXTENDS EditorWindow, NetLink, SequenceTheorems, TLAPS


Part == {"length", "body", "rest"} \X Packet

StreamTypes ==
  /\ begun \in [Writer -> Nat] /\ sending \in [Writer -> Seq(Packet)] /\ lock \in Seq(Writer)
  /\ sent \in Seq(Packet) /\ got \in Seq(Packet) /\ reading \in Seq(Packet)
  /\ stream \in Seq(Part) /\ arrived \in Nat /\ torn \in BOOLEAN

(* The lock is held by the thread between the length and the body of the   *)
(* packet that began last.                                                 *)
LockOK ==
  /\ Len(lock) <= 1
  /\ \A w \in Writer : sending[w] # <<>> <=> lock = <<w>>
  /\ \A w \in Writer : sending[w] # <<>> => sent # <<>> /\ sending[w][1] = sent[Len(sent)]

PartsRead == 3 * Len(got) + Len(reading)
PartsWritten == 3 * Len(sent) - (IF lock = <<>> THEN 0 ELSE 2)

(* Where it has a place j, s has x there. *)
PartAt(s, j, x) == j \in 1 .. Len(s) => s[j] = x

StreamOK ==
  /\ PartsRead + Len(stream) = PartsWritten
  /\ \A k \in 1 .. Len(got) : got[k] = sent[k]
  /\ reading # <<>> => reading[1] = sent[Len(got) + 1]
  /\ \A k \in 1 .. Len(sent) :
        /\ PartAt(stream, 3 * k - 2 - PartsRead, <<"length", sent[k]>>)
        /\ PartAt(stream, 3 * k - 1 - PartsRead, <<"body", sent[k]>>)
        /\ PartAt(stream, 3 * k - PartsRead, <<"rest", sent[k]>>)

StreamInv ==
  /\ StreamTypes /\ LockOK
  /\ arrived <= Len(stream) /\ Len(reading) <= 1
  /\ IF torn THEN reading = <<>> ELSE StreamOK
-----------------------------------------------------------------------------
LEMMA InitStreamInv == Init => StreamInv
<1> SUFFICES ASSUME Init PROVE StreamInv
  OBVIOUS
<1>1. StreamTypes
  BY EmptySeq DEF Init, StreamInit, StreamTypes
<1>2. LockOK
  BY DEF Init, StreamInit, LockOK
<1>3. StreamOK
  BY DEF Init, StreamInit, StreamOK, PartsRead, PartsWritten
<1> QED
  BY <1>1, <1>2, <1>3 DEF Init, StreamInit, StreamInv

LEMMA PartStays ==
  ASSUME NEW s \in Seq(Part), NEW t \in Seq(Part), NEW j \in Int, NEW x,
         j <= Len(s), Len(s) <= Len(t), \A i \in 1 .. Len(s) : t[i] = s[i], PartAt(s, j, x)
  PROVE  PartAt(t, j, x)
BY DEF PartAt

(* The length goes behind what was written. *)
LEMMA SendLengthKeeps ==
  ASSUME StreamInv, NEW w \in Writer, SendLength(w)
  PROVE  StreamInv'
<1> DEFINE p == [by |-> w, n |-> begun[w] + 1]
<1>1. /\ begun' = [begun EXCEPT ![w] = @ + 1] /\ begun'[w] = begun[w] + 1
      /\ begun' \in [Writer -> Nat] /\ p \in Packet
  BY SMTT(30) DEF SendLength, StreamInv, StreamTypes, Packet
<1>2. /\ lock = <<>> /\ lock' = <<w>> /\ sent' = Append(sent, p) /\ stream' = Append(stream, <<"length", p>>)
      /\ sending' = [sending EXCEPT ![w] = <<p>>] /\ UNCHANGED <<arrived, reading, got, torn>>
  BY <1>1 DEF SendLength
<1> HIDE DEF p
<1>3. StreamTypes'
  BY SMTT(30), <1>1, <1>2 DEF StreamInv, StreamTypes, Part
<1>4. LockOK'
  <2>1. \A u \in Writer : sending[u] = <<>>
    BY <1>2 DEF StreamInv, LockOK
  <2> QED
    BY SMTT(30), <1>1, <1>2, <2>1 DEF StreamInv, StreamTypes, LockOK
<1>5. ASSUME ~torn PROVE StreamOK'
  <2>1. Len(sent') = Len(sent) + 1 /\ Len(stream') = Len(stream) + 1 /\ Len(sent) \in Nat /\ Len(stream) \in Nat
    BY <1>2 DEF StreamInv, StreamTypes
  <2>2. PartsRead' = PartsRead /\ PartsWritten = 3 * Len(sent) /\ PartsWritten' = 3 * Len(sent) + 1 /\ PartsRead \in Nat
    BY <1>2, <2>1 DEF PartsRead, PartsWritten, StreamInv, StreamTypes
  <2>3. PartsRead + Len(stream) = PartsWritten
    BY <1>5 DEF StreamInv, StreamOK
  <2>4. /\ \A k \in 1 .. Len(sent) : sent'[k] = sent[k]
        /\ \A k \in 1 .. Len(stream) : stream'[k] = stream[k]
        /\ sent'[Len(sent) + 1] = p /\ stream'[Len(stream) + 1] = <<"length", p>>
    BY SMTT(30), <1>2 DEF StreamInv, StreamTypes
  <2>5. Len(got) \in Nat /\ Len(reading) \in Nat /\ 3 * Len(got) + Len(reading) <= 3 * Len(sent)
    BY SMTT(30), <2>1, <2>2, <2>3 DEF PartsRead, StreamInv, StreamTypes
  <2>6. /\ \A k \in 1 .. Len(got)' : got'[k] = sent'[k]
        /\ reading' # <<>> => reading'[1] = sent'[Len(got)' + 1]
    <3>1. /\ \A k \in 1 .. Len(got) : got[k] = sent[k]
          /\ reading # <<>> => reading[1] = sent[Len(got) + 1]
      BY <1>5 DEF StreamInv, StreamOK
    <3>2. Len(got) <= Len(sent) /\ (reading # <<>> => Len(got) + 1 <= Len(sent))
      <4>1. reading # <<>> => Len(reading) # 0
        BY EmptySeq DEF StreamInv, StreamTypes
      <4> QED
        BY <2>1, <2>5, <4>1
    <3>3. UNCHANGED <<got, reading>>
      BY <1>2
    <3> QED
      BY <2>1, <2>4, <2>5, <3>1, <3>2, <3>3
  <2>7. ASSUME NEW k \in 1 .. Len(sent)'
        PROVE  /\ PartAt(stream', 3 * k - 2 - PartsRead, <<"length", sent'[k]>>)
               /\ PartAt(stream', 3 * k - 1 - PartsRead, <<"body", sent'[k]>>)
               /\ PartAt(stream', 3 * k - PartsRead, <<"rest", sent'[k]>>)
    <3>1. CASE k = Len(sent) + 1
      <4>1. /\ 3 * k - 2 - PartsRead = Len(stream) + 1
            /\ 3 * k - 1 - PartsRead > Len(stream) + 1 /\ 3 * k - PartsRead > Len(stream) + 1
        BY <2>1, <2>2, <2>3, <3>1
      <4>2. sent'[k] = p /\ Len(stream') = Len(stream) + 1
        BY <2>1, <2>4, <3>1
      <4>3. PartAt(stream', 3 * k - 2 - PartsRead, <<"length", sent'[k]>>)
        BY <2>4, <4>1, <4>2 DEF PartAt
      <4>4. \A x : \A j \in Nat : j > Len(stream) + 1 => PartAt(stream', j, x)
        BY <2>1, <4>2 DEF PartAt
      <4>5. 3 * k - 1 - PartsRead \in Nat /\ 3 * k - PartsRead \in Nat
        BY <2>1, <2>2, <2>3, <3>1
      <4> QED
        BY <4>1, <4>3, <4>4, <4>5
    <3>2. CASE k \in 1 .. Len(sent)
      <4>1. /\ PartAt(stream, 3 * k - 2 - PartsRead, <<"length", sent[k]>>)
            /\ PartAt(stream, 3 * k - 1 - PartsRead, <<"body", sent[k]>>)
            /\ PartAt(stream, 3 * k - PartsRead, <<"rest", sent[k]>>)
        BY <1>5, <3>2 DEF StreamInv, StreamOK
      <4>2. /\ 3 * k - 2 - PartsRead \in Int /\ 3 * k - 1 - PartsRead \in Int /\ 3 * k - PartsRead \in Int
            /\ 3 * k - PartsRead <= Len(stream)
            /\ 3 * k - 1 - PartsRead <= Len(stream) /\ 3 * k - 2 - PartsRead <= Len(stream)
        BY <2>1, <2>2, <2>3, <3>2
      <4>3. stream \in Seq(Part) /\ stream' \in Seq(Part)
        BY <1>3 DEF StreamInv, StreamTypes
      <4>4. sent'[k] = sent[k] /\ Len(stream) <= Len(stream')
        BY <2>1, <2>4, <3>2
      <4> QED
        BY <2>4, <4>1, <4>2, <4>3, <4>4, PartStays
    <3> QED
      BY <2>1, <3>1, <3>2
  <2>8. PartsRead' + Len(stream') = PartsWritten'
    BY <2>1, <2>2, <2>3
  <2>9. UNCHANGED PartsRead
    BY <2>2
  <2> QED
    BY <2>6, <2>7, <2>8, <2>9 DEF StreamOK
<1>6. arrived' <= Len(stream') /\ Len(reading') <= 1
  BY <1>2 DEF StreamInv, StreamTypes
<1> QED
  BY <1>2, <1>3, <1>4, <1>5, <1>6 DEF StreamInv

(* The body follows its length, since the lock was held in between. *)
LEMMA SendBodyKeeps ==
  ASSUME StreamInv, NEW w \in Writer, SendBody(w)
  PROVE  StreamInv'
<1> DEFINE p == sending[w][1]
<1>1. lock = <<w>> /\ sent # <<>> /\ p = sent[Len(sent)] /\ p \in Packet
  BY DEF SendBody, StreamInv, LockOK, StreamTypes
<1>2. /\ stream' = stream \o << <<"body", p>>, <<"rest", p>> >> /\ sending' = [sending EXCEPT ![w] = <<>>]
      /\ lock' = <<>> /\ UNCHANGED <<begun, sent, arrived, reading, got, torn>>
  BY DEF SendBody
<1> HIDE DEF p
<1>3. << <<"body", p>>, <<"rest", p>> >> \in Seq(Part)
  BY <1>1 DEF Part
<1>4. /\ stream' \in Seq(Part) /\ Len(stream') = Len(stream) + 2
      /\ \A k \in 1 .. Len(stream) : stream'[k] = stream[k]
      /\ stream'[Len(stream) + 1] = <<"body", p>> /\ stream'[Len(stream) + 2] = <<"rest", p>>
  BY <1>2, <1>3, ConcatProperties DEF StreamInv, StreamTypes
<1>5. StreamTypes'
  BY <1>2, <1>4 DEF StreamInv, StreamTypes
<1>6. LockOK'
  <2>1. \A u \in Writer : u # w => sending[u] = <<>>
    BY <1>1 DEF StreamInv, LockOK
  <2>2. \A u \in Writer : sending'[u] = <<>> /\ <<>> # <<u>>
    BY <1>2, <2>1 DEF StreamInv, StreamTypes
  <2> QED
    BY <1>2, <2>2 DEF LockOK
<1>7. ASSUME ~torn PROVE StreamOK'
  <2>1. /\ Len(sent) \in Nat \ {0} /\ Len(stream) \in Nat /\ PartsRead \in Nat
        /\ PartsRead' = PartsRead /\ PartsWritten = 3 * Len(sent) - 2 /\ PartsWritten' = 3 * Len(sent)
    BY <1>1, <1>2, EmptySeq DEF PartsRead, PartsWritten, StreamInv, StreamTypes
  <2>2. PartsRead + Len(stream) = PartsWritten
    BY <1>7 DEF StreamInv, StreamOK
  <2>3. /\ \A k \in 1 .. Len(got)' : got'[k] = sent'[k]
        /\ reading' # <<>> => reading'[1] = sent'[Len(got)' + 1]
    BY <1>2, <1>7 DEF StreamInv, StreamOK
  <2>4. ASSUME NEW k \in 1 .. Len(sent)
        PROVE  /\ PartAt(stream', 3 * k - 2 - PartsRead, <<"length", sent[k]>>)
               /\ PartAt(stream', 3 * k - 1 - PartsRead, <<"body", sent[k]>>)
               /\ PartAt(stream', 3 * k - PartsRead, <<"rest", sent[k]>>)
    <3>1. /\ PartAt(stream, 3 * k - 2 - PartsRead, <<"length", sent[k]>>)
          /\ PartAt(stream, 3 * k - 1 - PartsRead, <<"body", sent[k]>>)
          /\ PartAt(stream, 3 * k - PartsRead, <<"rest", sent[k]>>)
      BY <1>7 DEF StreamInv, StreamOK
    <3>2. CASE k = Len(sent)
      BY SMTT(30), <1>1, <1>4, <2>1, <2>2, <3>1, <3>2 DEF PartAt
    <3>3. CASE k < Len(sent)
      <4>1. /\ 3 * k - 2 - PartsRead \in Int /\ 3 * k - 1 - PartsRead \in Int /\ 3 * k - PartsRead \in Int
            /\ 3 * k - PartsRead <= Len(stream)
            /\ 3 * k - 1 - PartsRead <= Len(stream) /\ 3 * k - 2 - PartsRead <= Len(stream)
        BY <2>1, <2>2, <3>3
      <4>2. stream \in Seq(Part) /\ stream' \in Seq(Part) /\ Len(stream) <= Len(stream')
        BY <1>4, <2>1 DEF StreamInv, StreamTypes
      <4> QED
        BY <1>4, <3>1, <4>1, <4>2, PartStays
    <3> QED
      BY <2>1, <3>2, <3>3
  <2>5. PartsRead' + Len(stream') = PartsWritten'
    BY <1>4, <2>1, <2>2
  <2>6. UNCHANGED <<sent, PartsRead>>
    BY <1>2, <2>1
  <2> QED
    BY <2>3, <2>4, <2>5, <2>6 DEF StreamOK
<1>8. arrived' <= Len(stream') /\ Len(reading') <= 1
  BY <1>2, <1>4 DEF StreamInv, StreamTypes
<1> QED
  BY <1>2, <1>5, <1>6, <1>7, <1>8 DEF StreamInv

(* What arrives was written; the parts and their order stay. *)
LEMMA ArriveKeeps ==
  ASSUME StreamInv, Arrive
  PROVE  StreamInv'
<1>1. /\ arrived' = arrived + 1 /\ arrived < Len(stream)
      /\ UNCHANGED <<begun, sending, lock, sent, stream, reading, got, torn>>
  BY DEF Arrive
<1>2. StreamTypes' /\ LockOK' /\ Len(reading') <= 1
  BY <1>1 DEF StreamInv, StreamTypes, LockOK
<1>3. arrived' <= Len(stream')
  BY <1>1 DEF StreamInv, StreamTypes
<1>4. StreamOK => StreamOK'
  BY <1>1 DEF StreamOK, PartsRead, PartsWritten
<1> QED
  BY <1>1, <1>2, <1>3, <1>4 DEF StreamInv

(* The first d parts are read: those behind them move up. *)
LEMMA PartsMoveUp ==
  ASSUME NEW d \in Nat, d <= Len(stream), stream \in Seq(Part), stream' \in Seq(Part),
         Len(stream') = Len(stream) - d, \A i \in 1 .. Len(stream') : stream'[i] = stream[i + d],
         PartsRead \in Nat, PartsRead' = PartsRead + d, NEW k \in Int, NEW x,
         PartAt(stream, k - PartsRead, x)
  PROVE  PartAt(stream', k - PartsRead', x)
<1> SUFFICES ASSUME k - PartsRead' \in 1 .. Len(stream') PROVE stream'[k - PartsRead'] = x
  BY DEF PartAt
<1>1. k - PartsRead \in 1 .. Len(stream) /\ (k - PartsRead') + d = k - PartsRead
  OBVIOUS
<1> QED
  BY <1>1 DEF PartAt

(* The part at the beginning of the stream is a length when none was read, *)
(* and belongs to the packet after those executed.                         *)
LEMMA ReadLengthKeeps ==
  ASSUME StreamInv, ReadLength
  PROVE  StreamInv'
<1>1. /\ reading = <<>> /\ arrived > 0 /\ ~torn /\ stream' = Tail(stream) /\ arrived' = arrived - 1
      /\ reading' = <<Head(stream)[2]>> /\ UNCHANGED <<begun, sending, lock, sent, got, torn>>
  BY DEF ReadLength
<1>2. stream \in Seq(Part) /\ stream # <<>> /\ Len(stream) \in Nat \ {0} /\ arrived \in Nat
  BY <1>1, EmptySeq DEF StreamInv, StreamTypes
<1>3. /\ stream' \in Seq(Part) /\ Len(stream') = Len(stream) - 1
      /\ \A i \in 1 .. Len(stream') : stream'[i] = stream[i + 1]
      /\ Head(stream) \in Part /\ Head(stream) = stream[1]
  BY <1>1, <1>2, HeadTailProperties
<1>4. Head(stream)[2] \in Packet
  BY <1>3 DEF Part
<1>5. reading' \in Seq(Packet) /\ Len(reading') = 1 /\ reading'[1] = stream[1][2]
  BY <1>1, <1>3, <1>4
<1>6. StreamTypes' /\ arrived' <= Len(stream')
  BY <1>1, <1>2, <1>3, <1>5 DEF StreamInv, StreamTypes
<1>7. LockOK'
  BY <1>1 DEF StreamInv, LockOK
<1>8. StreamOK'
  <2>1. StreamOK
    BY <1>1 DEF StreamInv
  <2>2. Len(got) \in Nat /\ Len(sent) \in Nat /\ PartsRead = 3 * Len(got) /\ PartsRead' = PartsRead + 1
    BY <1>1, <1>5 DEF PartsRead, StreamInv, StreamTypes
  <2>3. PartsWritten' = PartsWritten /\ PartsWritten <= 3 * Len(sent)
    BY <1>1, <2>2 DEF PartsWritten
  <2>4. PartsRead' + Len(stream') = PartsWritten'
    BY <1>2, <1>3, <2>1, <2>2, <2>3 DEF StreamOK
  <2>5. Len(got) + 1 \in 1 .. Len(sent)
    BY <1>2, <2>1, <2>2, <2>3 DEF StreamOK
  <2>6. stream[1] = <<"length", sent[Len(got) + 1]>>
    <3>1. PartAt(stream, 3 * (Len(got) + 1) - 2 - PartsRead, <<"length", sent[Len(got) + 1]>>)
      BY <2>1, <2>5 DEF StreamOK
    <3>2. 3 * (Len(got) + 1) - 2 - PartsRead = 1
      BY <2>2
    <3> QED
      BY <1>2, <3>1, <3>2 DEF PartAt
  <2>7. reading'[1] = sent'[Len(got)' + 1]
    BY <1>1, <1>5, <2>6
  <2>8. ASSUME NEW k \in 1 .. Len(sent)
        PROVE  /\ PartAt(stream', 3 * k - 2 - PartsRead', <<"length", sent[k]>>)
               /\ PartAt(stream', 3 * k - 1 - PartsRead', <<"body", sent[k]>>)
               /\ PartAt(stream', 3 * k - PartsRead', <<"rest", sent[k]>>)
    <3>1. /\ PartAt(stream, 3 * k - 2 - PartsRead, <<"length", sent[k]>>)
          /\ PartAt(stream, 3 * k - 1 - PartsRead, <<"body", sent[k]>>)
          /\ PartAt(stream, 3 * k - PartsRead, <<"rest", sent[k]>>)
      BY <2>1 DEF StreamOK
    <3>2. 3 * k - 2 \in Int /\ 3 * k - 1 \in Int /\ 3 * k \in Int /\ 1 \in Nat /\ 1 <= Len(stream) /\ PartsRead \in Nat
      BY <1>2, <2>2
    <3> QED
      BY <1>2, <1>3, <2>2, <3>1, <3>2, PartsMoveUp
  <2> QED
    BY <1>1, <2>1, <2>4, <2>7, <2>8 DEF StreamOK
<1> QED
  BY <1>1, <1>5, <1>6, <1>7, <1>8 DEF StreamInv

(* A length read in part tears the stream. *)
LEMMA ReadPartKeeps ==
  ASSUME StreamInv, ReadPartOfLength
  PROVE  StreamInv'
<1>1. /\ reading = <<>> /\ torn' = TRUE
      /\ UNCHANGED <<begun, sending, lock, sent, stream, arrived, reading, got>>
  BY DEF ReadPartOfLength
<1>2. StreamTypes' /\ LockOK' /\ arrived' <= Len(stream') /\ Len(reading') <= 1
  BY <1>1 DEF StreamInv, StreamTypes, LockOK
<1> QED
  BY <1>1, <1>2 DEF StreamInv

(* If both parts have arrived they are the body of the packet whose length *)
(* was read; else the stream is torn.                                      *)
LEMMA ReadBodyKeeps ==
  ASSUME StreamInv, ReadBody
  PROVE  StreamInv' /\ Len(got') = Len(got) + 1 /\ got'[Len(got')] \in Packet
<1> DEFINE d == IF arrived = 1 THEN 1 ELSE 2
           p == reading[1]
           q == IF stream[1] = <<"body", p>> THEN p ELSE [p EXCEPT !.n = 0]
<1>0. reading # <<>> /\ arrived > 0 /\ Len(reading) = 1
  <2>1. reading # <<>> /\ arrived > 0
    BY DEF ReadBody
  <2>2. reading \in Seq(Packet) /\ Len(reading) <= 1
    BY DEF StreamInv, StreamTypes
  <2>3. Len(reading) \in Nat /\ Len(reading) # 0
    BY <2>1, <2>2, EmptySeq
  <2>4. Len(reading) = 1
    BY <2>2, <2>3
  <2> QED
    BY <2>1, <2>4
<1>1. /\ reading # <<>> /\ arrived > 0 /\ stream' = SubSeq(stream, d + 1, Len(stream)) /\ arrived' = arrived - d
      /\ torn' = (d = 1) /\ got' = Append(got, q)
      /\ reading' = <<>> /\ UNCHANGED <<begun, sending, lock, sent>>
  BY DEF ReadBody
<1>2. /\ stream \in Seq(Part) /\ Len(stream) \in Nat /\ arrived \in Nat /\ arrived <= Len(stream)
      /\ Len(reading) = 1 /\ p \in Packet /\ got \in Seq(Packet) /\ ~torn
  BY <1>0, ElementOfSeq DEF StreamInv, StreamTypes
<1>3. q \in Packet
  BY <1>2 DEF Packet
<1>4. d \in Nat /\ d > 0 /\ d <= arrived /\ (d = 1 <=> arrived = 1)
  BY <1>1, <1>2
<1> HIDE DEF d
<1>5. /\ stream' \in Seq(Part) /\ Len(stream') = Len(stream) - d
      /\ \A i \in 1 .. Len(stream') : stream'[i] = stream[i + d]
  <2>1. \A i \in d + 1 .. Len(stream) : stream[i] \in Part
    BY <1>2, <1>4, ElementOfSeq
  <2>2. d + 1 \in Int /\ Len(stream) \in Int
    BY <1>2, <1>4
  <2>3. /\ SubSeq(stream, d + 1, Len(stream)) \in Seq(Part)
        /\ Len(SubSeq(stream, d + 1, Len(stream))) = IF d + 1 <= Len(stream) THEN Len(stream) - (d + 1) + 1 ELSE 0
        /\ \A i \in 1 .. Len(stream) - (d + 1) + 1 : SubSeq(stream, d + 1, Len(stream))[i] = stream[d + 1 + i - 1]
    BY <2>1, <2>2, SubSeqProperties
  <2>4. \A i \in Nat : d + 1 + i - 1 = i + d
    BY <1>4
  <2> QED
    BY <1>1, <1>2, <1>4, <2>3, <2>4
<1> HIDE DEF q
<1>6. Len(got') = Len(got) + 1 /\ got' \in Seq(Packet) /\ got'[Len(got) + 1] = q /\ \A k \in 1 .. Len(got) : got'[k] = got[k]
  BY <1>1, <1>2, <1>3
<1>7. StreamTypes' /\ arrived' <= Len(stream') /\ Len(reading') <= 1
  <2>1. reading' \in Seq(Packet) /\ Len(reading') = 0
    BY <1>1, EmptySeq
  <2> QED
    BY <1>1, <1>2, <1>4, <1>5, <1>6, <2>1 DEF StreamInv, StreamTypes
<1>8. LockOK'
  BY <1>1 DEF StreamInv, LockOK
<1>9. ASSUME ~torn' PROVE StreamOK'
  <2>1. StreamOK /\ d = 2
    BY <1>1, <1>2, <1>9 DEF StreamInv, d
  <2>2. Len(got) \in Nat /\ Len(sent) \in Nat /\ PartsRead = 3 * Len(got) + 1 /\ PartsRead' = PartsRead + 2
    BY <1>1, <1>2, <1>6, EmptySeq DEF PartsRead, StreamInv, StreamTypes
  <2>3. PartsWritten' = PartsWritten /\ PartsWritten <= 3 * Len(sent)
    BY <1>1, <2>2 DEF PartsWritten
  <2>4. PartsRead' + Len(stream') = PartsWritten'
    BY <1>2, <1>5, <2>1, <2>2, <2>3 DEF StreamOK
  <2>5. Len(got) + 1 \in 1 .. Len(sent)
    BY <1>2, <1>4, <2>1, <2>2, <2>3 DEF StreamOK
  <2>6. p = sent[Len(got) + 1]
    BY <1>1, <2>1 DEF StreamOK
  <2>7. stream[1] = <<"body", p>>
    <3>1. PartAt(stream, 3 * (Len(got) + 1) - 1 - PartsRead, <<"body", sent[Len(got) + 1]>>)
      BY <2>1, <2>5 DEF StreamOK
    <3>2. 3 * (Len(got) + 1) - 1 - PartsRead = 1 /\ 1 \in 1 .. Len(stream)
      BY <1>2, <1>4, <2>2
    <3> QED
      BY <2>6, <3>1, <3>2 DEF PartAt
  <2>8. \A k \in 1 .. Len(got') : got'[k] = sent'[k]
    <3>1. q = p
      BY <2>7 DEF q
    <3>2. \A k \in 1 .. Len(got) : got[k] = sent[k]
      BY <2>1 DEF StreamOK
    <3> QED
      BY <1>1, <1>6, <2>2, <2>6, <3>1, <3>2
  <2>9. ASSUME NEW k \in 1 .. Len(sent)
        PROVE  /\ PartAt(stream', 3 * k - 2 - PartsRead', <<"length", sent[k]>>)
               /\ PartAt(stream', 3 * k - 1 - PartsRead', <<"body", sent[k]>>)
               /\ PartAt(stream', 3 * k - PartsRead', <<"rest", sent[k]>>)
    <3>1. /\ PartAt(stream, 3 * k - 2 - PartsRead, <<"length", sent[k]>>)
          /\ PartAt(stream, 3 * k - 1 - PartsRead, <<"body", sent[k]>>)
          /\ PartAt(stream, 3 * k - PartsRead, <<"rest", sent[k]>>)
      BY <2>1 DEF StreamOK
    <3>2. /\ 3 * k - 2 \in Int /\ 3 * k - 1 \in Int /\ 3 * k \in Int /\ d <= Len(stream) /\ PartsRead \in Nat
          /\ PartsRead' = PartsRead + d
      BY <1>2, <1>4, <2>1, <2>2
    <3> QED
      BY <1>2, <1>4, <1>5, <3>1, <3>2, PartsMoveUp
  <2> QED
    BY <1>1, <2>4, <2>8, <2>9 DEF StreamOK
<1> QED
  BY <1>1, <1>3, <1>6, <1>7, <1>8, <1>9 DEF StreamInv

LEMMA StreamKeeps ==
  StreamInv /\ (Game \/ Arrive \/ ReadLength \/ ReadPartOfLength \/ ReadBody \/ UNCHANGED streamVars) => StreamInv'
<1> SUFFICES ASSUME StreamInv, Game \/ Arrive \/ ReadLength \/ ReadPartOfLength \/ ReadBody \/ UNCHANGED streamVars PROVE StreamInv'
  OBVIOUS
<1>1. CASE Game
  BY <1>1, SendLengthKeeps, SendBodyKeeps DEF Game
<1>2. CASE UNCHANGED streamVars
  BY <1>2 DEF streamVars, StreamInv, StreamTypes, LockOK, StreamOK, PartsRead, PartsWritten
<1> QED
  BY <1>1, <1>2, ArriveKeeps, ReadLengthKeeps, ReadPartKeeps, ReadBodyKeeps
-----------------------------------------------------------------------------
WindowTypes ==
  /\ received \in Seq(Packet) /\ sessionMsgList \in Seq(Packet) /\ jsonStrPool \in Seq(Packet)
  /\ batch \in Seq(Packet) /\ result \in Seq(Packet) /\ shown \in Seq(Packet)
  /\ main \in {"idle", "accept", "clear", "show", "take"}
  /\ worker \in {"asleep", "reading", "clearing", "writing", "waiting", "dead"}
  /\ readerFlag \in BOOLEAN /\ raced \in BOOLEAN

(* What passes from one thread to the other. *)
HandOver ==
  ~raced => /\ ~(main = "take" /\ readerFlag)
            /\ worker = "clearing" => batch = jsonStrPool

WindowInv == WindowTypes /\ HandOver /\ MessagesAccounted

(* The stations of a message, the last one first. *)
Stored == IF readerFlag \/ main = "take" THEN result ELSE <<>>
Joined == IF worker \in {"writing", "waiting"} THEN batch ELSE <<>>
Listed == IF main = "clear" THEN <<>> ELSE sessionMsgList

Way(a, b, c, d, e) == a \o b \o c \o d \o e

LEMMA AccountedIsWay ==
  MessagesAccounted <=> (~raced => received = Way(shown, Stored, Joined, jsonStrPool, Listed))
BY DEF MessagesAccounted, Way, Stored, Joined, Listed

LEMMA StationsAreSeqs ==
  ASSUME WindowTypes
  PROVE  Stored \in Seq(Packet) /\ Joined \in Seq(Packet) /\ Listed \in Seq(Packet)
BY EmptySeq DEF WindowTypes, Stored, Joined, Listed

(* A message that comes is behind all others; one that moves to the next,  *)
(* empty station keeps its place.                                          *)
LEMMA AppendConcat ==
  ASSUME NEW s \in Seq(Packet), NEW t \in Seq(Packet), NEW x \in Packet
  PROVE  Append(s \o t, x) = s \o Append(t, x)
OBVIOUS

LEMMA ConcatAssoc ==
  ASSUME NEW s \in Seq(Packet), NEW t \in Seq(Packet), NEW u \in Seq(Packet)
  PROVE  (s \o t) \o u = s \o (t \o u)
OBVIOUS

LEMMA MessageComes ==
  ASSUME WindowTypes, NEW x \in Packet
  PROVE  Append(Way(shown, Stored, Joined, jsonStrPool, Listed), x) = Way(shown, Stored, Joined, jsonStrPool, Append(Listed, x))
<1> DEFINE w == ((shown \o Stored) \o Joined) \o jsonStrPool
<1>1. w \in Seq(Packet) /\ Listed \in Seq(Packet)
  BY StationsAreSeqs, ConcatProperties DEF WindowTypes
<1> HIDE DEF w
<1>2. Append(w \o Listed, x) = w \o Append(Listed, x)
  BY <1>1, AppendConcat, Zenon
<1> QED
  BY <1>2 DEF Way, w

LEMMA ListMoves ==
  ASSUME WindowTypes
  PROVE  Way(shown, Stored, Joined, jsonStrPool, sessionMsgList) = Way(shown, Stored, Joined, jsonStrPool \o sessionMsgList, <<>>)
<1> DEFINE w == (shown \o Stored) \o Joined
<1>1. w \in Seq(Packet) /\ jsonStrPool \in Seq(Packet) /\ sessionMsgList \in Seq(Packet)
  BY StationsAreSeqs, ConcatProperties DEF WindowTypes
<1> HIDE DEF w
<1>2. (w \o jsonStrPool) \o sessionMsgList = w \o (jsonStrPool \o sessionMsgList)
  BY <1>1, ConcatAssoc, Zenon
<1>3. w \o (jsonStrPool \o sessionMsgList) \in Seq(Packet)
  BY <1>1, ConcatProperties
<1>4. (w \o (jsonStrPool \o sessionMsgList)) \o <<>> = w \o (jsonStrPool \o sessionMsgList)
  BY <1>3, ConcatEmptySeq
<1> QED
  BY <1>2, <1>4 DEF Way, w

LEMMA PoolMoves ==
  ASSUME WindowTypes
  PROVE  Way(shown, Stored, <<>>, jsonStrPool, Listed) = Way(shown, Stored, jsonStrPool, <<>>, Listed)
<1>1. shown \o Stored \in Seq(Packet) /\ (shown \o Stored) \o jsonStrPool \in Seq(Packet)
  BY StationsAreSeqs, ConcatProperties DEF WindowTypes
<1>2. (shown \o Stored) \o <<>> = shown \o Stored /\ ((shown \o Stored) \o jsonStrPool) \o <<>> = (shown \o Stored) \o jsonStrPool
  BY <1>1, ConcatEmptySeq
<1> QED
  BY <1>2 DEF Way

LEMMA BatchMoves ==
  ASSUME WindowTypes
  PROVE  Way(shown, <<>>, batch, jsonStrPool, Listed) = Way(shown, batch, <<>>, jsonStrPool, Listed)
<1>1. shown \in Seq(Packet) /\ shown \o batch \in Seq(Packet)
  BY ConcatProperties DEF WindowTypes
<1>2. shown \o <<>> = shown /\ (shown \o batch) \o <<>> = shown \o batch
  BY <1>1, ConcatEmptySeq
<1> QED
  BY <1>2 DEF Way

LEMMA ResultMoves ==
  ASSUME WindowTypes
  PROVE  Way(shown, result, Joined, jsonStrPool, Listed) = Way(shown \o result, <<>>, Joined, jsonStrPool, Listed)
<1>1. shown \o result \in Seq(Packet)
  BY ConcatProperties DEF WindowTypes
<1>2. (shown \o result) \o <<>> = shown \o result
  BY <1>1, ConcatEmptySeq
<1> QED
  BY <1>2 DEF Way
-----------------------------------------------------------------------------
LEMMA InitWindowInv == Init => WindowInv
<1> SUFFICES ASSUME Init PROVE WindowInv
  OBVIOUS
<1>1. WindowTypes
  BY EmptySeq DEF Init, WindowTypes
<1>2. Way(<<>>, <<>>, <<>>, <<>>, <<>>) = <<>>
  BY EmptySeq, ConcatEmptySeq DEF Way
<1>3. MessagesAccounted
  BY <1>2, AccountedIsWay DEF Init, Stored, Joined, Listed
<1> QED
  BY <1>1, <1>3 DEF Init, WindowInv, HandOver

(* A message that comes is the last, unless the list is being cleared. *)
LEMMA ReceiveKeeps ==
  ASSUME StreamInv, WindowInv, Receive
  PROVE  WindowInv'
<1>1. Last(got') \in Packet
  BY ReadBodyKeeps DEF Receive, Last
<1>2. UNCHANGED <<jsonStrPool, main, worker, batch, result, readerFlag, shown>>
  BY DEF Receive
<1>3. CASE UNCHANGED <<sessionMsgList, received, raced>>
  BY <1>2, <1>3 DEF WindowInv, WindowTypes, HandOver, MessagesAccounted
<1>4. ASSUME NEW x \in Packet,
             sessionMsgList' = Append(sessionMsgList, x), received' = Append(received, x), raced' = (raced \/ main = "clear")
      PROVE  WindowInv'
  <2>1. WindowTypes' /\ HandOver'
    BY <1>2, <1>4 DEF WindowInv, WindowTypes, HandOver
  <2>2. ASSUME ~raced' PROVE received' = Way(shown, Stored, Joined, jsonStrPool, Listed)'
    <3>1. received = Way(shown, Stored, Joined, jsonStrPool, Listed) /\ main # "clear"
      BY <1>4, <2>2, AccountedIsWay DEF WindowInv
    <3>2. UNCHANGED <<shown, Stored, Joined, jsonStrPool>> /\ Listed' = Append(Listed, x)
      BY <1>2, <1>4, <3>1 DEF Stored, Joined, Listed
    <3>4. Append(Way(shown, Stored, Joined, jsonStrPool, Listed), x) = Way(shown, Stored, Joined, jsonStrPool, Append(Listed, x))
      BY MessageComes DEF WindowInv
    <3> QED
      BY <1>4, <3>1, <3>2, <3>4
  <2> QED
    BY <2>1, <2>2 DEF WindowInv, MessagesAccounted, Way, Stored, Joined, Listed
<1> QED
  BY <1>1, <1>3, <1>4 DEF Receive

(* Update moves messages on, and knows that it races if the worker is in   *)
(* the pool.                                                               *)
LEMMA MainKeeps ==
  ASSUME WindowInv, MainThread
  PROVE  WindowInv'
<1>1. WindowTypes
  BY DEF WindowInv
<1>2. ~raced => received = Way(shown, Stored, Joined, jsonStrPool, Listed)
  BY AccountedIsWay DEF WindowInv
<1>3. WindowTypes'
  <2>1. jsonStrPool \o sessionMsgList \in Seq(Packet) /\ shown \o result \in Seq(Packet) /\ <<>> \in Seq(Packet)
    BY <1>1, ConcatProperties, EmptySeq DEF WindowTypes
  <2>2. CASE AcceptJson
    BY <1>1, <2>1, <2>2 DEF AcceptJson, WindowTypes
  <2>3. CASE TakeResult
    BY <1>1, <2>1, <2>3 DEF TakeResult, WindowTypes
  <2>4. CASE Update \/ ClearList \/ ReadResult
    BY <1>1, <2>1, <2>4 DEF Update, ClearList, ReadResult, WindowTypes
  <2> QED
    BY <2>2, <2>3, <2>4 DEF MainThread
<1>4. HandOver'
  BY <1>1 DEF WindowInv, HandOver, MainThread, Update, AcceptJson, ClearList, ReadResult, TakeResult, WindowTypes, WorkerWaits
<1>5. ASSUME ~raced' PROVE received' = Way(shown, Stored, Joined, jsonStrPool, Listed)'
  <2>1. CASE Update
    <3>1. UNCHANGED <<received, shown, Stored, Joined, jsonStrPool, Listed, raced>>
      BY <2>1 DEF Update, Stored, Joined, Listed
    <3> QED
      BY <1>2, <1>5, <3>1
  <2>2. CASE AcceptJson
    <3>1. /\ UNCHANGED <<received, shown, Stored, Joined>> /\ jsonStrPool' = jsonStrPool \o sessionMsgList
          /\ Listed = sessionMsgList /\ Listed' = <<>> /\ ~raced
      BY <1>5, <2>2 DEF AcceptJson, Stored, Joined, Listed, WorkerWaits
    <3> QED
      BY <1>1, <1>2, <3>1, ListMoves
  <2>3. CASE ClearList
    <3>1. UNCHANGED <<received, shown, Stored, Joined, jsonStrPool, Listed, raced>>
      BY <2>3 DEF ClearList, Stored, Joined, Listed
    <3> QED
      BY <1>2, <1>5, <3>1
  <2>4. CASE ReadResult
    <3>1. UNCHANGED <<received, shown, Stored, Joined, jsonStrPool, Listed, raced>>
      BY <2>4 DEF ReadResult, Stored, Joined, Listed
    <3> QED
      BY <1>2, <1>5, <3>1
  <2>5. CASE TakeResult
    <3>1. /\ UNCHANGED <<received, Joined, jsonStrPool, Listed, raced>> /\ shown' = shown \o result
          /\ Stored = result /\ Stored' = <<>>
      BY <1>5, <2>5 DEF TakeResult, Stored, Joined, Listed, WindowInv, HandOver
    <3> QED
      BY <1>1, <1>2, <1>5, <3>1, ResultMoves
  <2> QED
    BY <2>1, <2>2, <2>3, <2>4, <2>5 DEF MainThread
<1> QED
  BY <1>3, <1>4, <1>5 DEF WindowInv, MessagesAccounted, Way, Stored, Joined, Listed

(* The worker moves messages on, and knows that it races if the result it  *)
(* stores is the one being taken.                                          *)
LEMMA WorkerKeeps ==
  ASSUME WindowInv, WorkerThread
  PROVE  WindowInv'
<1>1. WindowTypes
  BY DEF WindowInv
<1>2. ~raced => received = Way(shown, Stored, Joined, jsonStrPool, Listed)
  BY AccountedIsWay DEF WindowInv
<1>3. WindowTypes'
  BY <1>1, EmptySeq DEF WorkerThread, WorkerWakes, WorkerJoins, WorkerClears, WorkerBlocks, WorkerStores, WindowTypes
<1>4. HandOver'
  BY <1>1 DEF WindowInv, HandOver, WorkerThread, WorkerWakes, WorkerJoins, WorkerClears, WorkerBlocks, WorkerStores, WindowTypes
<1>5. ASSUME ~raced' PROVE received' = Way(shown, Stored, Joined, jsonStrPool, Listed)'
  <2>1. CASE WorkerWakes \/ WorkerJoins \/ WorkerBlocks
    <3>1. UNCHANGED <<received, shown, Stored, Joined, jsonStrPool, Listed, raced>>
      BY <2>1 DEF WorkerWakes, WorkerJoins, WorkerBlocks, Stored, Joined, Listed
    <3> QED
      BY <1>2, <1>5, <3>1
  <2>2. CASE WorkerClears
    <3>1. /\ UNCHANGED <<received, shown, Stored, Listed, raced>> /\ jsonStrPool' = <<>>
          /\ Joined = <<>> /\ Joined' = jsonStrPool
      BY <1>5, <2>2 DEF WorkerClears, Stored, Joined, Listed, WindowInv, HandOver
    <3> QED
      BY <1>1, <1>2, <1>5, <3>1, PoolMoves
  <2>3. CASE WorkerStores
    <3>1. /\ UNCHANGED <<received, shown, jsonStrPool, Listed>> /\ ~raced
          /\ Stored = <<>> /\ Joined = batch /\ Stored' = batch /\ Joined' = <<>>
      BY <1>5, <2>3 DEF WorkerStores, Stored, Joined, Listed
    <3> QED
      BY <1>1, <1>2, <3>1, BatchMoves
  <2> QED
    BY <2>1, <2>2, <2>3 DEF WorkerThread
<1> QED
  BY <1>3, <1>4, <1>5 DEF WindowInv, MessagesAccounted, Way, Stored, Joined, Listed
-----------------------------------------------------------------------------
LEMMA NextInv == StreamInv /\ WindowInv /\ [Next]_vars => StreamInv' /\ WindowInv'
<1> SUFFICES ASSUME StreamInv, WindowInv, [Next]_vars PROVE StreamInv' /\ WindowInv'
  OBVIOUS
<1>1. CASE Receive
  BY <1>1, StreamKeeps, ReceiveKeeps DEF Receive
<1>2. CASE MainThread
  <2>1. UNCHANGED streamVars
    BY <1>2 DEF MainThread, Update, AcceptJson, ClearList, ReadResult, TakeResult
  <2> QED
    BY <1>2, <2>1, StreamKeeps, MainKeeps
<1>3. CASE WorkerThread
  <2>1. UNCHANGED streamVars
    BY <1>3 DEF WorkerThread, WorkerWakes, WorkerJoins, WorkerClears, WorkerBlocks, WorkerStores
  <2> QED
    BY <1>3, <2>1, StreamKeeps, WorkerKeeps
<1>4. ASSUME UNCHANGED windowVars PROVE WindowInv'
  BY <1>4 DEF windowVars, WindowInv, WindowTypes, HandOver, MessagesAccounted
<1>5. CASE (Game \/ Arrive \/ ReadLength \/ ReadPartOfLength) /\ UNCHANGED windowVars
  BY <1>4, <1>5, StreamKeeps
<1>6. CASE UNCHANGED vars
  BY <1>4, <1>6, StreamKeeps DEF vars
<1> QED
  BY <1>1, <1>2, <1>3, <1>5, <1>6 DEF Next

LEMMA Invariant == Spec => [](StreamInv /\ WindowInv)
BY InitStreamInv, InitWindowInv, NextInv, PTL DEF Spec
-----------------------------------------------------------------------------
(* Whatever threads send, and however the stream is cut, the editor        *)
(* executes the packets sent, whole and in the order in which their        *)
(* threads took the lock, as long as no Read has returned less than a      *)
(* whole length or body (UsNet.cs:136-148, NetClient.cs:96-132).           *)
THEOREM WindowPacketsInOrder == Spec => []PacketsInOrder
<1>1. StreamInv => PacketsInOrder
  <2> SUFFICES ASSUME StreamInv, ~torn PROVE IsPrefix(got, sent)
    BY DEF PacketsInOrder
  <2>1. StreamTypes /\ StreamOK
    BY DEF StreamInv
  <2>2. Len(got) \in Nat /\ Len(sent) \in Nat /\ Len(reading) \in Nat /\ Len(stream) \in Nat
    BY <2>1 DEF StreamTypes
  <2>3. Len(got) <= Len(sent)
    BY <2>1, <2>2 DEF StreamOK, PartsRead, PartsWritten
  <2>4. \A i \in 1 .. Len(got) : got[i] = sent[i] /\ got[i] \in Packet /\ sent[i] \in Packet
    BY <2>1, <2>2, <2>3, ElementOfSeq DEF StreamOK, StreamTypes
  <2>5. SubSeq(got, 1, Len(got)) = SubSeq(sent, 1, Len(got))
    BY <2>1, <2>2, <2>3, <2>4 DEF StreamTypes
  <2> QED
    BY <2>3, <2>5 DEF IsPrefix
<1> QED
  BY Invariant, <1>1, PTL

(* Each message received is at one place on its way to the tree, behind    *)
(* those that came before it, unless threads met in the lists without      *)
(* locks (LuaProfilerWindow.cs:105-141, 594-676).                          *)
THEOREM WindowStaysConsistent == Spec => []WindowConsistent
<1>1. StreamInv /\ WindowInv => WindowConsistent
  <2> SUFFICES ASSUME StreamInv, WindowInv PROVE TypeOK
    BY DEF WindowConsistent, WindowInv
  <2>1. StreamTypes /\ LockOK /\ WindowTypes /\ arrived <= Len(stream) /\ Len(reading) <= 1
    BY DEF StreamInv, WindowInv
  <2>2. arrived \in 0 .. Len(stream)
    BY <2>1 DEF StreamTypes
  <2> QED
    BY <2>1, <2>2 DEF TypeOK, StreamTypes, LockOK, WindowTypes, Part
<1> QED
  BY Invariant, <1>1, PTL
-----------------------------------------------------------------------------
SockStates == {"none", "connecting", "open", "failed", "lost", "closed"}
ConnectStates == {"none", "pending", "connected", "sent", "thrown", "ticking", "done"}
TickStates == [at : {"idle", "elapsed", "alive", "checked", "validated"}, conn : 0 .. MaxConnects]
LeaveStates == {"out", "closing", "forgetting", "stopping"}

Made ==
  /\ client <= made
  /\ \A n \in Conn : n > made => sock[n] = "none" /\ onConnect[n] = "none"

Alone ==
  ~overlapped =>
    /\ \A t, u \in Inside : t = u
    /\ Inside # {} => client # None
    /\ \A t \in Thread : leaving[t] = "forgetting" => sock[client] = "closed"

LinkInv == LinkTypeOK /\ Made /\ Alone /\ NoSocketLeft /\ TimersFitConnection

LEMMA InitLinkInv == LinkInit => LinkInv
<1> SUFFICES ASSUME LinkInit PROVE LinkInv
  OBVIOUS
<1>1. LinkTypeOK
  <2>1. MaxConnects \in Nat /\ 0 \in 0 .. MaxConnects
    BY ConnectAssumption
  <2>2. tick \in TickStates
    BY <2>1 DEF LinkInit, None, Resting, TickStates
  <2>3. guardTimer \in running \cup {None} /\ running \subseteq Conn /\ elapsed \subseteq Conn /\ validated \subseteq Conn
    BY DEF LinkInit
  <2>4. /\ ticking \in BOOLEAN /\ asked \in BOOLEAN /\ outOfTurn \in BOOLEAN /\ overlapped \in BOOLEAN
        /\ client \in 0 .. MaxConnects /\ made \in 0 .. MaxConnects /\ peer \in 0 .. MaxConnects
    BY <2>1 DEF LinkInit, None
  <2>5. /\ sock \in [Conn -> SockStates] /\ onConnect \in [Conn -> ConnectStates]
        /\ requests \in [Conn -> Nat] /\ replies \in [Conn -> Nat] /\ leaving \in [Thread -> LeaveStates]
    BY DEF LinkInit, SockStates, ConnectStates, LeaveStates
  <2> QED
    BY <2>2, <2>3, <2>4, <2>5 DEF LinkTypeOK, SockStates, ConnectStates, TickStates, LeaveStates
<1>2. Made /\ NoSocketLeft /\ TimersFitConnection
  BY ConnectAssumption DEF LinkInit, Made, NoSocketLeft, TimersFitConnection, None, Conn
<1>3. Alone
  BY DEF LinkInit, Alone, Inside
<1> QED
  BY <1>1, <1>2, <1>3 DEF LinkInv

LEMMA Threads == /\ Main \in Thread /\ Ticker \in Thread
                 /\ \A n \in Conn : <<"connect", n>> \in Thread /\ <<"guard", n>> \in Thread
BY DEF Thread

(* The test of Disconnect: the thread is inside, alone or not. *)
LEMMA EnterKeeps ==
  ASSUME LinkInv, UNCHANGED leaveVars \/ \E t \in Thread : Disconnect(t),
         client' = client, \A c \in Conn : sock[c] \in {"none", "closed"} => sock'[c] = sock[c]
  PROVE  /\ leaving' \in [Thread -> LeaveStates] /\ overlapped' \in BOOLEAN /\ Alone'
         /\ Stopping' <=> Stopping
         /\ ~overlapped' => ~overlapped
<1>1. LinkTypeOK /\ Alone
  BY DEF LinkInv
<1>2. leaving \in [Thread -> LeaveStates] /\ overlapped \in BOOLEAN /\ client \in 0 .. MaxConnects
  BY <1>1 DEF LinkTypeOK, LeaveStates
<1>3. client # None => client \in Conn
  BY <1>2, ConnectAssumption DEF None, Conn
<1>4. CASE UNCHANGED leaveVars
  <2>1. UNCHANGED <<leaving, overlapped>> /\ Inside' = Inside
    BY <1>4 DEF leaveVars, Inside
  <2>2. ~overlapped => \A t \in Thread : leaving[t] = "forgetting" => client # None
    BY <1>1 DEF Alone, Inside
  <2>3. Alone'
    BY <1>1, <1>3, <2>1, <2>2 DEF Alone
  <2> QED
    BY <1>2, <2>1, <2>3 DEF Stopping
<1>5. ASSUME NEW t \in Thread, Disconnect(t), ~ UNCHANGED leaveVars
      PROVE  /\ leaving' \in [Thread -> LeaveStates] /\ overlapped' \in BOOLEAN /\ Alone'
             /\ Stopping' <=> Stopping
             /\ ~overlapped' => ~overlapped
  <2>1. /\ leaving[t] = "out" /\ client # None /\ leaving' = [leaving EXCEPT ![t] = "closing"]
        /\ overlapped' = (overlapped \/ Inside # {})
    BY <1>5 DEF Disconnect, Out
  <2>2. \A u \in Thread : leaving'[u] = IF u = t THEN "closing" ELSE leaving[u]
    BY <1>2, <2>1
  <2>3. leaving' \in [Thread -> LeaveStates] /\ overlapped' \in BOOLEAN
    BY <1>2, <2>1 DEF LeaveStates
  <2>4. Stopping' <=> Stopping
    BY <2>1, <2>2 DEF Stopping
  <2>5. Alone'
    <3> SUFFICES ASSUME ~overlapped'
                 PROVE  /\ \A u, v \in Inside' : u = v
                        /\ \A u \in Thread : leaving'[u] # "forgetting"
      BY <2>1 DEF Alone
    <3>1. \A u \in Thread : leaving[u] \notin {"closing", "forgetting"}
      BY <2>1 DEF Inside
    <3>2. \A u \in Inside' : u = t
      BY <2>2, <3>1 DEF Inside
    <3> QED
      BY <2>2, <3>1, <3>2
  <2>6. ~overlapped' => ~overlapped
    BY <1>2, <2>1
  <2> QED
    BY <2>3, <2>4, <2>5, <2>6
<1> QED
  BY <1>4, <1>5

LEMMA OutOfTurn ==
  ASSUME LinkTypeOK, NEW n, ActsFor(n)
  PROVE  outOfTurn' \in BOOLEAN /\ (~outOfTurn' => ~outOfTurn /\ client \in {None, n})
BY DEF ActsFor, LinkTypeOK

(* A step that leaves the current client and the timers alone, and may     *)
(* enter Disconnect                                                        *)
LEMMA OthersKeep ==
  ASSUME LinkInv, UNCHANGED leaveVars \/ \E t \in Thread : Disconnect(t),
         UNCHANGED <<client, made, ticking, guardTimer, running, validated>>,
         outOfTurn' \in BOOLEAN, ~outOfTurn' => ~outOfTurn,
         sock' \in [Conn -> SockStates],
         \A c \in Conn : sock[c] \in {"none", "closed"} => sock'[c] = sock[c],
         onConnect' \in [Conn -> ConnectStates],
         \A c \in Conn : c > made => onConnect'[c] = "none",
         tick' \in TickStates, tick.at = "validated" => tick'.at = "validated",
         elapsed' \subseteq Conn, peer' \in 0 .. MaxConnects, asked' \in BOOLEAN,
         requests' \in [Conn -> Nat], replies' \in [Conn -> Nat]
  PROVE  LinkInv'
<1>1. LinkTypeOK /\ Made /\ NoSocketLeft /\ TimersFitConnection
  BY DEF LinkInv
<1>2. /\ leaving' \in [Thread -> LeaveStates] /\ overlapped' \in BOOLEAN /\ Alone'
      /\ Stopping' <=> Stopping
      /\ ~overlapped' => ~overlapped
  BY EnterKeeps
<1>3. LinkTypeOK'
  BY <1>1, <1>2 DEF LinkTypeOK, SockStates, ConnectStates, TickStates, LeaveStates
<1>4. Made'
  BY <1>1 DEF Made
<1>5. NoSocketLeft'
  <2> SUFFICES ASSUME ~overlapped, NEW c \in 1 .. made, c # client PROVE sock'[c] = "closed"
    BY <1>2 DEF NoSocketLeft
  <2>1. c \in Conn
    BY <1>1, ConnectAssumption DEF LinkTypeOK, Conn
  <2> QED
    BY <1>1, <2>1 DEF NoSocketLeft
<1>6. TimersFitConnection'
  BY <1>1, <1>2 DEF TimersFitConnection
<1> QED
  BY <1>2, <1>3, <1>4, <1>5, <1>6 DEF LinkInv

(* A step of the timers alone *)
LEMMA TimersStep ==
  ASSUME LinkInv, UNCHANGED <<client, made, sock, leaving, overlapped>>, LinkTypeOK', TimersFitConnection',
         \A c \in Conn : c > made => onConnect'[c] = "none"
  PROVE  LinkInv'
<1>1. Made' /\ NoSocketLeft'
  BY DEF LinkInv, Made, NoSocketLeft
<1>2. Alone'
  BY DEF LinkInv, Alone, Inside
<1> QED
  BY <1>1, <1>2 DEF LinkInv
-----------------------------------------------------------------------------
LEMMA ButtonsKeep ==
  ASSUME LinkInv, ConnectButton \/ DisconnectButton
  PROVE  LinkInv'
<1>1. LinkTypeOK /\ Made /\ Alone /\ NoSocketLeft /\ TimersFitConnection
  BY DEF LinkInv
<1>2. CASE ConnectButton
  <2>1. /\ client = None /\ made < MaxConnects /\ made' = made + 1 /\ client' = made + 1
        /\ sock' = [sock EXCEPT ![made + 1] = "connecting"]
        /\ onConnect' = [onConnect EXCEPT ![made + 1] = "pending"]
        /\ UNCHANGED <<timerVars, tick, serverVars, messageVars, leaveVars, outOfTurn>>
    BY <1>2 DEF ConnectButton
  <2>2. made \in Nat /\ made + 1 \in Conn /\ made + 1 \in 0 .. MaxConnects
    BY <1>1, <2>1, ConnectAssumption DEF LinkTypeOK, Conn
  <2>3. LinkTypeOK'
    BY <1>1, <2>1, <2>2 DEF LinkTypeOK, timerVars, serverVars, messageVars, leaveVars
  <2>4. Made'
    BY <1>1, <2>1, <2>2 DEF Made, LinkTypeOK, Conn
  <2>5. NoSocketLeft'
    <3> SUFFICES ASSUME ~overlapped, NEW c \in 1 .. made + 1, c # made + 1 PROVE sock'[c] = "closed"
      BY <2>1 DEF NoSocketLeft, leaveVars
    <3>1. c \in 1 .. made /\ c # None /\ c \in Conn
      BY <2>1, <2>2, ConnectAssumption DEF None, Conn
    <3> QED
      BY <1>1, <2>1, <3>1 DEF NoSocketLeft, LinkTypeOK
  <2>6. TimersFitConnection'
    <3>1. Stopping' = Stopping
      BY <2>1 DEF Stopping, leaveVars
    <3> SUFFICES ASSUME ~outOfTurn, ~Stopping
                 PROVE  ticking = FALSE /\ running = {} /\ guardTimer = None
      BY <1>1, <2>1, <3>1 DEF TimersFitConnection, timerVars, messageVars
    <3>2. running \subseteq Conn /\ None \notin Conn
      BY <1>1 DEF LinkTypeOK, None, Conn
    <3> QED
      BY <1>1, <2>1, <3>2 DEF TimersFitConnection, LinkTypeOK
  <2>7. Alone'
    <3>1. Inside' = Inside
      BY <2>1 DEF Inside, leaveVars
    <3>2. ~overlapped => \A t \in Thread : leaving[t] # "forgetting"
      BY <1>1, <2>1 DEF Alone, Inside
    <3> QED
      BY <1>1, <2>1, <3>1, <3>2 DEF Alone, leaveVars
  <2> QED
    BY <2>3, <2>4, <2>5, <2>6, <2>7 DEF LinkInv
<1>3. CASE DisconnectButton
  <2>1. Disconnect(Main) /\ UNCHANGED <<clientVars, timerVars, tick, serverVars, messageVars, outOfTurn>>
    BY <1>3 DEF DisconnectButton
  <2> QED
    BY <1>1, <2>1, Threads, OthersKeep
       DEF LinkTypeOK, Made, clientVars, timerVars, serverVars, messageVars, SockStates, ConnectStates, TickStates
<1> QED
  BY <1>2, <1>3

LEMMA NetworkKeeps ==
  ASSUME LinkInv, NEW n \in Conn, Network(n)
  PROVE  LinkInv'
<1>1. LinkTypeOK /\ Made
  BY DEF LinkInv
<1>2. PICK s \in {"open", "failed", "lost"} :
        sock[n] \in {"connecting", "open"} /\ sock' = [sock EXCEPT ![n] = s]
  BY DEF Network
<1>3. UNCHANGED <<client, made, onConnect, timerVars, tick, serverVars, messageVars, leaveVars, outOfTurn>>
  BY DEF Network
<1>4. /\ sock' \in [Conn -> SockStates]
      /\ \A c \in Conn : sock[c] \in {"none", "closed"} => sock'[c] = sock[c]
  BY <1>1, <1>2 DEF LinkTypeOK, SockStates
<1> QED
  BY <1>1, <1>3, <1>4, OthersKeep
     DEF LinkTypeOK, Made, timerVars, serverVars, messageVars, ConnectStates, TickStates

(* The completion of a BeginConnect *)
LEMMA ClientThreadsKeep ==
  ASSUME LinkInv, NEW n \in Conn, ClientThreads(n)
  PROVE  LinkInv'
<1>1. LinkTypeOK /\ Made /\ TimersFitConnection
  BY DEF LinkInv
<1>2. onConnect[n] # "none" => n <= made
  BY <1>1 DEF Made, LinkTypeOK, Conn
<1>3. \A s \in {"connected", "sent", "ticking", "done"} :
        onConnect[n] # "none" =>
          LET o == [onConnect EXCEPT ![n] = s]
          IN  /\ o \in [Conn -> ConnectStates]
              /\ \A c \in Conn : c > made => o[c] = "none"
  BY <1>1, <1>2 DEF Made, LinkTypeOK, Conn, ConnectStates
<1>4. sock \in [Conn -> SockStates] /\ tick \in TickStates
  BY <1>1 DEF LinkTypeOK, SockStates, TickStates
<1>5. CASE OnConnect(n)
  <2>1. /\ UNCHANGED <<client, made, sock, timerVars, tick, serverVars, messageVars>>
        /\ onConnect[n] # "none"
        /\ \E s \in {"connected", "done"} : onConnect' = [onConnect EXCEPT ![n] = s]
    BY <1>5 DEF OnConnect
  <2>2. UNCHANGED <<leaveVars, outOfTurn>> \/ (Disconnect(<<"connect", n>>) /\ ActsFor(n))
    BY <1>5 DEF OnConnect
  <2>3. UNCHANGED leaveVars \/ \E t \in Thread : Disconnect(t)
    BY <2>2, Threads
  <2>4. outOfTurn' \in BOOLEAN /\ (~outOfTurn' => ~outOfTurn)
    BY <1>1, <2>2, OutOfTurn DEF LinkTypeOK
  <2>5. /\ onConnect' \in [Conn -> ConnectStates]
        /\ \A c \in Conn : c > made => onConnect'[c] = "none"
    BY <1>3, <2>1
  <2> QED
    BY <1>1, <1>4, <2>1, <2>3, <2>4, <2>5, OthersKeep DEF LinkTypeOK, timerVars, serverVars, messageVars
<1>6. CASE SendHandshake(n)
  <2>1. /\ UNCHANGED <<client, made, sock, timerVars, tick, serverVars, replies, validated>>
        /\ onConnect[n] # "none" /\ onConnect' = [onConnect EXCEPT ![n] = "sent"]
        /\ ActsFor(n)
    BY <1>6 DEF SendHandshake
  <2>2. \/ /\ client # None /\ requests' = [requests EXCEPT ![client] = @ + 1]
           /\ UNCHANGED leaveVars
        \/ /\ Disconnect(<<"connect", n>>)
           /\ UNCHANGED requests
    BY <1>6 DEF SendHandshake, Open
  <2>3. UNCHANGED leaveVars \/ \E t \in Thread : Disconnect(t)
    BY <2>2, Threads
  <2>4. requests' \in [Conn -> Nat]
    <3>1. client # None => client \in Conn
      BY <1>1 DEF LinkTypeOK, Conn, None
    <3> QED
      BY <1>1, <2>2, <3>1 DEF LinkTypeOK
  <2>5. outOfTurn' \in BOOLEAN /\ (~outOfTurn' => ~outOfTurn)
    BY <1>1, <2>1, OutOfTurn
  <2>6. /\ onConnect' \in [Conn -> ConnectStates]
        /\ \A c \in Conn : c > made => onConnect'[c] = "none"
    BY <1>3, <2>1
  <2> QED
    BY <1>1, <1>4, <2>1, <2>3, <2>4, <2>5, <2>6, OthersKeep DEF LinkTypeOK, timerVars, serverVars
<1>7. ASSUME onConnect[n] # "none",
             \/ outOfTurn' = (outOfTurn \/ client # n \/ Stopping)
             \/ outOfTurn' = (outOfTurn \/ client # n \/ n \in validated \/ Stopping)
      PROVE  outOfTurn' \in BOOLEAN /\ (~outOfTurn' => ~outOfTurn /\ client = n /\ ~Stopping)
  BY <1>1, <1>7 DEF LinkTypeOK, Stopping
<1>8. n # None
  BY DEF None, Conn
<1>9. CASE StartTick(n)
  <2>1. /\ onConnect[n] # "none" /\ onConnect' = [onConnect EXCEPT ![n] = "ticking"]
        /\ ticking' = TRUE /\ outOfTurn' = (outOfTurn \/ client # n \/ Stopping)
        /\ UNCHANGED <<client, made, sock, guardTimer, running, elapsed, tick, serverVars, messageVars, leaveVars>>
    BY <1>9 DEF StartTick
  <2>2. /\ onConnect' \in [Conn -> ConnectStates]
        /\ \A c \in Conn : c > made => onConnect'[c] = "none"
    BY <1>3, <2>1
  <2>3. LinkTypeOK'
    BY <1>1, <1>7, <2>1, <2>2 DEF LinkTypeOK, serverVars, messageVars, leaveVars, ConnectStates
  <2>4. TimersFitConnection'
    BY <1>1, <1>7, <1>8, <2>1 DEF TimersFitConnection, messageVars
  <2> QED
    BY <2>1, <2>2, <2>3, <2>4, TimersStep DEF leaveVars
<1>10. CASE Activate(n)
  <2>1. /\ onConnect[n] # "none" /\ onConnect' = [onConnect EXCEPT ![n] = "done"]
        /\ running' = running \cup {n} /\ guardTimer' = n
        /\ outOfTurn' = (outOfTurn \/ client # n \/ n \in validated \/ Stopping)
        /\ UNCHANGED <<client, made, sock, ticking, elapsed, tick, serverVars, messageVars, leaveVars>>
    BY <1>10 DEF Activate
  <2>2. ~outOfTurn' => n \notin validated
    BY <1>1, <2>1 DEF LinkTypeOK
  <2>3. /\ onConnect' \in [Conn -> ConnectStates]
        /\ \A c \in Conn : c > made => onConnect'[c] = "none"
    BY <1>3, <2>1
  <2>4. LinkTypeOK'
    BY <1>1, <1>7, <2>1, <2>3 DEF LinkTypeOK, serverVars, messageVars, leaveVars, ConnectStates
  <2>5. TimersFitConnection'
    <3> SUFFICES ASSUME ~outOfTurn'
                 PROVE  /\ running' = {n} /\ (ticking => client # None) /\ client = n
                        /\ running' \cap validated = {}
      BY <1>8, <2>1 DEF TimersFitConnection, messageVars
    <3>1. ~outOfTurn /\ client = n /\ ~Stopping
      BY <1>7, <2>1
    <3>2. running \subseteq {n} /\ (ticking => client # None)
      BY <1>1, <3>1 DEF TimersFitConnection
    <3> QED
      BY <2>1, <2>2, <3>1, <3>2
  <2> QED
    BY <2>1, <2>3, <2>4, <2>5, TimersStep DEF leaveVars
<1> QED
  BY <1>5, <1>6, <1>9, <1>10 DEF ClientThreads

LEMMA GuardKeeps ==
  ASSUME LinkInv, NEW n \in Conn, GuardThread(n)
  PROVE  LinkInv'
<1>1. LinkTypeOK /\ Made
  BY DEF LinkInv
<1>2. CASE GuardElapses(n)
  <2>1. /\ elapsed' = elapsed \cup {n}
        /\ UNCHANGED <<clientVars, ticking, guardTimer, running, tick, serverVars, messageVars, leaveVars, outOfTurn>>
    BY <1>2 DEF GuardElapses
  <2> QED
    BY <1>1, <2>1, OthersKeep
       DEF LinkTypeOK, Made, clientVars, serverVars, messageVars, SockStates, ConnectStates, TickStates
<1>3. CASE OnGuardingTimeout(n)
  <2>1. /\ elapsed' = elapsed \ {n} /\ Disconnect(<<"guard", n>>) /\ ActsFor(n)
        /\ UNCHANGED <<clientVars, ticking, guardTimer, running, tick, serverVars, messageVars>>
    BY <1>3 DEF OnGuardingTimeout
  <2>2. outOfTurn' \in BOOLEAN /\ (~outOfTurn' => ~outOfTurn)
    BY <1>1, <2>1, OutOfTurn
  <2> QED
    BY <1>1, <2>1, <2>2, Threads, OthersKeep
       DEF LinkTypeOK, Made, clientVars, serverVars, messageVars, SockStates, ConnectStates, TickStates
<1> QED
  BY <1>2, <1>3 DEF GuardThread
-----------------------------------------------------------------------------
LEMMA TickKeeps ==
  ASSUME LinkInv, TickThread
  PROVE  LinkInv'
<1>1. LinkTypeOK /\ Made /\ TimersFitConnection
  BY DEF LinkInv
<1>2. \A a \in {"idle", "alive", "checked", "validated"} :
        [tick EXCEPT !.at = a] \in TickStates /\ [tick EXCEPT !.at = a].at = a
  BY <1>1 DEF LinkTypeOK, TickStates
<1>3. /\ client \in 0 .. MaxConnects /\ None \in 0 .. MaxConnects
      /\ sock \in [Conn -> SockStates] /\ onConnect \in [Conn -> ConnectStates]
      /\ \A c \in Conn : c > made => onConnect[c] = "none"
      /\ outOfTurn \in BOOLEAN
  BY <1>1, ConnectAssumption DEF LinkTypeOK, Made, None, SockStates, ConnectStates
<1>4. \A a \in {"idle", "elapsed", "alive"}, c \in 0 .. MaxConnects : [at |-> a, conn |-> c] \in TickStates
  BY DEF TickStates
(* The steps that leave everything else *)
<1>5. ASSUME TickElapses \/ Tick \/ TickTooSoon PROVE LinkInv'
  <2>1. /\ UNCHANGED <<clientVars, timerVars, serverVars, messageVars, leaveVars, outOfTurn>>
        /\ tick.at # "validated"
    BY <1>5 DEF TickElapses, Tick, TickTooSoon
  <2>2. tick' \in TickStates
    BY <1>2, <1>3, <1>4, <1>5 DEF TickElapses, Tick, TickTooSoon, Resting
  <2> QED
    BY <1>1, <1>3, <2>1, <2>2, OthersKeep DEF LinkTypeOK, clientVars, timerVars, serverVars, messageVars
<1>6. CASE TickStatus
  <2>1. /\ tick.at = "alive" /\ tick' = [tick EXCEPT !.at = "checked"] /\ ActsFor(tick.conn)
        /\ UNCHANGED <<clientVars, timerVars, serverVars, messageVars>>
    BY <1>6 DEF TickStatus
  <2>2. UNCHANGED leaveVars \/ Disconnect(Ticker)
    BY <1>6 DEF TickStatus
  <2>3. UNCHANGED leaveVars \/ \E t \in Thread : Disconnect(t)
    BY <2>2, Threads
  <2>4. outOfTurn' \in BOOLEAN /\ (~outOfTurn' => ~outOfTurn)
    BY <1>1, <2>1, OutOfTurn
  <2> QED
    BY <1>1, <1>2, <1>3, <2>1, <2>3, <2>4, OthersKeep
       DEF LinkTypeOK, clientVars, timerVars, serverVars, messageVars
<1>7. CASE TickReceive
  <2>1. ActsFor(tick.conn) /\ tick.at = "checked" /\ UNCHANGED <<clientVars, timerVars, serverVars, requests>>
    BY <1>7 DEF TickReceive
  <2>2. outOfTurn' \in BOOLEAN /\ (~outOfTurn' => ~outOfTurn)
    BY <1>1, <2>1, OutOfTurn
  <2>3. CASE /\ client # None /\ replies' = [replies EXCEPT ![client] = @ - 1] /\ replies[client] > 0
             /\ validated' = validated \cup {client} /\ tick' = [tick EXCEPT !.at = "validated"]
             /\ UNCHANGED leaveVars
    <3>0. client \in Conn
      BY <1>1, <2>3 DEF LinkTypeOK, Conn, None
    <3>1. replies' \in [Conn -> Nat]
      BY <1>1, <2>3, <3>0 DEF LinkTypeOK
    <3>2. tick' \in TickStates /\ tick'.at = "validated"
      BY <1>2, <2>3
    <3>3. LinkTypeOK'
      BY <1>1, <2>1, <2>2, <2>3, <3>0, <3>1, <3>2
         DEF LinkTypeOK, clientVars, timerVars, serverVars, leaveVars, TickStates
    <3>4. TimersFitConnection'
      <4>1. Stopping' = Stopping
        BY <2>3 DEF Stopping, leaveVars
      <4> QED
        BY <1>1, <2>1, <2>2, <3>2, <4>1 DEF TimersFitConnection, clientVars, timerVars
    <3> QED
      BY <1>3, <2>1, <2>3, <3>3, <3>4, TimersStep DEF leaveVars, clientVars
  <2>4. CASE (UNCHANGED leaveVars \/ Disconnect(Ticker)) /\ UNCHANGED <<replies, validated>> /\ tick' \in TickStates
    <3>1. UNCHANGED leaveVars \/ \E t \in Thread : Disconnect(t)
      BY <2>4, Threads
    <3> QED
      BY <1>1, <1>3, <2>1, <2>2, <2>4, <3>1, OthersKeep DEF LinkTypeOK, clientVars, timerVars, serverVars
  <2>5. Resting \in TickStates
    BY <1>3, <1>4 DEF Resting
  <2> QED
    BY <1>2, <1>7, <2>3, <2>4, <2>5 DEF TickReceive, Open
<1>8. CASE TickValidated
  <2>1. /\ tick' = [tick EXCEPT !.at = "checked"] /\ ActsFor(tick.conn)
        /\ running' = running \ {guardTimer} /\ guardTimer' = None
        /\ UNCHANGED <<clientVars, ticking, elapsed, serverVars, messageVars, leaveVars>>
    BY <1>8 DEF TickValidated, Deactivate
  <2>2. tick' \in TickStates
    BY <1>2, <2>1
  <2>3. LinkTypeOK'
    BY <1>1, <2>1, <2>2, OutOfTurn DEF LinkTypeOK, clientVars, serverVars, messageVars, leaveVars, TickStates
  <2>4. TimersFitConnection'
    <3>1. Stopping' = Stopping
      BY <2>1 DEF Stopping, leaveVars
    <3> SUFFICES ASSUME ~outOfTurn' PROVE (ticking => client # None) \/ Stopping
                 BY <1>1, <2>1, <3>1, OutOfTurn DEF TimersFitConnection, clientVars, messageVars
    <3>2. ~outOfTurn
      BY <1>1, <2>1, OutOfTurn
    <3> QED
      BY <1>1, <3>2 DEF TimersFitConnection
  <2> QED
    BY <1>3, <2>1, <2>3, <2>4, TimersStep DEF leaveVars, clientVars
<1> QED
  BY <1>5, <1>6, <1>7, <1>8 DEF TickThread

(* The rest of Disconnect *)
LEMMA LeaveKeeps ==
  ASSUME LinkInv, NEW t \in Thread, Leave(t)
  PROVE  LinkInv'
<1>1. LinkTypeOK /\ Made /\ Alone /\ NoSocketLeft /\ TimersFitConnection
  BY DEF LinkInv
<1>2. /\ leaving \in [Thread -> LeaveStates] /\ overlapped \in BOOLEAN
      /\ client \in 0 .. MaxConnects /\ None \in 0 .. MaxConnects /\ (client # None => client \in Conn)
      /\ sock \in [Conn -> SockStates] /\ onConnect \in [Conn -> ConnectStates] /\ tick \in TickStates
  BY <1>1, ConnectAssumption DEF LinkTypeOK, LeaveStates, SockStates, ConnectStates, TickStates, None, Conn
<1>3. \A s \in LeaveStates : leaving' = [leaving EXCEPT ![t] = s] =>
        /\ leaving' \in [Thread -> LeaveStates]
        /\ \A u \in Thread : leaving'[u] = IF u = t THEN s ELSE leaving[u]
  BY <1>2
<1>4. CASE CloseClient(t)
  <2>1. /\ leaving[t] = "closing" /\ client # None /\ leaving' = [leaving EXCEPT ![t] = "forgetting"]
        /\ sock' = [sock EXCEPT ![client] = "closed"] /\ replies' = [replies EXCEPT ![client] = 0]
        /\ ActsFor(Concern(t))
        /\ UNCHANGED <<client, made, onConnect, timerVars, tick, serverVars, requests, validated, overlapped>>
    BY <1>4 DEF CloseClient
  <2>2. \A u \in Thread : leaving'[u] = IF u = t THEN "forgetting" ELSE leaving[u]
    BY <1>3, <2>1 DEF LeaveStates
  <2>3. \A c \in Conn : sock'[c] = IF c = client THEN "closed" ELSE sock[c]
    BY <1>2, <2>1
  <2>4. /\ leaving' \in [Thread -> LeaveStates] /\ sock' \in [Conn -> SockStates] /\ replies' \in [Conn -> Nat]
        /\ outOfTurn' \in BOOLEAN /\ (~outOfTurn' => ~outOfTurn)
    BY <1>1, <1>2, <1>3, <2>1, OutOfTurn DEF LeaveStates, SockStates, LinkTypeOK
  <2>5. LinkTypeOK'
    BY <1>1, <2>1, <2>4 DEF LinkTypeOK, timerVars, serverVars, LeaveStates, SockStates
  <2>6. Made'
    BY <1>1, <1>2, <2>1, <2>3 DEF Made, LinkTypeOK, Conn
  <2>7. Alone'
    <3>1. Inside' = Inside
      BY <2>1, <2>2 DEF Inside
    <3>2. sock'[client] = "closed"
      BY <1>2, <2>1, <2>3
    <3> QED
      BY <1>1, <2>1, <3>1, <3>2 DEF Alone
  <2>8. NoSocketLeft'
    <3> SUFFICES ASSUME ~overlapped, NEW c \in 1 .. made, c # client PROVE sock'[c] = "closed"
      BY <2>1 DEF NoSocketLeft
    <3>1. c \in Conn
      BY <1>1, ConnectAssumption DEF LinkTypeOK, Conn
    <3> QED
      BY <1>1, <2>3, <3>1 DEF NoSocketLeft
  <2>9. TimersFitConnection'
    <3>1. Stopping' <=> Stopping
      BY <2>1, <2>2 DEF Stopping
    <3> QED
      BY <1>1, <2>1, <2>4, <3>1 DEF TimersFitConnection, timerVars
  <2> QED
    BY <2>5, <2>6, <2>7, <2>8, <2>9 DEF LinkInv
<1>5. CASE CloseThrows(t)
  <2>1. /\ leaving[t] = "closing" /\ client = None /\ leaving' = [leaving EXCEPT ![t] = "out"]
        /\ tick' \in {Resting, tick}
        /\ onConnect' = [n \in Conn |-> IF t = <<"connect", n>> /\ onConnect[n] = "sent"
                                        THEN "thrown" ELSE onConnect[n]]
        /\ UNCHANGED <<client, made, sock, timerVars, serverVars, messageVars, overlapped, outOfTurn>>
    BY <1>5 DEF CloseThrows
  <2>2. leaving' \in [Thread -> LeaveStates] /\ \A u \in Thread : leaving'[u] = IF u = t THEN "out" ELSE leaving[u]
    BY <1>3, <2>1 DEF LeaveStates
  <2>3. tick' \in TickStates
    BY <1>2, <2>1 DEF Resting, TickStates
  <2>4. onConnect' \in [Conn -> ConnectStates] /\ \A c \in Conn : onConnect[c] = "none" => onConnect'[c] = "none"
    BY <1>2, <2>1 DEF ConnectStates
  <2>5. LinkTypeOK'
    BY <1>1, <2>1, <2>2, <2>3, <2>4
       DEF LinkTypeOK, timerVars, serverVars, messageVars, LeaveStates, TickStates, ConnectStates
  <2>6. Made' /\ NoSocketLeft'
    BY <1>1, <2>1, <2>4 DEF Made, NoSocketLeft
  <2>7. Alone'
    <3>1. overlapped
      BY <1>1, <2>1 DEF Alone, Inside
    <3> QED
      BY <2>1, <3>1 DEF Alone
  <2>8. TimersFitConnection'
    <3>1. Stopping' <=> Stopping
      BY <2>1, <2>2 DEF Stopping
    <3>2. None \notin running
      BY <1>1 DEF LinkTypeOK, Conn, None
    <3>3. ~outOfTurn /\ ~Stopping => running = {}
      BY <1>1, <2>1, <3>2 DEF TimersFitConnection
    <3> QED
      BY <1>1, <2>1, <3>1, <3>3 DEF TimersFitConnection, timerVars, messageVars
  <2> QED
    BY <2>5, <2>6, <2>7, <2>8 DEF LinkInv
<1>6. CASE ForgetClient(t)
  <2>1. /\ leaving[t] = "forgetting" /\ leaving' = [leaving EXCEPT ![t] = "stopping"]
        /\ client' = None /\ ActsFor(Concern(t))
        /\ UNCHANGED <<made, sock, onConnect, timerVars, tick, serverVars, messageVars, overlapped>>
    BY <1>6 DEF ForgetClient
  <2>2. leaving' \in [Thread -> LeaveStates] /\ \A u \in Thread : leaving'[u] = IF u = t THEN "stopping" ELSE leaving[u]
    BY <1>3, <2>1 DEF LeaveStates
  <2>3. outOfTurn' \in BOOLEAN /\ (~outOfTurn' => ~outOfTurn)
    BY <1>1, <2>1, OutOfTurn
  <2>4. LinkTypeOK'
    BY <1>1, <1>2, <2>1, <2>2, <2>3 DEF LinkTypeOK, timerVars, serverVars, messageVars, LeaveStates
  <2>5. Made'
    BY <1>1, <2>1 DEF Made, LinkTypeOK, None
  <2>6. ~overlapped => \A u \in Thread : leaving'[u] \notin {"closing", "forgetting"}
    BY <1>1, <2>1, <2>2 DEF Alone, Inside
  <2>7. Alone'
    BY <2>1, <2>6 DEF Alone, Inside
  <2>8. NoSocketLeft'
    <3> SUFFICES ASSUME ~overlapped, NEW c \in 1 .. made PROVE sock[c] = "closed"
      BY <2>1 DEF NoSocketLeft
    <3>1. sock[client] = "closed"
      BY <1>1, <2>1 DEF Alone
    <3> QED
      BY <1>1, <3>1 DEF NoSocketLeft
  <2>9. TimersFitConnection'
    <3>1. Stopping'
      BY <2>2 DEF Stopping
    <3> QED
      BY <1>1, <2>1, <2>3, <3>1 DEF TimersFitConnection, timerVars
  <2> QED
    BY <2>4, <2>5, <2>7, <2>8, <2>9 DEF LinkInv
<1>7. CASE StopTimers(t)
  <2>1. /\ leaving[t] = "stopping" /\ leaving' = [leaving EXCEPT ![t] = "out"]
        /\ ticking' = FALSE /\ running' = running \ {guardTimer} /\ guardTimer' = None
        /\ UNCHANGED <<clientVars, elapsed, tick, serverVars, messageVars, overlapped, outOfTurn>>
    BY <1>7 DEF StopTimers, Deactivate
  <2>2. leaving' \in [Thread -> LeaveStates] /\ \A u \in Thread : leaving'[u] = IF u = t THEN "out" ELSE leaving[u]
    BY <1>3, <2>1 DEF LeaveStates
  <2>3. LinkTypeOK'
    BY <1>1, <2>1, <2>2 DEF LinkTypeOK, clientVars, serverVars, messageVars, LeaveStates
  <2>4. Made' /\ NoSocketLeft'
    BY <1>1, <2>1 DEF Made, NoSocketLeft, clientVars
  <2>5. Alone'
    <3>1. Inside' = Inside /\ \A u \in Thread : leaving'[u] = "forgetting" => leaving[u] = "forgetting"
      BY <2>1, <2>2 DEF Inside
    <3> QED
      BY <1>1, <2>1, <3>1 DEF Alone, clientVars
  <2>6. TimersFitConnection'
    <3> SUFFICES ASSUME ~outOfTurn PROVE running' = {}
      BY <2>1 DEF TimersFitConnection, clientVars, messageVars
    <3> QED
      BY <1>1, <2>1 DEF TimersFitConnection
  <2> QED
    BY <2>3, <2>4, <2>5, <2>6 DEF LinkInv
<1> QED
  BY <1>4, <1>5, <1>6, <1>7 DEF Leave

LEMMA ServerKeeps ==
  ASSUME LinkInv, ServerReads \/ ServerAnswers \/ \E n \in Conn : Accept(n)
  PROVE  LinkInv'
<1>1. LinkTypeOK /\ Made
  BY DEF LinkInv
<1>2. sock \in [Conn -> SockStates] /\ onConnect \in [Conn -> ConnectStates] /\ tick \in TickStates
  BY <1>1 DEF LinkTypeOK, SockStates, ConnectStates, TickStates
<1>3. CASE ServerReads
  <2>1. /\ requests[peer] > 0 /\ requests' = [requests EXCEPT ![peer] = @ - 1] /\ asked' = TRUE
        /\ peer # None
        /\ UNCHANGED <<clientVars, timerVars, tick, peer, replies, validated, leaveVars, outOfTurn>>
    BY <1>3 DEF ServerReads
  <2>2. requests' \in [Conn -> Nat]
    <3>1. peer \in Conn
      BY <1>1, <2>1 DEF LinkTypeOK, Conn, None
    <3> QED
      BY <1>1, <2>1, <3>1 DEF LinkTypeOK
  <2> QED
    BY <1>1, <1>2, <2>1, <2>2, OthersKeep DEF LinkTypeOK, Made, clientVars, timerVars
<1>4. CASE ServerAnswers
  <2>1. /\ replies' = IF sock[peer] = "open" THEN [replies EXCEPT ![peer] = @ + 1] ELSE replies
        /\ asked' = FALSE
        /\ UNCHANGED <<clientVars, timerVars, tick, peer, requests, validated, leaveVars, outOfTurn>>
    BY <1>4 DEF ServerAnswers
  <2>2. replies' \in [Conn -> Nat]
    <3>1. CASE peer \in Conn
      BY <1>1, <2>1, <3>1 DEF LinkTypeOK
    <3>2. CASE peer \notin Conn
      BY <1>1, <2>1, <3>2 DEF LinkTypeOK
    <3> QED
      BY <3>1, <3>2
  <2> QED
    BY <1>1, <1>2, <2>1, <2>2, OthersKeep DEF LinkTypeOK, Made, clientVars, timerVars
<1>5. ASSUME NEW n \in Conn, Accept(n) PROVE LinkInv'
  <2>1. /\ peer' = n
        /\ UNCHANGED <<clientVars, timerVars, tick, asked, messageVars, leaveVars, outOfTurn>>
    BY <1>5 DEF Accept
  <2>2. peer' \in 0 .. MaxConnects
    BY <2>1, ConnectAssumption DEF Conn
  <2> QED
    BY <1>1, <1>2, <2>1, <2>2, OthersKeep DEF LinkTypeOK, Made, clientVars, timerVars, messageVars
<1> QED
  BY <1>3, <1>4, <1>5

LEMMA NextLinkInv == LinkInv /\ [LinkNext]_linkVars => LinkInv'
<1> SUFFICES ASSUME LinkInv, [LinkNext]_linkVars PROVE LinkInv'
  OBVIOUS
<1>1. CASE ConnectButton \/ DisconnectButton
  BY <1>1, ButtonsKeep
<1>2. CASE TickThread
  BY <1>2, TickKeeps
<1>3. CASE ServerReads \/ ServerAnswers \/ \E n \in Conn : Accept(n)
  BY <1>3, ServerKeeps
<1>4. CASE \E n \in Conn : Network(n)
  BY <1>4, NetworkKeeps
<1>5. CASE \E n \in Conn : ClientThreads(n)
  BY <1>5, ClientThreadsKeep
<1>6. CASE \E n \in Conn : GuardThread(n)
  BY <1>6, GuardKeeps
<1>7. CASE \E t \in Thread : Leave(t)
  BY <1>7, LeaveKeeps
<1>8. CASE UNCHANGED linkVars
  <2>1. /\ UNCHANGED <<client, made, sock, onConnect, ticking, guardTimer, running, elapsed, tick, peer, asked>>
        /\ UNCHANGED <<requests, replies, validated, leaving, overlapped, outOfTurn>>
    BY <1>8 DEF linkVars, clientVars, timerVars, serverVars, messageVars, leaveVars
  <2>2. LinkTypeOK' /\ \A c \in Conn : c > made => onConnect'[c] = "none"
    BY <2>1 DEF LinkInv, LinkTypeOK, Made
  <2>3. TimersFitConnection'
    BY <2>1 DEF LinkInv, TimersFitConnection, Stopping
  <2> QED
    BY <2>1, <2>2, <2>3, TimersStep
<1> QED
  BY <1>1, <1>2, <1>3, <1>4, <1>5, <1>6, <1>7, <1>8 DEF LinkNext
-----------------------------------------------------------------------------
(* The fields of NetClient, NetManager, NetGuardTimer and UsNet hold what  *)
(* they are meant to hold: _timer, if set, is a timer that runs.           *)
THEOREM NetLinkTypes == LinkSpec => []LinkTypeOK
<1>1. LinkInv => LinkTypeOK
  BY DEF LinkInv
<1> QED
  BY InitLinkInv, NextLinkInv, <1>1, PTL DEF LinkSpec

(* However buttons, failures, timeouts and completions fall together, every*)
(* TcpClient but the current one is closed, unless two threads have been   *)
(* between the test and the null of Disconnect at once                     *)
(* (NetClient.cs:40-62).                                                   *)
THEOREM NetLinkLeavesNoSocket == LinkSpec => []NoSocketLeft
<1>1. LinkInv => NoSocketLeft
  BY DEF LinkInv
<1> QED
  BY InitLinkInv, NextLinkInv, <1>1, PTL DEF LinkSpec

(* The tick timer and the guard timer are those of the current connection, *)
(* and an answered connection has no guard, as long as no thread has acted *)
(* out of turn and none is on the way to stop them                         *)
(* (NetManager.cs:104-139, NetGuardTimer.cs:36-50).                        *)
THEOREM NetLinkTimersFit == LinkSpec => []TimersFitConnection
<1>1. LinkInv => TimersFitConnection
  BY DEF LinkInv
<1> QED
  BY InitLinkInv, NextLinkInv, <1>1, PTL DEF LinkSpec
=============================================================================
