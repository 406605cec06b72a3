------------------------- MODULE NolockQueueProofs -------------------------
(***************************************************************************)
(* What the run of NolockQueue shows on a ring with two data nodes, for    *)
(* every capacity, every width of the counters and every set of events.    *)
(***************************************************************************)
EXTENDS NolockQueue, TLAPS

(* The capacity is a number and the counters are wide enough for it.       *)
LEMMA CapacityFact ==
  /\ Capacity \in Nat
  /\ Capacity >= 2
  /\ UintSize \in Nat
  /\ 2 * Capacity < UintSize
  /\ NodeCount = Capacity + 2
  /\ NoEvent \notin Event
BY QueueAssumption DEF QueueAssumption, Capacity, MIN_QUEUE_CAPACITY, NodeCount

(* Links stay on the ring, compose, and do not meet within one turn.       *)
LEMMA RingLinks ==
  ASSUME NEW n \in Node
  PROVE  /\ At(n, 0) = n
         /\ Nxt(n) = At(n, 1)
         /\ \A k \in 0 .. NodeCount : At(n, k) \in Node
         /\ \A k \in 0 .. NodeCount - 1 : Nxt(At(n, k)) = At(n, k + 1)
         /\ \A k \in 0 .. NodeCount - 1 : At(Nxt(n), k) = At(n, k + 1)
         /\ \A i, j \in 0 .. NodeCount - 1 : i # j => At(n, i) # At(n, j)
BY CapacityFact DEF Node, At, Nxt

LEMMA CounterInt == \A a, s \in Uint : QintValue(a, s) \in Int
BY CapacityFact DEF Uint, UintDiff, QintValue

(* Adding to _add_ref or _sub_ref moves the signed difference by one, also *)
(* when the counter wraps.                                                 *)
LEMMA CounterStep ==
  ASSUME NEW a \in Uint, NEW s \in Uint,
         0 <= QintValue(a, s), QintValue(a, s) <= Capacity
  PROVE  /\ QintValue(a, s) \in Int
         /\ UintInc(a) \in Uint
         /\ UintInc(s) \in Uint
         /\ QintValue(a, s) < Capacity => QintValue(UintInc(a), s) = QintValue(a, s) + 1
         /\ 0 < QintValue(a, s) => QintValue(a, UintInc(s)) = QintValue(a, s) - 1
BY CapacityFact DEF Uint, UintInc, UintDiff, QintValue
-----------------------------------------------------------------------------
(* Whatever the uncleared nodes held, the invariant holds at the start.    *)
LEMMA InitIInv == Init => IInv
<1> SUFFICES ASSUME Init PROVE IInv
    OBVIOUS
<1> USE CapacityFact
<1>1. Size = 0
      BY DEF Init, Size, QintValue, UintDiff
<1>2. Enclosed = 0
      BY <1>1 DEF Enclosed, Init
<1>3. TypeOK
  <2>1. PICK garbage \in [{1, 2} -> PtrOrNull] :
          data = [n \in Node |-> IF n \in {1, 2} THEN garbage[n] ELSE NoEvent]
        BY DEF Init
  <2>2. data \in [Node -> PtrOrNull]
        BY <2>1 DEF PtrOrNull
  <2> QED BY <2>2 DEF TypeOK, Init, Node, Uint, PtrOrNull
<1>4. LocalsOK
      BY DEF LocalsOK, Init
<1>5. SizeOK
      BY <1>1 DEF SizeOK, Init
<1>6. RingOK
      BY <1>2 DEF RingOK, Init, At
<1> QED BY <1>3, <1>4, <1>5, <1>6 DEF IInv

LEMMA NextIInv == IInv /\ [Next]_vars => IInv'
<1> SUFFICES ASSUME IInv, [Next]_vars PROVE IInv'
    OBVIOUS
<1> USE CapacityFact DEF IInv
<1>sz. /\ Size \in 0 .. Capacity
       /\ UintInc(add) \in Uint
       /\ UintInc(sub) \in Uint
       /\ Size < Capacity => QintValue(UintInc(add), sub) = Size + 1
       /\ 0 < Size => QintValue(add, UintInc(sub)) = Size - 1
       BY CounterStep DEF TypeOK, SizeOK, Size
<1>hd. /\ Nxt(head) \in Node /\ Nxt(Nxt(head)) = At(head, 2) /\ At(head, 2) \in Node
       /\ Nxt(tail) = At(head, Enclosed + 2) /\ Nxt(tail) \in Node
       /\ Enclosed \in 0 .. Capacity
       /\ \A k \in 0 .. NodeCount : At(head, k) \in Node
       /\ \A k \in 0 .. NodeCount - 1 : At(Nxt(head), k) = At(head, k + 1)
       /\ \A i, j \in 0 .. NodeCount - 1 : i # j => At(head, i) # At(head, j)
  <2>1. head \in Node /\ tail = At(head, Enclosed + 1)
        BY DEF TypeOK, RingOK
  <2>2. Enclosed \in 0 .. Capacity
        BY <1>sz DEF Enclosed, SizeOK
  <2> QED BY <2>1, <2>2, RingLinks
<1>1. ASSUME NEW e \in Event, PushCall(e) PROVE IInv'
  <2> USE <1>1 DEF PushCall, consumerVars
  <2>1. Size' = Size /\ Enclosed' = Enclosed
        BY DEF Size, Enclosed
  <2>2. TypeOK'
        BY DEF TypeOK, PtrOrNull
  <2>3. LocalsOK'
        BY DEF LocalsOK
  <2>4. SizeOK'
        BY <2>1 DEF SizeOK
  <2>5. RingOK'
        BY <2>1 DEF RingOK
  <2> QED BY <2>2, <2>3, <2>4, <2>5
<1>2. CASE PushSleep \/ PushWake \/ PushTest
  <2> USE <1>2 DEF PushSleep, PushWake, PushTest, consumerVars
  <2>1. Size' = Size /\ Enclosed' = Enclosed
        BY DEF Size, Enclosed
  <2>2. TypeOK'
        BY DEF TypeOK
  <2>3. LocalsOK'
        BY DEF LocalsOK
  <2>4. SizeOK'
        BY <2>1 DEF SizeOK
  <2>5. RingOK'
        BY <2>1 DEF RingOK
  <2> QED BY <2>2, <2>3, <2>4, <2>5
<1>3. CASE PushWrite
  <2> USE <1>3 DEF PushWrite, consumerVars
  <2>1. Size' = Size /\ Enclosed' = Enclosed
        BY DEF Size, Enclosed
  <2>2. TypeOK'
        BY <1>hd DEF TypeOK
  <2>3. LocalsOK'
        BY DEF LocalsOK
  <2>4. SizeOK'
        BY <2>1 DEF SizeOK
  <2>5. \A k \in 0 .. Enclosed + 1 : data'[At(head, k)] = data[At(head, k)]
    <3>1. Enclosed < Capacity
          BY <1>sz DEF SizeOK, Enclosed
    <3>2. \A k \in 0 .. Enclosed + 1 : At(head, k) # Nxt(tail) /\ At(head, k) \in Node
          BY <1>hd, <3>1
    <3> QED BY <3>2 DEF TypeOK
  <2>6. data'[Nxt(tail)] = pending
        BY <1>hd DEF TypeOK
  <2>7. pcC = "clear" => Enclosed >= 1
        BY <1>sz DEF SizeOK, Enclosed
  <2>8. RingOK'
        BY <1>hd, <2>1, <2>5, <2>6, <2>7 DEF RingOK
  <2> QED BY <2>2, <2>3, <2>4, <2>8
<1>4. CASE PushAdvance
  <2> USE <1>4 DEF PushAdvance, consumerVars
  <2>1. Size' = Size /\ Enclosed' = Enclosed + 1
        BY <1>sz DEF Size, Enclosed
  <2>2. TypeOK'
        BY <1>hd DEF TypeOK
  <2>3. LocalsOK'
        BY DEF LocalsOK
  <2>4. SizeOK'
        BY <2>1 DEF SizeOK
  <2>5. pending \in Event
        BY DEF TypeOK, LocalsOK, PtrOrNull
  <2>6. pcC = "advance" => Enclosed >= 1
        BY <1>sz DEF SizeOK, Enclosed
  <2>7. RingOK'
        BY <1>hd, <2>1, <2>5, <2>6 DEF RingOK
  <2> QED BY <2>2, <2>3, <2>4, <2>7
<1>5. CASE PushPublish
  <2> USE <1>5 DEF PushPublish, consumerVars
  <2>1. Size' = Size + 1 /\ Enclosed' = Enclosed
        BY <1>sz DEF Size, Enclosed, SizeOK
  <2>2. TypeOK'
        BY <1>sz DEF TypeOK, PtrOrNull
  <2>3. LocalsOK'
        BY DEF LocalsOK
  <2>4. SizeOK'
        BY <1>sz, <2>1 DEF SizeOK
  <2>5. RingOK'
        BY <2>1 DEF RingOK
  <2> QED BY <2>2, <2>3, <2>4, <2>5
<1>6. CASE PopTest
  <2> USE <1>6 DEF PopTest, producerVars
  <2>1. Size' = Size /\ Enclosed' = Enclosed
        BY DEF Size, Enclosed
  <2>2. TypeOK'
        BY DEF TypeOK
  <2>3. LocalsOK'
        BY DEF LocalsOK
  <2>4. SizeOK'
        BY <2>1 DEF SizeOK
  <2>5. RingOK'
        BY <2>1 DEF RingOK
  <2> QED BY <2>2, <2>3, <2>4, <2>5
<1>7. CASE PopRead
  <2> USE <1>7 DEF PopRead, producerVars
  <2>1. Size' = Size /\ Enclosed' = Enclosed
        BY DEF Size, Enclosed
  <2>2. data[At(head, 2)] \in Event
    <3>1. Enclosed >= 1
          BY <1>sz DEF SizeOK, Enclosed
    <3> QED BY <1>hd, <3>1 DEF RingOK
  <2>3. TypeOK'
        BY <1>hd DEF TypeOK
  <2>4. LocalsOK'
        BY <1>hd, <2>2 DEF LocalsOK
  <2>5. SizeOK'
        BY <2>1 DEF SizeOK
  <2>6. RingOK'
        BY <1>hd, <2>1 DEF RingOK
  <2> QED BY <2>3, <2>4, <2>5, <2>6
<1>8. CASE PopClear
  <2> USE <1>8 DEF PopClear, producerVars
  <2>1. Size' = Size /\ Enclosed' = Enclosed
        BY DEF Size, Enclosed
  <2>2. TypeOK'
        BY <1>hd DEF TypeOK, PtrOrNull
  <2>3. LocalsOK'
        BY DEF LocalsOK
  <2>4. SizeOK'
        BY <2>1 DEF SizeOK
  <2>5. /\ Enclosed >= 1
        /\ pcP \in {"write", "advance"} => Enclosed < Capacity
        /\ pcP = "publish" => Enclosed >= 2
        BY <1>sz DEF SizeOK, Enclosed
  <2>6. \A k \in 0 .. NodeCount - 1 :
          k # 2 => data'[At(head, k)] = data[At(head, k)]
        BY <1>hd DEF TypeOK
  <2>7. pcP = "advance" => data'[Nxt(tail)] = data[Nxt(tail)]
        BY <1>hd, <2>5, <2>6
  <2>8. pcP = "publish" => data'[tail] = data[tail]
        BY <1>hd, <2>5, <2>6 DEF RingOK
  <2>9. RingOK'
        BY <1>hd, <2>1, <2>5, <2>6, <2>7, <2>8 DEF RingOK
  <2> QED BY <2>2, <2>3, <2>4, <2>9
<1>9. CASE PopAdvance
  <2> USE <1>9 DEF PopAdvance, producerVars
  <2>1. Size' = Size /\ Enclosed' = Enclosed - 1 /\ Enclosed >= 1
        BY <1>sz DEF Size, Enclosed, SizeOK
  <2>2. TypeOK'
        BY <1>hd DEF TypeOK
  <2>3. LocalsOK'
        BY DEF LocalsOK
  <2>4. SizeOK'
        BY <2>1 DEF SizeOK
  <2>5. RingOK'
        BY <1>hd, <2>1 DEF RingOK
  <2> QED BY <2>2, <2>3, <2>4, <2>5
<1>10. CASE PopConsume
  <2> USE <1>10 DEF PopConsume, producerVars
  <2>1. Size' = Size - 1 /\ Enclosed' = Enclosed
        BY <1>sz DEF Size, Enclosed, SizeOK
  <2>2. TypeOK'
        BY <1>sz DEF TypeOK
  <2>3. LocalsOK'
        BY DEF LocalsOK
  <2>4. SizeOK'
        BY <1>sz, <2>1 DEF SizeOK
  <2>5. RingOK'
        BY <2>1 DEF RingOK
  <2> QED BY <2>2, <2>3, <2>4, <2>5
<1>11. CASE Handle
  <2> USE <1>11 DEF Handle, producerVars
  <2>1. Size' = Size /\ Enclosed' = Enclosed
        BY DEF Size, Enclosed
  <2>2. TypeOK'
        BY DEF TypeOK, PtrOrNull
  <2>3. LocalsOK'
        BY DEF LocalsOK
  <2>4. SizeOK'
        BY <2>1 DEF SizeOK
  <2>5. RingOK'
        BY <2>1 DEF RingOK
  <2> QED BY <2>2, <2>3, <2>4, <2>5
<1>12. CASE UNCHANGED vars
       BY <1>12 DEF vars, producerVars, consumerVars, TypeOK, LocalsOK, SizeOK, RingOK,
                    Enclosed, Size
<1> QED BY <1>1, <1>2, <1>3, <1>4, <1>5, <1>6, <1>7, <1>8, <1>9, <1>10, <1>11, <1>12
        DEF Next, PushStep, PopStep

(* The inductive invariant: types, locals, sizes and the shape of the ring. *)
THEOREM QueueInvariant == Spec => []IInv
<1>1. Init => IInv
      BY InitIInv
<1>2. IInv /\ [Next]_vars => IInv'
      BY NextIInv
<1> QED BY <1>1, <1>2, PTL DEF Spec

(* No event is lost to a NULL read, for every capacity and counter width.  *)
THEOREM QueueNoNullReceived == Spec => []NoNullReceived
<1>1. IInv => NoNullReceived
      BY CapacityFact DEF IInv, LocalsOK, NoNullReceived
<1> QED BY <1>1, QueueInvariant, PTL

(* The producer's write and the consumer's read and clear never meet.      *)
THEOREM QueueNoDataRace == Spec => []NoDataRace
<1>1. IInv => NoDataRace
  <2> SUFFICES ASSUME IInv, pcP = "write", pcC \in {"read", "clear"}
               PROVE  Nxt(tail) # Nxt(Nxt(head))
      BY DEF NoDataRace
  <2> USE CapacityFact
  <2>1. Size \in Int /\ 0 < Size /\ Size < Capacity /\ Enclosed = Size
        BY CounterInt DEF IInv, TypeOK, SizeOK, Size, Enclosed
  <2>2. head \in Node /\ tail = At(head, Enclosed + 1)
        BY DEF IInv, TypeOK, RingOK
  <2>3. Nxt(tail) = At(head, Enclosed + 2) /\ Nxt(Nxt(head)) = At(head, 2)
        BY <2>1, <2>2, RingLinks
  <2> QED BY <2>1, <2>2, <2>3, RingLinks
<1> QED BY <1>1, QueueInvariant, PTL
-----------------------------------------------------------------------------
(* The events in transit form a sequence no longer than the capacity.      *)
TransitOK ==
  /\ Size \in Nat /\ Size <= Capacity
  /\ Unread \in Nat /\ Unread <= Size
  /\ Enclosed \in 0 .. Capacity
  /\ FirstUnread + Unread <= Enclosed + 2
  /\ InTransit \in Seq(Event)
  /\ Len(InTransit) = Unread

LEMMA TransitFacts == IInv => TransitOK
<1> SUFFICES ASSUME IInv PROVE TransitOK
    OBVIOUS
<1> USE CapacityFact
<1>1. Size \in Nat /\ Size <= Capacity
      BY CounterInt DEF IInv, TypeOK, SizeOK, Size
<1>2. /\ Unread \in Nat /\ Unread <= Size
      /\ Enclosed \in 0 .. Capacity
      /\ FirstUnread + Unread <= Enclosed + 2
      BY <1>1 DEF IInv, SizeOK, Unread, Taken, Enclosed, FirstUnread
<1>3. ASSUME NEW k \in 1 .. Unread PROVE data[At(head, FirstUnread + k - 1)] \in Event
  <2>1. FirstUnread + k - 1 \in 2 .. Enclosed + 1
        BY <1>2 DEF FirstUnread
  <2>2. FirstUnread + k - 1 = 2 => pcC # "advance"
        BY DEF FirstUnread
  <2> QED BY <2>1, <2>2 DEF IInv, RingOK
<1>4. InTransit \in Seq(Event) /\ Len(InTransit) = Unread
      BY <1>2, <1>3 DEF InTransit
<1> QED BY <1>1, <1>2, <1>4 DEF TransitOK

LEMMA InitRefines == Init => Fifo!FifoInit
<1> SUFFICES ASSUME Init PROVE Fifo!FifoInit
    OBVIOUS
<1>1. IInv
      BY InitIInv
<1>2. Size = 0 /\ Unread = 0
      BY CapacityFact DEF Init, Size, QintValue, UintDiff, Unread, Taken
<1>3. InTransit = <<>>
      BY <1>1, <1>2, TransitFacts DEF TransitOK
<1> QED BY <1>3 DEF Init, Fifo!FifoInit

(* PushPublish is the abstract Enqueue, PopRead the abstract Dequeue, Handle *)
(* the abstract Release; every other step leaves the events in transit alone. *)
LEMMA NextRefines == IInv /\ IInv' /\ [Next]_vars => [Fifo!FifoNext]_(Fifo!fifoVars)
<1> SUFFICES ASSUME IInv, IInv', [Next]_vars PROVE [Fifo!FifoNext]_(Fifo!fifoVars)
    OBVIOUS
<1> USE CapacityFact
<1>t. /\ Size \in Nat /\ Size <= Capacity
      /\ Unread \in Nat /\ Unread <= Size
      /\ Enclosed \in 0 .. Capacity
      /\ FirstUnread + Unread <= Enclosed + 2
      /\ InTransit \in Seq(Event) /\ Len(InTransit) = Unread
      /\ \A k \in 1 .. Unread : InTransit[k] = data[At(head, FirstUnread + k - 1)]
      BY TransitFacts DEF TransitOK, InTransit
<1>u. /\ Unread' \in Nat
      /\ InTransit' \in Seq(Event) /\ Len(InTransit') = Unread'
      /\ \A k \in 1 .. Unread' : InTransit'[k] = data'[At(head', FirstUnread' + k - 1)]
  <2>1. InTransit' = [k \in 1 .. Unread' |-> data'[At(head', FirstUnread' + k - 1)]]
        BY DEF InTransit
  <2>2. TransitOK'
        BY TransitFacts, PTL
  <2> QED BY <2>1, <2>2 DEF TransitOK
<1>sz. /\ Size < Capacity => QintValue(UintInc(add), sub) = Size + 1
       /\ 0 < Size => QintValue(add, UintInc(sub)) = Size - 1
       BY CounterStep DEF IInv, TypeOK, SizeOK, Size
<1>hd. /\ head \in Node
       /\ Nxt(tail) = At(head, Enclosed + 2)
       /\ Nxt(Nxt(head)) = At(head, 2)
       /\ \A k \in 0 .. NodeCount - 1 : At(head, k) \in Node /\ At(Nxt(head), k) = At(head, k + 1)
       /\ \A i, j \in 0 .. NodeCount - 1 : i # j => At(head, i) # At(head, j)
  <2>1. head \in Node /\ tail = At(head, Enclosed + 1)
        BY DEF IInv, TypeOK, RingOK
  <2> QED BY <2>1, <1>t, RingLinks
<1> DEFINE Same == InTransit' = InTransit
<1>same. ASSUME Unread' = Unread,
                \A k \in 1 .. Unread :
                  data'[At(head', FirstUnread' + k - 1)] = data[At(head, FirstUnread + k - 1)]
         PROVE  Same
         BY <1>t, <1>u, <1>same
<1>1. ASSUME NEW e \in Event, PushCall(e) PROVE Fifo!Offer(e)
  <2>1. Same
        BY <1>1 DEF PushCall, consumerVars, InTransit, Unread, FirstUnread, Taken, Size
  <2> QED BY <1>1, <2>1 DEF PushCall, consumerVars, IInv, LocalsOK, Fifo!Offer
<1>2. CASE PushSleep \/ PushWake \/ PushTest \/ PushAdvance
  <2>1. Same /\ UNCHANGED <<pending, dbgInfo>>
        BY <1>2 DEF PushSleep, PushWake, PushTest, PushAdvance, consumerVars,
                    InTransit, Unread, FirstUnread, Taken, Size
  <2> QED BY <2>1 DEF Fifo!fifoVars
<1>3. CASE PushWrite
  <2> USE <1>3 DEF PushWrite, consumerVars
  <2>1. Unread' = Unread /\ FirstUnread' = FirstUnread
        BY DEF Unread, FirstUnread, Taken, Size
  <2>2. Enclosed < Capacity
        BY <1>t DEF IInv, SizeOK, Enclosed
  <2>3. ASSUME NEW k \in 1 .. Unread
        PROVE  data'[At(head, FirstUnread + k - 1)] = data[At(head, FirstUnread + k - 1)]
    <3>1. FirstUnread + k - 1 \in 2 .. Enclosed + 1
          BY <1>t DEF FirstUnread
    <3>2. At(head, FirstUnread + k - 1) # Nxt(tail)
          BY <1>hd, <2>2, <3>1, <1>t
    <3> QED BY <3>1, <3>2, <1>hd, <2>2, <1>t DEF IInv, TypeOK
  <2>4. Same
        BY <1>same, <2>1, <2>3
  <2> QED BY <2>4 DEF Fifo!fifoVars
<1>4. CASE PushPublish
  <2> USE <1>4 DEF PushPublish, consumerVars
  <2>1. Size < Capacity /\ Size' = Size + 1
        BY <1>sz DEF IInv, SizeOK, Size
  <2>2. Unread' = Unread + 1 /\ FirstUnread' = FirstUnread
        BY <2>1, <1>t DEF Unread, FirstUnread, Taken
  <2>3. pending \in Event /\ data[tail] = pending /\ tail = At(head, Enclosed + 1)
        BY DEF IInv, TypeOK, LocalsOK, RingOK, PtrOrNull
  <2>4. FirstUnread + Unread = Enclosed + 1
        BY <1>t DEF FirstUnread, Unread, Taken, Enclosed
  <2>5. InTransit' = Append(InTransit, pending)
    <3>1. /\ Append(InTransit, pending) \in Seq(Event)
          /\ Len(Append(InTransit, pending)) = Unread + 1
          /\ \A k \in 1 .. Unread : Append(InTransit, pending)[k] = InTransit[k]
          /\ Append(InTransit, pending)[Unread + 1] = pending
          BY <1>t, <2>3
    <3>2. ASSUME NEW k \in 1 .. Unread PROVE InTransit'[k] = InTransit[k]
      <4>1. k \in 1 .. Unread'
            BY <1>t, <2>2
      <4>2. InTransit'[k] = data'[At(head', FirstUnread' + k - 1)]
            BY <1>u, <4>1
      <4>3. data' = data /\ head' = head /\ FirstUnread' = FirstUnread
            BY <2>2
      <4>4. InTransit[k] = data[At(head, FirstUnread + k - 1)]
            BY <1>t
      <4> QED BY <4>2, <4>3, <4>4
    <3>3. InTransit'[Unread + 1] = pending
          BY <1>t, <1>u, <2>2, <2>3, <2>4 DEF FirstUnread
    <3> QED BY <3>1, <3>2, <3>3, <1>u, <1>t, <2>2
  <2>6. Fifo!Enqueue
        BY <2>1, <2>3, <2>5, <1>t DEF Fifo!Enqueue
  <2> QED BY <2>6 DEF Fifo!FifoNext
<1>5. CASE PopTest
  <2>1. Same /\ UNCHANGED <<pending, dbgInfo>>
        BY <1>5 DEF PopTest, producerVars, InTransit, Unread, FirstUnread, Taken, Size
  <2> QED BY <2>1 DEF Fifo!fifoVars
<1>6. CASE PopRead
  <2> USE <1>6 DEF PopRead, producerVars
  <2>1. /\ Size' = Size /\ 0 < Size
        /\ Unread = Size /\ Unread' = Unread - 1
        /\ FirstUnread = 2 /\ FirstUnread' = 3
        BY <1>t DEF IInv, SizeOK, Size, Unread, FirstUnread, Taken
  <2>2. InTransit # <<>> /\ Head(InTransit) = dbgInfo'
        BY <1>t, <2>1, <1>hd
  <2>3. InTransit' = Tail(InTransit)
    <3>1. /\ Tail(InTransit) \in Seq(Event)
          /\ Len(Tail(InTransit)) = Unread - 1
          /\ \A k \in 1 .. Unread - 1 : Tail(InTransit)[k] = InTransit[k + 1]
          BY <1>t, <2>1
    <3>2. \A k \in 1 .. Unread - 1 : InTransit'[k] = InTransit[k + 1]
          BY SMTT(30), <1>t, <1>u, <2>1
    <3> QED BY <3>1, <3>2, <1>u, <2>1
  <2>4. dbgInfo = NoEvent
        BY DEF IInv, LocalsOK
  <2>5. Fifo!Dequeue
        BY <2>2, <2>3, <2>4 DEF Fifo!Dequeue
  <2> QED BY <2>5 DEF Fifo!FifoNext
<1>7. CASE PopClear
  <2> USE <1>7 DEF PopClear, producerVars
  <2>1. Unread' = Unread /\ FirstUnread' = 3 /\ FirstUnread = 3
        BY DEF Unread, FirstUnread, Taken, Size
  <2>2. ASSUME NEW k \in 1 .. Unread
        PROVE  data'[At(head, FirstUnread + k - 1)] = data[At(head, FirstUnread + k - 1)]
    <3>1. FirstUnread + k - 1 \in 3 .. Enclosed + 1
          BY <1>t, <2>1
    <3>2. At(head, FirstUnread + k - 1) # Nxt(Nxt(head))
          BY <1>hd, <3>1, <1>t
    <3> QED BY <3>1, <3>2, <1>hd, <1>t DEF IInv, TypeOK
  <2>3. Same
        BY <1>same, <2>1, <2>2
  <2> QED BY <2>3 DEF Fifo!fifoVars
<1>8. CASE PopAdvance
  <2> USE <1>8 DEF PopAdvance, producerVars
  <2>1. Unread' = Unread /\ FirstUnread' = 2 /\ FirstUnread = 3
        BY DEF Unread, FirstUnread, Taken, Size
  <2>2. ASSUME NEW k \in 1 .. Unread
        PROVE  data'[At(head', FirstUnread' + k - 1)] = data[At(head, FirstUnread + k - 1)]
        BY <1>hd, <1>t, <2>1
  <2>3. Same
        BY <1>same, <2>1, <2>2
  <2> QED BY <2>3 DEF Fifo!fifoVars
<1>9. CASE PopConsume
  <2> USE <1>9 DEF PopConsume, producerVars
  <2>1. Unread' = Unread /\ FirstUnread' = 2 /\ FirstUnread = 2
        BY <1>sz, <1>t DEF IInv, SizeOK, Unread, FirstUnread, Taken, Size
  <2>2. Same
        BY <1>same, <2>1
  <2> QED BY <2>2 DEF Fifo!fifoVars
<1>10. CASE Handle
  <2>1. Same
        BY <1>10 DEF Handle, producerVars, InTransit, Unread, FirstUnread, Taken, Size
  <2>2. dbgInfo # NoEvent
        BY <1>10 DEF Handle, IInv, LocalsOK
  <2>3. Fifo!Release
        BY <1>10, <2>1, <2>2 DEF Handle, producerVars, Fifo!Release
  <2> QED BY <2>3 DEF Fifo!FifoNext
<1>11. CASE UNCHANGED vars
  <2>1. Same /\ UNCHANGED <<pending, dbgInfo>>
        BY <1>11 DEF vars, producerVars, consumerVars, InTransit, Unread, FirstUnread,
                     Taken, Size
  <2> QED BY <2>1 DEF Fifo!fifoVars
<1> QED BY <1>1, <1>2, <1>3, <1>4, <1>5, <1>6, <1>7, <1>8, <1>9, <1>10, <1>11
        DEF Next, PushStep, PopStep, Fifo!FifoNext

(* The ring implements the bounded FIFO queue for every capacity, every    *)
(* counter width and every set of events.                                  *)
THEOREM QueueRefinesFifo == Spec => FifoRefinement
<1>1. Init => Fifo!FifoInit
      BY InitRefines
<1>2. IInv /\ IInv' /\ [Next]_vars => [Fifo!FifoNext]_(Fifo!fifoVars)
      BY NextRefines
<1> QED BY <1>1, <1>2, QueueInvariant, PTL DEF Spec, FifoRefinement, Fifo!FifoSpec
=============================================================================
