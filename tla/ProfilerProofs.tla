--------------------------- MODULE ProfilerProofs ---------------------------
(***************************************************************************)
(* Theorems about Profiler, for any functions, any program and any         *)
(* capacity of the queue: what the file says of a frame without errors and *)
(* tail calls is what happened in it, however far the consumer is behind.  *)
(*                                                                         *)
(* The invariant speaks of all the states the consumer will pass through   *)
(* when it handles what is on its way (StagesOf): each is good, and in the *)
(* last the consumer has caught up with the program.  A step of the        *)
(* consumer only goes on to the next of these stages; a step of the        *)
(* program adds one at the end.                                            *)
(***************************************************************************)
EXTENDS Profiler, SequenceTheorems, WellFoundedInduction, TLAPS

(* Sequences, whatever is in them. *)
IsSeq(s) == \E S : s \in Seq(S)

LEMMA SeqLen ==
  ASSUME NEW s, IsSeq(s)
  PROVE  Len(s) \in Nat /\ DOMAIN s = 1 .. Len(s) /\ (s = <<>> <=> Len(s) = 0)
<1>1. PICK S : s \in Seq(S)
  BY DEF IsSeq
<1> QED
  BY <1>1, EmptySeq

LEMMA SameSeq ==
  ASSUME NEW s, NEW t, IsSeq(s), IsSeq(t), Len(s) = Len(t), \A i \in 1 .. Len(s) : s[i] = t[i]
  PROVE  s = t
<1>1. PICK S : s \in Seq(S)
  BY DEF IsSeq
<1>2. PICK T : t \in Seq(T)
  BY DEF IsSeq
<1>3. s \in Seq(S \cup T) /\ t \in Seq(S \cup T)
  BY <1>1, <1>2, SeqMonotonic
<1> QED
  BY <1>3, SeqEqual

LEMMA EmptyIsSeq == IsSeq(<<>>) /\ Len(<<>>) = 0
<1>1. <<>> \in Seq({}) /\ Len(<<>>) = 0
  BY EmptySeq
<1> QED
  BY <1>1 DEF IsSeq

LEMMA AppendSeq ==
  ASSUME NEW s, IsSeq(s), NEW e
  PROVE  /\ IsSeq(Append(s, e)) /\ Len(Append(s, e)) = Len(s) + 1
         /\ \A i \in 1 .. Len(s) : Append(s, e)[i] = s[i]
         /\ Append(s, e)[Len(s) + 1] = e
<1>1. PICK S : s \in Seq(S)
  BY DEF IsSeq
<1>2. s \in Seq(S \cup {e}) /\ e \in S \cup {e}
  BY <1>1, SeqMonotonic
<1> QED
  BY <1>2, AppendProperties DEF IsSeq

LEMMA ConcatSeq ==
  ASSUME NEW s, NEW t, IsSeq(s), IsSeq(t)
  PROVE  /\ IsSeq(s \o t) /\ Len(s \o t) = Len(s) + Len(t)
         /\ \A i \in 1 .. Len(s) : (s \o t)[i] = s[i]
         /\ \A i \in 1 .. Len(t) : (s \o t)[Len(s) + i] = t[i]
<1>1. PICK S : s \in Seq(S)
  BY DEF IsSeq
<1>2. PICK T : t \in Seq(T)
  BY DEF IsSeq
<1>3. s \in Seq(S \cup T) /\ t \in Seq(S \cup T)
  BY <1>1, <1>2, SeqMonotonic
<1>4. /\ s \o t \in Seq(S \cup T) /\ Len(s \o t) = Len(s) + Len(t)
      /\ \A i \in 1 .. Len(s) + Len(t) : (s \o t)[i] = IF i <= Len(s) THEN s[i] ELSE t[i - Len(s)]
  BY <1>3, ConcatProperties
<1>5. Len(s) \in Nat /\ Len(t) \in Nat
  BY SeqLen
<1>6. \A i \in 1 .. Len(s) : i \in 1 .. Len(s) + Len(t) /\ i <= Len(s)
  BY <1>5
<1>7. \A i \in 1 .. Len(t) : /\ Len(s) + i \in 1 .. Len(s) + Len(t)
                             /\ ~(Len(s) + i <= Len(s)) /\ Len(s) + i - Len(s) = i
  BY <1>5
<1> QED
  BY <1>4, <1>6, <1>7 DEF IsSeq

LEMMA SubSeqSeq ==
  ASSUME NEW s, IsSeq(s), NEW m \in 1 .. Len(s) + 1, NEW n \in m - 1 .. Len(s)
  PROVE  /\ IsSeq(SubSeq(s, m, n)) /\ Len(SubSeq(s, m, n)) = n - m + 1
         /\ \A i \in 1 .. n - m + 1 : SubSeq(s, m, n)[i] = s[m + i - 1]
<1>1. PICK S : s \in Seq(S)
  BY DEF IsSeq
<1>2. Len(s) \in Nat /\ m \in Nat /\ n \in Nat
  BY SeqLen
<1>3. \A i \in m .. n : i \in 1 .. Len(s) /\ s[i] \in S
  BY <1>1, <1>2, ElementOfSeq
<1>4. /\ SubSeq(s, m, n) \in Seq(S)
      /\ Len(SubSeq(s, m, n)) = IF m <= n THEN n - m + 1 ELSE 0
      /\ \A i \in 1 .. n - m + 1 : SubSeq(s, m, n)[i] = s[m + i - 1]
  BY <1>1, <1>2, <1>3, SubSeqProperties
<1>5. (IF m <= n THEN n - m + 1 ELSE 0) = n - m + 1
  BY <1>2
<1> QED
  BY <1>4, <1>5 DEF IsSeq
-----------------------------------------------------------------------------
(* Calls: sequences of records, with whatever in sub. *)
Funs == Fun \cup {profiler_start}
IsCall(c) == c = [fn |-> c.fn, sub |-> c.sub] /\ c.fn \in Funs
IsCalls(s) == IsSeq(s) /\ \A i \in 1 .. Len(s) : IsCall(s[i])

LEMMA CallIsCall == \A f \in Funs : IsCall(Call(f))
  BY DEF IsCall, Call

(* A call that one more call was a part of. *)
With(c, d) == [fn |-> c.fn, sub |-> Append(c.sub, d)]

LEMMA WithIsCall ==
  ASSUME NEW c, IsCall(c), NEW d
  PROVE  IsCall(With(c, d)) /\ [c EXCEPT !.sub = Append(@, d)] = With(c, d)
<1> DEFINE f == c.fn
           b == c.sub
           e == Append(c.sub, d)
<1>1. [c EXCEPT !.sub = e] = [[fn |-> f, sub |-> b] EXCEPT !.sub = e]
  BY DEF IsCall
<1>2. IsCall([fn |-> f, sub |-> e])
  BY DEF IsCall
<1>3. [c EXCEPT !.sub = Append(@, d)] = [c EXCEPT !.sub = e]
  OBVIOUS
<1> HIDE DEF f, b, e
<1>4. [[fn |-> f, sub |-> b] EXCEPT !.sub = e] = [fn |-> f, sub |-> e]
  OBVIOUS
<1> QED
  BY <1>1, <1>2, <1>3, <1>4 DEF f, e, With

LEMMA CallsAppend ==
  ASSUME NEW s, IsCalls(s), NEW c, IsCall(c)
  PROVE  /\ IsCalls(Append(s, c)) /\ Len(Append(s, c)) = Len(s) + 1
         /\ \A i \in 1 .. Len(s) : Append(s, c)[i] = s[i]
         /\ Append(s, c)[Len(s) + 1] = c
<1>1. /\ IsSeq(Append(s, c)) /\ Len(Append(s, c)) = Len(s) + 1
      /\ \A i \in 1 .. Len(s) : Append(s, c)[i] = s[i]
      /\ Append(s, c)[Len(s) + 1] = c
  BY AppendSeq DEF IsCalls
<1>2. Len(s) \in Nat
  BY SeqLen DEF IsCalls
<1>3. \A i \in 1 .. Len(s) + 1 : i \in 1 .. Len(s) \/ i = Len(s) + 1
  BY <1>2
<1> QED
  BY <1>1, <1>3 DEF IsCalls

(* The calls that are open above n others. *)
Above(s, n) == SubSeq(s, n + 1, Len(s))

LEMMA CallsAbove ==
  ASSUME NEW s, IsCalls(s), NEW n \in 0 .. Len(s)
  PROVE  /\ IsCalls(Above(s, n)) /\ Len(Above(s, n)) = Len(s) - n
         /\ \A i \in 1 .. Len(s) - n : Above(s, n)[i] = s[n + i]
<1>1. Len(s) \in Nat
  BY SeqLen DEF IsCalls
<1>2. n + 1 \in 1 .. Len(s) + 1 /\ Len(s) \in (n + 1) - 1 .. Len(s) /\ Len(s) - (n + 1) + 1 = Len(s) - n
  BY <1>1
<1>3. /\ IsSeq(Above(s, n)) /\ Len(Above(s, n)) = Len(s) - (n + 1) + 1
      /\ \A i \in 1 .. Len(s) - (n + 1) + 1 : Above(s, n)[i] = s[(n + 1) + i - 1]
  BY <1>2, SubSeqSeq DEF IsCalls, Above
<1>4. \A i \in 1 .. Len(s) - n : (n + 1) + i - 1 = n + i /\ n + i \in 1 .. Len(s)
  BY <1>1
<1> QED
  BY <1>2, <1>3, <1>4 DEF IsCalls

LEMMA CallsBelow ==
  ASSUME NEW s, IsCalls(s), NEW n \in 0 .. Len(s)
  PROVE  /\ IsCalls(SubSeq(s, 1, n)) /\ Len(SubSeq(s, 1, n)) = n
         /\ \A i \in 1 .. n : SubSeq(s, 1, n)[i] = s[i]
<1>1. Len(s) \in Nat
  BY SeqLen DEF IsCalls
<1>2. 1 \in 1 .. Len(s) + 1 /\ n \in 1 - 1 .. Len(s) /\ n - 1 + 1 = n
  BY <1>1
<1>3. /\ IsSeq(SubSeq(s, 1, n)) /\ Len(SubSeq(s, 1, n)) = n - 1 + 1
      /\ \A i \in 1 .. n - 1 + 1 : SubSeq(s, 1, n)[i] = s[1 + i - 1]
  BY <1>2, SubSeqSeq DEF IsCalls
<1>4. \A i \in 1 .. n : 1 + i - 1 = i /\ i \in 1 .. Len(s)
  BY <1>1
<1> QED
  BY <1>2, <1>3, <1>4 DEF IsCalls

LEMMA CallsFront ==
  ASSUME NEW s, IsCalls(s), Len(s) > 0
  PROVE  /\ IsCalls(Front(s)) /\ Len(Front(s)) = Len(s) - 1
         /\ \A i \in 1 .. Len(s) - 1 : Front(s)[i] = s[i]
<1>1. Len(s) - 1 \in 0 .. Len(s)
  BY SeqLen DEF IsCalls
<1> QED
  BY <1>1, CallsBelow DEF Front

LEMMA CallsReturned ==
  ASSUME NEW s, IsCalls(s), Len(s) > 1
  PROVE  /\ IsCalls(Returned(s)) /\ Len(Returned(s)) = Len(s) - 1
         /\ \A i \in 1 .. Len(s) - 2 : Returned(s)[i] = s[i]
         /\ Returned(s)[Len(s) - 1] = With(s[Len(s) - 1], s[Len(s)])
<1> DEFINE n == Len(s) - 1
           f == Front(s)
           c == With(s[n], s[Len(s)])
           r == [f EXCEPT ![n] = c]
<1>1. Len(s) \in Nat /\ n \in Nat /\ n \in 1 .. n /\ n \in 1 .. Len(s) /\ Len(s) > 0
      /\ \A i \in 1 .. Len(s) - 2 : i \in 1 .. n /\ i # n
  BY SeqLen DEF IsCalls
<1>2. IsCalls(f) /\ Len(f) = n /\ \A i \in 1 .. n : f[i] = s[i]
  BY <1>1, CallsFront
<1>3. IsCall(c)
  <2>1. IsCall(s[n])
    BY <1>1 DEF IsCalls
  <2> QED
    BY <2>1, WithIsCall
<1>4. Returned(s) = r
  <2>1. IsCall(s[n])
    BY <1>1 DEF IsCalls
  <2>2. [s[n] EXCEPT !.sub = Append(@, s[Len(s)])] = c
    BY <2>1, WithIsCall
  <2>3. Returned(s) = [f EXCEPT ![n] = [f[n] EXCEPT !.sub = Append(@, s[Len(s)])]]
    BY DEF Returned, Last
  <2>4. f[n] = s[n]
    BY <1>1, <1>2
  <2> QED
    BY <2>2, <2>3, <2>4
<1> HIDE DEF f, c, n
<1>5. PICK S : f \in Seq(S)
  BY <1>2 DEF IsCalls, IsSeq
<1>6. f \in Seq(S \cup {c}) /\ n \in 1 .. Len(f)
  BY <1>1, <1>2, <1>5, SeqMonotonic
<1>7. r \in Seq(S \cup {c}) /\ Len(r) = n /\ \A i \in 1 .. n : r[i] = IF i = n THEN c ELSE f[i]
  BY <1>2, <1>6, ExceptSeq
<1> HIDE DEF r
<1>8. \A i \in 1 .. n : IsCall(r[i])
  BY <1>2, <1>3, <1>7 DEF IsCalls
<1>9. IsCalls(r)
  BY <1>7, <1>8 DEF IsCalls, IsSeq
<1>10. /\ \A i \in 1 .. Len(s) - 2 : r[i] = s[i]
       /\ r[n] = c
  BY <1>1, <1>2, <1>7
<1> QED
  BY <1>4, <1>7, <1>9, <1>10 DEF n, c

(* What happens at the top happens above any n that it leaves alone. *)
LEMMA AboveAppend ==
  ASSUME NEW s, IsCalls(s), NEW n \in 0 .. Len(s), NEW c, IsCall(c)
  PROVE  Above(Append(s, c), n) = Append(Above(s, n), c)
<1> DEFINE t == Append(s, c)
           a == Above(s, n)
           u == Above(t, n)
           v == Append(a, c)
<1>1. Len(s) \in Nat
  BY SeqLen DEF IsCalls
<1>2. /\ IsCalls(t) /\ Len(t) = Len(s) + 1 /\ t[Len(s) + 1] = c
      /\ \A i \in 1 .. Len(s) : t[i] = s[i]
  BY CallsAppend
<1>3. IsCalls(a) /\ Len(a) = Len(s) - n /\ \A i \in 1 .. Len(s) - n : a[i] = s[n + i]
  BY CallsAbove
<1> HIDE DEF t, a
<1>4. n \in 0 .. Len(t)
  BY <1>1, <1>2
<1>5. IsCalls(u) /\ Len(u) = Len(t) - n /\ \A i \in 1 .. Len(t) - n : u[i] = t[n + i]
  BY <1>2, <1>4, CallsAbove
<1>6. IsCalls(v) /\ Len(v) = Len(a) + 1 /\ v[Len(a) + 1] = c /\ \A i \in 1 .. Len(a) : v[i] = a[i]
  BY <1>3, CallsAppend
<1> HIDE DEF u, v
<1>7. Len(u) = Len(v)
  BY <1>1, <1>2, <1>3, <1>5, <1>6
<1>8. ASSUME NEW i \in 1 .. Len(u) PROVE u[i] = v[i]
  <2>1. i \in 1 .. Len(t) - n
    BY <1>5
  <2>2. CASE i = Len(s) - n + 1
    <3>1. n + i = Len(s) + 1 /\ i = Len(a) + 1
      BY <1>1, <1>3, <2>2
    <3> QED
      BY <1>2, <1>5, <1>6, <2>1, <3>1
  <2>3. CASE i # Len(s) - n + 1
    <3>1. n + i \in 1 .. Len(s) /\ i \in 1 .. Len(s) - n
      <4>1. Len(t) = Len(s) + 1 /\ n \in Nat
        BY <1>2
      <4> QED
        BY <1>1, <2>1, <2>3, <4>1
    <3>2. i \in 1 .. Len(a)
      BY <1>3, <3>1
    <3> QED
      BY <1>2, <1>3, <1>5, <1>6, <2>1, <3>1, <3>2
  <2> QED
    BY <2>2, <2>3
<1>9. u = v
  BY <1>5, <1>6, <1>7, <1>8, SameSeq DEF IsCalls
<1> QED
  BY <1>9 DEF u, v, t, a

LEMMA AboveReturned ==
  ASSUME NEW s, IsCalls(s), NEW n \in 0 .. Len(s), Len(s) > n + 1
  PROVE  Above(Returned(s), n) = Returned(Above(s, n))
<1> DEFINE t == Returned(s)
           a == Above(s, n)
           u == Above(t, n)
           v == Returned(a)
           k == Len(s)
           d == With(s[k - 1], s[k])
<1>1. k \in Nat /\ n \in Nat /\ k > 1
  BY SeqLen DEF IsCalls
<1>2. IsCalls(t) /\ Len(t) = k - 1 /\ t[k - 1] = d /\ \A i \in 1 .. k - 2 : t[i] = s[i]
  BY <1>1, CallsReturned
<1>3. IsCalls(a) /\ Len(a) = k - n /\ \A i \in 1 .. k - n : a[i] = s[n + i]
  BY CallsAbove
<1>4. k > n + 1
  OBVIOUS
<1> HIDE DEF t, a, k
<1>5. n \in 0 .. Len(t) /\ Len(a) > 1
  BY <1>1, <1>2, <1>3, <1>4
<1>6. IsCalls(u) /\ Len(u) = Len(t) - n /\ \A i \in 1 .. Len(t) - n : u[i] = t[n + i]
  BY <1>2, <1>5, CallsAbove
<1>7. /\ IsCalls(v) /\ Len(v) = Len(a) - 1 /\ \A i \in 1 .. Len(a) - 2 : v[i] = a[i]
      /\ v[Len(a) - 1] = With(a[Len(a) - 1], a[Len(a)])
  BY <1>3, <1>5, CallsReturned
<1>8. v[k - n - 1] = d
  <2>1. Len(a) - 1 \in 1 .. k - n /\ Len(a) \in 1 .. k - n /\ Len(a) - 1 = k - n - 1
        /\ n + (Len(a) - 1) = k - 1 /\ n + Len(a) = k
    BY <1>1, <1>3, <1>4
  <2>2. a[Len(a) - 1] = s[k - 1] /\ a[Len(a)] = s[k]
    BY <1>3, <2>1
  <2> QED
    BY <1>7, <2>1, <2>2
<1> HIDE DEF u, v, d
<1>9. Len(u) = Len(v) /\ Len(u) = k - n - 1
  BY <1>1, <1>2, <1>3, <1>6, <1>7
<1>10. ASSUME NEW i \in 1 .. Len(u) PROVE u[i] = v[i]
  <2>1. i \in 1 .. Len(t) - n
    BY <1>6
  <2>2. CASE i = k - n - 1
    <3>1. n + i = k - 1
      BY <1>1, <2>2
    <3> QED
      BY <1>2, <1>6, <1>8, <2>1, <2>2, <3>1
  <2>3. CASE i # k - n - 1
    <3>1. n + i \in 1 .. k - 2 /\ i \in 1 .. k - n /\ i \in 1 .. Len(a) - 2
      BY <1>1, <1>2, <1>3, <1>4, <2>1, <2>3
    <3> QED
      BY <1>2, <1>3, <1>6, <1>7, <2>1, <3>1
  <2> QED
    BY <2>2, <2>3
<1>11. u = v
  BY <1>6, <1>7, <1>9, <1>10, SameSeq DEF IsCalls
<1> QED
  BY <1>11 DEF u, v, t, a
-----------------------------------------------------------------------------
(* A stage of the consumer: its calls, the frame it fills, the trees it has *)
(* of it, and what it has written.                                         *)
Stage(calls, id, trees, lines) == [open |-> calls, id |-> id, trees |-> trees, log |-> lines]

Collected == IF current = <<>> THEN <<>> ELSE current[1].trees
Now == Stage(open, Filling, Collected, log)

(* What is written of the frame that a stage fills, once another begins. *)
Lines(s) ==
  IF s.id = 0 THEN <<>>
  ELSE IF s.trees # <<>> THEN <<[id |-> s.id, trees |-> <<>>], [id |-> s.id, trees |-> s.trees]>>
  ELSE IF s.log # <<>> /\ s.log[Len(s.log)].trees # <<>> /\ s.log[Len(s.log)].id # s.id
  THEN <<[id |-> s.id, trees |-> <<>>]>>
  ELSE <<>>

(* The stage after an event. *)
Closes(s, e) == e.type \in {"return", "tailcall"} /\ Len(s.open) = 1
After(s, e) ==
  IF e.type = "frame" THEN Stage(<<>>, e.id, <<>>, s.log \o Lines(s))
  ELSE Stage(Effect(s.open, e), s.id,
             IF Closes(s, e) /\ s.id > 0 THEN Append(s.trees, s.open[1]) ELSE s.trees,
             s.log)

(* The events on their way: no frame has number 0. *)
Told == Event \ {FrameEvent(0)}

(* g is the stages the consumer goes through when it handles the events p. *)
Stages(g, s, p) == g[0] = s /\ \A k \in 1 .. Len(p) : g[k] = After(g[k - 1], p[k])

(* What a log tells of frame i, as TreesOf. *)
Tells(l, i) == {l[k].trees : k \in {k \in DOMAIN l : l[k].id = i}} \ {<<>>}

Ordered(l) ==
  \A i, j \in DOMAIN l :
    i < j => l[i].id <= l[j].id /\ (l[i].id = l[j].id => l[i].trees = <<>> /\ l[j].trees # <<>>)

(* s begins with t. *)
Begins(t, s) == Len(t) <= Len(s) /\ \A i \in 1 .. Len(t) : t[i] = s[i]

(* A stage of which the file will be right, given the frame announced last, *)
(* the clean frames and what happened in each.                             *)
Good(s, fr, cl, tr) ==
  /\ IsCalls(s.open) /\ IsSeq(s.trees) /\ IsSeq(s.log)
  /\ s.id \in 0 .. fr /\ (s.id = 0 => s.trees = <<>>)
  /\ \A k \in 1 .. Len(s.log) : s.log[k].id \in 1 .. s.id - 1
  /\ Ordered(s.log)
  /\ \A i \in cl : 0 < i /\ i < s.id => Tells(s.log, i) = {tr[i]} \ {<<>>}
  /\ s.id \in cl /\ s.id > 0 => Begins(s.trees, tr[s.id])

(* A stage that has nothing more to learn of the program. *)
Caught(s, fr, cl, tr, calls, b) ==
  /\ s.id = fr
  /\ fr \in cl => s.open = Above(calls, b) /\ (fr > 0 => s.trees = tr[fr])

ProgramTypes ==
  /\ IsCalls(lua) /\ base \in 0 .. Len(lua)
  /\ frame \in Frames /\ clean \subseteq Frames
  /\ DOMAIN truth = Frames
  /\ \A i \in Frames : IsSeq(truth[i]) /\ (i > frame => truth[i] = <<>>)

QueueTypes ==
  /\ offered \in Told \cup {NoEvent} /\ held \in Told \cup {NoEvent}
  /\ buf \in Seq(Told) /\ Len(buf) <= Capacity

CurrentOK == current = IF Filling = 0 THEN <<>> ELSE <<[id |-> Filling, trees |-> Collected]>>

StagesGood(g) ==
  /\ Stages(g, Now, Pending)
  /\ \A k \in 0 .. Len(Pending) : Good(g[k], frame, clean, truth)
  /\ Caught(g[Len(Pending)], frame, clean, truth, lua, base)

IInv == ProgramTypes /\ QueueTypes /\ CurrentOK /\ \E g : StagesGood(g)
-----------------------------------------------------------------------------
LEMMA StageFields ==
  ASSUME NEW c, NEW i, NEW t, NEW l
  PROVE  /\ Stage(c, i, t, l).open = c /\ Stage(c, i, t, l).id = i
         /\ Stage(c, i, t, l).trees = t /\ Stage(c, i, t, l).log = l
BY DEF Stage

LEMMA KindsTold ==
  /\ \A f \in Funs : In(f) \in Told /\ In(f).type = "call" /\ In(f).fn = f
  /\ Out \in Told /\ Out.type = "return"
  /\ TailCallEvent \in Told /\ TailCallEvent.type = "tailcall"
  /\ \A i \in Frames : i > 0 => FrameEvent(i) \in Told
  /\ \A i \in Frames : FrameEvent(i).type = "frame" /\ FrameEvent(i).id = i
  /\ NoEvent.type = "none"
<1>1. \A f \in Funs : In(f).type = "call" /\ In(f).fn = f /\ In(f) # FrameEvent(0)
  BY DEF In, FrameEvent
<1>2. Out.type = "return" /\ Out # FrameEvent(0)
  BY DEF Out, FrameEvent
<1>3. TailCallEvent.type = "tailcall" /\ TailCallEvent # FrameEvent(0)
  BY DEF TailCallEvent, FrameEvent
<1>4. \A i \in Frames : /\ FrameEvent(i).type = "frame" /\ FrameEvent(i).id = i
                        /\ i > 0 => FrameEvent(i) # FrameEvent(0)
  BY DEF FrameEvent, Frames
<1>5. NoEvent.type = "none"
  BY DEF NoEvent
<1> HIDE DEF In, Out, TailCallEvent, FrameEvent
<1> QED
  BY <1>1, <1>2, <1>3, <1>4, <1>5 DEF Told, Event, Funs

LEMMA ToldKinds ==
  ASSUME NEW e \in Told
  PROVE  /\ \/ e.type = "call" /\ e.fn \in Funs
            \/ e.type \in {"return", "tailcall"}
            \/ e.type = "frame" /\ e.id \in Frames /\ e.id > 0
         /\ e # NoEvent
<1>1. \/ \E f \in Funs : e = In(f)
      \/ e = Out \/ e = TailCallEvent
      \/ \E i \in Frames : e = FrameEvent(i) /\ i # 0
  BY DEF Told, Event, Funs
<1>2. \A i \in Frames : i # 0 => i > 0
  BY DEF Frames
<1> HIDE DEF Funs
<1> QED
  BY <1>1, <1>2, KindsTold

(* What an event does to the calls. *)
LEMMA EffectIsCalls ==
  ASSUME NEW c, IsCalls(c), NEW e \in Told
  PROVE  IsCalls(Effect(c, e))
<1>1. CASE e.type = "call"
  <2>1. Effect(c, e) = Append(c, Call(e.fn)) /\ e.fn \in Funs
    BY <1>1, ToldKinds DEF Effect
  <2> QED
    BY <2>1, CallIsCall, CallsAppend
<1>2. IsCalls(<<>>)
  BY EmptyIsSeq DEF IsCalls
<1>3. CASE e.type # "call" /\ ~(e.type = "frame" \/ Len(c) <= 1)
  <2>1. Effect(c, e) = Returned(c)
    BY <1>3 DEF Effect
  <2>2. Len(c) > 1
    BY <1>3, SeqLen DEF IsCalls
  <2> QED
    BY <2>1, <2>2, CallsReturned
<1>4. CASE e.type # "call" /\ (e.type = "frame" \/ Len(c) <= 1)
  BY <1>2, <1>4 DEF Effect
<1> QED
  BY <1>1, <1>3, <1>4

LEMMA AfterFields ==
  ASSUME NEW s, NEW e
  PROVE  /\ After(s, e).open = Effect(s.open, e)
         /\ e.type = "frame" => /\ After(s, e).id = e.id /\ After(s, e).trees = <<>>
                                /\ After(s, e).log = s.log \o Lines(s)
         /\ e.type # "frame" =>
              /\ After(s, e).id = s.id /\ After(s, e).log = s.log
              /\ After(s, e).trees = IF Closes(s, e) /\ s.id > 0 THEN Append(s.trees, s.open[1]) ELSE s.trees
<1>1. CASE e.type = "frame"
  <2> DEFINE l == s.log \o Lines(s)
             z == <<>>
  <2>1. After(s, e) = Stage(z, e.id, z, l) /\ Effect(s.open, e) = z
    BY <1>1 DEF After, Effect
  <2> HIDE DEF l, z
  <2>2. /\ After(s, e).open = z /\ After(s, e).id = e.id
        /\ After(s, e).trees = z /\ After(s, e).log = l
    BY <2>1, StageFields
  <2> QED
    BY <1>1, <2>1, <2>2 DEF l, z
<1>2. CASE e.type # "frame"
  <2> DEFINE t == IF Closes(s, e) /\ s.id > 0 THEN Append(s.trees, s.open[1]) ELSE s.trees
  <2>1. After(s, e) = Stage(Effect(s.open, e), s.id, t, s.log)
    BY <1>2 DEF After
  <2> HIDE DEF t
  <2>2. /\ After(s, e).open = Effect(s.open, e) /\ After(s, e).id = s.id
        /\ After(s, e).trees = t /\ After(s, e).log = s.log
    BY <2>1, StageFields
  <2> QED
    BY <1>2, <2>2 DEF t
<1> QED
  BY <1>1, <1>2
-----------------------------------------------------------------------------
(* Good stages. *)
(* A stage is good whose calls and trees are, the rest being the same. *)
LEMMA GoodStays ==
  ASSUME NEW s, NEW t, NEW fr \in Nat, NEW cl, NEW tr, Good(s, fr, cl, tr),
         IsCalls(t.open), IsSeq(t.trees), t.id = s.id, t.log = s.log, t.id = 0 => t.trees = <<>>,
         t.id \in cl /\ t.id > 0 => Begins(t.trees, tr[t.id])
  PROVE  Good(t, fr, cl, tr)
BY DEF Good

(* Nothing changes that an earlier stage depends on. *)
LEMMA GoodWhile ==
  ASSUME NEW s, NEW fr \in Nat, NEW cl \in SUBSET Nat, NEW tr, Good(s, fr, cl, tr),
         NEW fs \in Nat, fs >= fr, NEW cs, cs \subseteq cl, NEW ts,
         \A i \in cs : i < s.id => ts[i] = tr[i],
         s.id \in cs /\ s.id > 0 /\ Begins(s.trees, tr[s.id]) => Begins(s.trees, ts[s.id])
  PROVE  Good(s, fs, cs, ts)
<1>1. /\ IsCalls(s.open) /\ IsSeq(s.trees) /\ IsSeq(s.log)
      /\ s.id \in 0 .. fr /\ (s.id = 0 => s.trees = <<>>)
      /\ \A k \in 1 .. Len(s.log) : s.log[k].id \in 1 .. s.id - 1
      /\ Ordered(s.log)
  BY DEF Good
<1>2. \A i \in cs : 0 < i /\ i < s.id => Tells(s.log, i) = {ts[i]} \ {<<>>}
  BY DEF Good
<1>3. s.id \in cs /\ s.id > 0 => Begins(s.trees, ts[s.id])
  BY DEF Good
<1>4. s.id \in 0 .. fs
  BY <1>1
<1> QED
  BY <1>1, <1>2, <1>3, <1>4 DEF Good

(* An event other than a frame does not spoil a stage, if a tree it adds   *)
(* is the next one of the frame, where that is clean.                      *)
LEMMA GoodAfter ==
  ASSUME NEW s, NEW fr \in Nat, NEW cl, NEW tr, Good(s, fr, cl, tr),
         NEW e \in Told, e.type # "frame",
         Closes(s, e) /\ s.id > 0 /\ s.id \in cl => Begins(Append(s.trees, s.open[1]), tr[s.id])
  PROVE  Good(After(s, e), fr, cl, tr)
<1> DEFINE t == After(s, e)
<1>1. /\ t.open = Effect(s.open, e) /\ t.id = s.id /\ t.log = s.log
      /\ t.trees = IF Closes(s, e) /\ s.id > 0 THEN Append(s.trees, s.open[1]) ELSE s.trees
  BY AfterFields
<1> HIDE DEF t
<1>2. IsCalls(t.open)
  BY <1>1, EffectIsCalls DEF Good
<1>3. /\ IsSeq(s.trees) /\ s.id \in Nat /\ (s.id = 0 => s.trees = <<>>)
      /\ s.id \in cl /\ s.id > 0 => Begins(s.trees, tr[s.id])
  BY DEF Good
<1>4. IsSeq(Append(s.trees, s.open[1]))
  BY <1>3, AppendSeq
<1>5. IsSeq(t.trees) /\ (t.id = 0 => t.trees = <<>>)
  BY <1>1, <1>3, <1>4
<1>6. t.id \in cl /\ t.id > 0 => Begins(t.trees, tr[t.id])
  BY <1>1, <1>3
<1>7. Good(t, fr, cl, tr)
  BY <1>1, <1>2, <1>5, <1>6, GoodStays
<1> QED
  BY <1>7 DEF t

(* Lines to be written of frame id. *)
LEMMA LinesFacts ==
  ASSUME NEW s, NEW fr \in Nat, NEW cl, NEW tr, Good(s, fr, cl, tr)
  PROVE  /\ IsSeq(Lines(s)) /\ Len(Lines(s)) \in 0 .. 2
         /\ s.id = 0 => Len(Lines(s)) = 0
         /\ \A k \in 1 .. Len(Lines(s)) : Lines(s)[k].id = s.id
         /\ Len(Lines(s)) = 1 => Lines(s)[1].trees = <<>>
         /\ Len(Lines(s)) = 2 => Lines(s)[1].trees = <<>> /\ Lines(s)[2].trees = s.trees
         /\ Len(Lines(s)) = 2 <=> s.id # 0 /\ s.trees # <<>>
<1> DEFINE h == [id |-> s.id, trees |-> <<>>]
           f == [id |-> s.id, trees |-> s.trees]
<1>1. h.id = s.id /\ h.trees = <<>> /\ f.id = s.id /\ f.trees = s.trees
  OBVIOUS
<1> HIDE DEF h, f
<1>2. /\ IsSeq(<<>>) /\ IsSeq(<<h>>) /\ IsSeq(<<h, f>>)
      /\ Len(<<>>) = 0 /\ Len(<<h>>) = 1 /\ Len(<<h, f>>) = 2
      /\ <<h>>[1] = h /\ <<h, f>>[1] = h /\ <<h, f>>[2] = f
  <2>1. <<h>> \in Seq({h}) /\ <<h, f>> \in Seq({h, f})
    OBVIOUS
  <2> QED
    BY <2>1, EmptyIsSeq DEF IsSeq
<1>3. CASE s.id = 0
  <2>1. Lines(s) = <<>>
    BY <1>3 DEF Lines
  <2> QED
    BY <1>2, <1>3, <2>1
<1>4. CASE s.id # 0 /\ s.trees # <<>>
  <2>1. Lines(s) = <<h, f>>
    BY <1>4 DEF Lines, h, f
  <2>2. \A k \in 1 .. 2 : k = 1 \/ k = 2
    OBVIOUS
  <2> QED
    BY <1>1, <1>2, <1>4, <2>1, <2>2
<1>5. CASE s.id # 0 /\ s.trees = <<>>
  <2>1. Lines(s) = <<h>> \/ Lines(s) = <<>>
    BY <1>5 DEF Lines, h
  <2>2. \A k \in 1 .. 1 : k = 1
    OBVIOUS
  <2> QED
    BY <1>1, <1>2, <1>5, <2>1, <2>2
<1> QED
  BY <1>3, <1>4, <1>5

TreesIn(l) == {l[k].trees : k \in 1 .. Len(l)}

(* What a log with lines added tells, if these are of a later frame. *)
LEMMA JoinedLog ==
  ASSUME NEW l, IsSeq(l), NEW m, IsSeq(m), NEW id \in Nat,
         \A k \in 1 .. Len(l) : l[k].id \in 1 .. id - 1,
         \A k \in 1 .. Len(m) : m[k].id = id
  PROVE  /\ IsSeq(l \o m) /\ Len(l \o m) = Len(l) + Len(m) /\ Len(l) \in Nat /\ Len(m) \in Nat
         /\ \A k \in 1 .. Len(l) : (l \o m)[k] = l[k]
         /\ \A k \in 1 .. Len(m) : (l \o m)[Len(l) + k] = m[k]
         /\ \A i \in Nat : i < id => Tells(l \o m, i) = Tells(l, i)
         /\ Tells(l \o m, id) = TreesIn(m) \ {<<>>}
<1> DEFINE j == l \o m
<1>1. /\ IsSeq(j) /\ Len(j) = Len(l) + Len(m)
      /\ \A k \in 1 .. Len(l) : j[k] = l[k]
      /\ \A k \in 1 .. Len(m) : j[Len(l) + k] = m[k]
  BY ConcatSeq
<1> HIDE DEF j
<1>2. /\ Len(l) \in Nat /\ Len(m) \in Nat
      /\ DOMAIN l = 1 .. Len(l) /\ DOMAIN m = 1 .. Len(m) /\ DOMAIN j = 1 .. Len(j)
  BY <1>1, SeqLen
<1>3. \A k \in 1 .. Len(j) : k \in 1 .. Len(l) \/ \E q \in 1 .. Len(m) : k = Len(l) + q
  <2> SUFFICES ASSUME NEW k \in 1 .. Len(j), k \notin 1 .. Len(l)
               PROVE  \E q \in 1 .. Len(m) : k = Len(l) + q
    OBVIOUS
  <2>1. Len(j) = Len(l) + Len(m)
    BY <1>1
  <2>2. k - Len(l) \in 1 .. Len(m) /\ k = Len(l) + (k - Len(l))
    BY <1>2, <2>1
  <2> QED
    BY <2>2
<1>4. /\ \A k \in 1 .. Len(l) : k \in 1 .. Len(j) /\ k \in Nat
      /\ \A k \in 1 .. Len(m) : Len(l) + k \in 1 .. Len(j)
  <2>1. Len(j) = Len(l) + Len(m)
    BY <1>1
  <2> QED
    BY <1>2, <2>1
<1>5. \A i \in Nat : i < id => {k \in DOMAIN j : j[k].id = i} = {k \in DOMAIN l : l[k].id = i}
  <2> SUFFICES ASSUME NEW i \in Nat, i < id, NEW k
               PROVE  k \in DOMAIN j /\ j[k].id = i <=> k \in DOMAIN l /\ l[k].id = i
    OBVIOUS
  <2>1. ASSUME k \in DOMAIN l, l[k].id = i PROVE k \in DOMAIN j /\ j[k].id = i
    BY <1>1, <1>2, <1>4, <2>1
  <2>2. ASSUME k \in DOMAIN j, j[k].id = i PROVE k \in DOMAIN l /\ l[k].id = i
    <3>1. ASSUME NEW q \in 1 .. Len(m), k = Len(l) + q PROVE FALSE
      <4>1. j[k] = m[q] /\ m[q].id = id
        BY <1>1, <3>1
      <4> QED
        BY <2>2, <4>1
    <3>2. k \in 1 .. Len(l)
      BY <1>2, <1>3, <2>2, <3>1
    <3> QED
      BY <1>1, <1>2, <2>2, <3>2
  <2> QED
    BY <2>1, <2>2
<1>6. ASSUME NEW i \in Nat, i < id PROVE Tells(j, i) = Tells(l, i)
  <2>1. {k \in DOMAIN j : j[k].id = i} = {k \in DOMAIN l : l[k].id = i}
    BY <1>5, <1>6
  <2>2. \A k \in DOMAIN l : j[k] = l[k]
    BY <1>1, <1>2
  <2>3. \A k \in {k \in DOMAIN l : l[k].id = i} : j[k].trees = l[k].trees
    BY <2>2
  <2>4. {j[k].trees : k \in {k \in DOMAIN j : j[k].id = i}} = {l[k].trees : k \in {k \in DOMAIN l : l[k].id = i}}
    BY <2>1, <2>3
  <2> QED
    BY <2>4 DEF Tells
<1>7. Tells(j, id) = TreesIn(m) \ {<<>>}
  <2>1. ASSUME NEW k \in DOMAIN j, j[k].id = id PROVE j[k].trees \in {m[q].trees : q \in 1 .. Len(m)}
    <3>1. k \notin 1 .. Len(l)
      <4>1. ASSUME k \in 1 .. Len(l) PROVE FALSE
        <5>1. l[k].id = id /\ l[k].id \in 1 .. id - 1
          BY <1>1, <2>1, <4>1
        <5> QED
          BY <5>1
      <4> QED
        BY <4>1
    <3>2. PICK q \in 1 .. Len(m) : k = Len(l) + q
      BY <1>2, <1>3, <3>1
    <3>3. j[k] = m[q]
      BY <1>1, <3>2
    <3> QED
      BY <3>3
  <2>2. ASSUME NEW q \in 1 .. Len(m) PROVE m[q].trees \in {j[k].trees : k \in {k \in DOMAIN j : j[k].id = id}}
    <3>1. Len(l) + q \in DOMAIN j /\ j[Len(l) + q] = m[q] /\ m[q].id = id
      BY <1>1, <1>2, <1>4
    <3> QED
      BY <3>1
  <2>3. {j[k].trees : k \in {k \in DOMAIN j : j[k].id = id}} = {m[q].trees : q \in 1 .. Len(m)}
    BY <2>1, <2>2
  <2> QED
    BY <2>3 DEF Tells, TreesIn
<1> QED
  BY <1>1, <1>2, <1>6, <1>7 DEF j

(* Another frame begins: the one before goes to the file. *)
LEMMA GoodAnnounced ==
  ASSUME NEW fr \in Nat, NEW cl \in SUBSET Nat, NEW tr, NEW s, Good(s, fr, cl, tr), s.id = fr,
         fr \in cl /\ fr > 0 => s.trees = tr[fr], fr + 1 \in cl => tr[fr + 1] = <<>>,
         NEW e, e.type = "frame", e.id = fr + 1
  PROVE  Good(After(s, e), fr + 1, cl, tr)
<1> DEFINE t == After(s, e)
           l == s.log
           m == Lines(s)
           j == l \o m
<1>1. t.open = <<>> /\ t.id = fr + 1 /\ t.trees = <<>> /\ t.log = j
  BY AfterFields DEF Effect
<1>2. /\ IsSeq(m) /\ Len(m) \in 0 .. 2
      /\ fr = 0 => Len(m) = 0
      /\ \A k \in 1 .. Len(m) : m[k].id = fr
      /\ Len(m) = 1 => m[1].trees = <<>>
      /\ Len(m) = 2 => m[1].trees = <<>> /\ m[2].trees = s.trees
      /\ Len(m) = 2 <=> fr # 0 /\ s.trees # <<>>
  BY LinesFacts
<1>3. /\ IsSeq(l) /\ (\A k \in 1 .. Len(l) : l[k].id \in 1 .. fr - 1) /\ Ordered(l)
      /\ \A i \in cl : 0 < i /\ i < fr => Tells(l, i) = {tr[i]} \ {<<>>}
  BY DEF Good
<1> HIDE DEF t, l, m
<1>4. /\ IsSeq(l) /\ IsSeq(m) /\ fr \in Nat
      /\ \A k \in 1 .. Len(l) : l[k].id \in 1 .. fr - 1
      /\ \A k \in 1 .. Len(m) : m[k].id = fr
  BY <1>2, <1>3
<1>5. /\ IsSeq(j) /\ Len(j) = Len(l) + Len(m) /\ Len(l) \in Nat
      /\ \A k \in 1 .. Len(l) : j[k] = l[k]
      /\ \A k \in 1 .. Len(m) : j[Len(l) + k] = m[k]
  BY <1>4, JoinedLog
<1>6. /\ \A i \in Nat : i < fr => Tells(j, i) = Tells(l, i)
      /\ Tells(j, fr) = TreesIn(m) \ {<<>>}
  BY SMTT(30), <1>4, JoinedLog
<1> HIDE DEF j
<1>7. DOMAIN j = 1 .. Len(j) /\ DOMAIN l = 1 .. Len(l)
  BY <1>3, <1>5, SeqLen
<1>8. ASSUME NEW k \in 1 .. Len(j)
      PROVE  \/ k \in 1 .. Len(l) /\ j[k] = l[k]
             \/ \E q \in 1 .. Len(m) : k = Len(l) + q /\ j[k] = m[q]
  <2>1. Len(j) = Len(l) + Len(m) /\ Len(l) \in Nat /\ Len(m) \in Nat
    BY <1>2, <1>5
  <2>2. k \in 1 .. Len(l) \/ (k - Len(l) \in 1 .. Len(m) /\ k = Len(l) + (k - Len(l)))
    BY <2>1
  <2> QED
    BY <1>5, <2>2
<1>9. \A k \in 1 .. Len(j) : j[k].id \in 1 .. (fr + 1) - 1
  <2> TAKE k \in 1 .. Len(j)
  <2>1. CASE k \in 1 .. Len(l) /\ j[k] = l[k]
    <3>1. j[k].id \in 1 .. fr - 1
      BY <1>3, <2>1
    <3> QED
      BY <3>1
  <2>2. ASSUME NEW q \in 1 .. Len(m), j[k] = m[q] PROVE j[k].id \in 1 .. (fr + 1) - 1
    <3>1. j[k].id = fr
      BY <1>2, <2>2
    <3>2. fr # 0
      BY <1>2
    <3> QED
      BY <3>1, <3>2
  <2> QED
    BY <1>8, <2>1, <2>2
<1>10. Ordered(j)
  <2> SUFFICES ASSUME NEW a \in 1 .. Len(j), NEW b \in 1 .. Len(j), a < b
               PROVE  j[a].id <= j[b].id /\ (j[a].id = j[b].id => j[a].trees = <<>> /\ j[b].trees # <<>>)
    BY <1>7 DEF Ordered
  <2>1. CASE b \in 1 .. Len(l) /\ j[b] = l[b]
    <3>1. a \in 1 .. Len(l)
      BY <1>5, <2>1
    <3>2. l[a].id <= l[b].id /\ (l[a].id = l[b].id => l[a].trees = <<>> /\ l[b].trees # <<>>)
      <4>1. a \in DOMAIN l /\ b \in DOMAIN l
        BY <1>7, <2>1, <3>1
      <4>2. Ordered(l)
        BY <1>3
      <4> QED
        BY <4>1, <4>2 DEF Ordered
    <3>3. j[a] = l[a]
      BY <1>5, <3>1
    <3> QED
      BY <2>1, <3>2, <3>3
  <2>2. ASSUME NEW q \in 1 .. Len(m), b = Len(l) + q, j[b] = m[q], a \in 1 .. Len(l), j[a] = l[a]
        PROVE  j[a].id \in 1 .. fr - 1 /\ j[b].id = fr
    BY <1>2, <1>3, <2>2
  <2>3. ASSUME NEW q \in 1 .. Len(m), b = Len(l) + q, j[b] = m[q],
               NEW p \in 1 .. Len(m), a = Len(l) + p, j[a] = m[p]
        PROVE  j[a].id = fr /\ j[b].id = fr /\ j[a].trees = <<>> /\ j[b].trees # <<>>
    <3>1. Len(m) = 2 /\ p = 1 /\ q = 2
      <4>1. Len(m) \in 0 .. 2 /\ Len(l) \in Nat
        BY <1>2, <1>5
      <4> QED
        BY SMTT(30), <2>3, <4>1
    <3>2. m[1].trees = <<>> /\ m[2].trees = s.trees /\ s.trees # <<>> /\ m[1].id = fr /\ m[2].id = fr
      BY <1>2, <3>1
    <3> QED
      BY <2>3, <3>1, <3>2
  <2>4. CASE \E q \in 1 .. Len(m) : b = Len(l) + q /\ j[b] = m[q]
    <3>1. PICK q \in 1 .. Len(m) : b = Len(l) + q /\ j[b] = m[q]
      BY <2>4
    <3>2. CASE a \in 1 .. Len(l) /\ j[a] = l[a]
      <4>1. j[a].id \in 1 .. fr - 1 /\ j[b].id = fr
        BY <2>2, <3>1, <3>2
      <4> QED
        BY <4>1
    <3>3. CASE \E p \in 1 .. Len(m) : a = Len(l) + p /\ j[a] = m[p]
      <4>1. j[a].id = fr /\ j[b].id = fr /\ j[a].trees = <<>> /\ j[b].trees # <<>>
        BY <2>3, <3>1, <3>3
      <4> QED
        BY <4>1
    <3> QED
      BY <1>8, <3>2, <3>3
  <2> QED
    BY <1>8, <2>1, <2>4
<1>11. ASSUME fr \in cl, fr > 0 PROVE Tells(j, fr) = {tr[fr]} \ {<<>>}
  <2>1. s.trees = tr[fr]
    BY <1>11
  <2>2. CASE s.trees = <<>>
    <3>1. Len(m) \in 0 .. 1 /\ \A k \in 1 .. Len(m) : m[k].trees = <<>>
      BY <1>2, <2>2
    <3> QED
      BY <1>6, <2>1, <2>2, <3>1 DEF TreesIn
  <2>3. CASE s.trees # <<>>
    <3>1. Len(m) = 2 /\ m[1].trees = <<>> /\ m[2].trees = s.trees
      BY <1>2, <1>11, <2>3
    <3>2. 1 .. Len(m) = {1, 2}
      BY <3>1
    <3>3. {m[k].trees : k \in 1 .. Len(m)} = {<<>>, s.trees}
      BY <3>1, <3>2
    <3> QED
      BY <1>6, <2>1, <2>3, <3>3 DEF TreesIn
  <2> QED
    BY <2>2, <2>3
<1>12. \A i \in cl : 0 < i /\ i < t.id => Tells(j, i) = {tr[i]} \ {<<>>}
  <2> SUFFICES ASSUME NEW i \in cl, 0 < i, i < t.id PROVE Tells(j, i) = {tr[i]} \ {<<>>}
    OBVIOUS
  <2>1. i \in Nat /\ (i < fr \/ i = fr)
    BY <1>1
  <2> QED
    BY <1>3, <1>6, <1>11, <2>1
<1>13. IsCalls(<<>>) /\ IsSeq(<<>>)
  BY EmptyIsSeq DEF IsCalls
<1>14. t.id \in cl /\ t.id > 0 => Begins(t.trees, tr[t.id])
  <2>1. fr + 1 \in cl => Begins(<<>>, tr[fr + 1])
    BY EmptyIsSeq DEF Begins
  <2> QED
    BY <1>1, <2>1
<1>15. t.id \in 0 .. fr + 1 /\ fr + 1 \in Nat
  BY <1>1
<1>16. \A k \in 1 .. Len(j) : j[k].id \in 1 .. t.id - 1
  BY <1>1, <1>9
<1>17. Good(t, fr + 1, cl, tr)
  BY <1>1, <1>5, <1>10, <1>12, <1>13, <1>14, <1>15, <1>16 DEF Good
<1> QED
  BY <1>17 DEF t
-----------------------------------------------------------------------------
(* One more event: one more stage at the end. *)
Extended(h, g, n, a) == h[n + 1] = a /\ \A k \in 0 .. n : h[k] = g[k]

LEMMA StagesExtend ==
  ASSUME NEW g, NEW s, NEW p \in Seq(Told), Stages(g, s, p), NEW e \in Told
  PROVE  /\ Len(Append(p, e)) = Len(p) + 1 /\ Len(p) \in Nat
         /\ \E h : Stages(h, s, Append(p, e)) /\ Extended(h, g, Len(p), After(g[Len(p)], e))
<1> DEFINE n == Len(p)
           q == Append(p, e)
           h == [k \in 0 .. n + 1 |-> IF k = n + 1 THEN After(g[n], e) ELSE g[k]]
<1>1. n \in Nat /\ Len(q) = n + 1 /\ q[n + 1] = e /\ \A k \in 1 .. n : q[k] = p[k]
  BY AppendProperties
<1>2. g[0] = s /\ \A k \in 1 .. n : g[k] = After(g[k - 1], p[k])
  BY DEF Stages
<1> HIDE DEF n, q
<1>3. h[n + 1] = After(g[n], e) /\ \A k \in 0 .. n : h[k] = g[k]
  BY <1>1
<1> HIDE DEF h
<1>4. h[0] = s
  BY <1>1, <1>2, <1>3
<1>5. \A k \in 1 .. n + 1 : h[k] = After(h[k - 1], q[k])
  <2> SUFFICES ASSUME NEW k \in 1 .. n + 1 PROVE h[k] = After(h[k - 1], q[k])
    OBVIOUS
  <2>1. CASE k = n + 1
    <3>1. k - 1 = n /\ n \in 0 .. n
      BY <1>1, <2>1
    <3> QED
      BY <1>1, <1>3, <2>1, <3>1
  <2>2. CASE k # n + 1
    <3>1. k \in 1 .. n /\ k \in 0 .. n /\ k - 1 \in 0 .. n
      BY <1>1, <2>2
    <3> QED
      BY <1>1, <1>2, <1>3, <3>1
  <2> QED
    BY <2>1, <2>2
<1>6. Stages(h, s, q)
  BY <1>1, <1>4, <1>5 DEF Stages
<1> QED
  BY <1>1, <1>3, <1>6 DEF n, q, Extended

(* The first event handled: the first stage is over. *)
Shifted(h, g, n) == \A k \in 0 .. n : h[k] = g[k + 1]

LEMMA StagesAdvance ==
  ASSUME NEW g, NEW s, NEW p \in Seq(Told), NEW e \in Told, Stages(g, s, <<e>> \o p),
         NEW a, a = After(s, e)
  PROVE  /\ Len(<<e>> \o p) = Len(p) + 1 /\ Len(p) \in Nat
         /\ \E h : Stages(h, a, p) /\ Shifted(h, g, Len(p))
<1> DEFINE n == Len(p)
           q == <<e>> \o p
           h == [k \in 0 .. n |-> g[k + 1]]
<1>1. n \in Nat /\ Len(q) = n + 1 /\ q[1] = e /\ \A k \in 1 .. n : q[k + 1] = p[k]
  <2>1. <<e>> \in Seq(Told) /\ Len(<<e>>) = 1 /\ <<e>>[1] = e
    OBVIOUS
  <2>2. n \in Nat
    BY LenProperties
  <2>3. /\ Len(<<e>> \o p) = Len(<<e>>) + Len(p)
        /\ \A i \in 1 .. Len(<<e>>) + Len(p) :
             (<<e>> \o p)[i] = IF i <= Len(<<e>>) THEN <<e>>[i] ELSE p[i - Len(<<e>>)]
    BY <2>1, ConcatProperties
  <2>4. /\ Len(q) = 1 + n
        /\ \A i \in 1 .. 1 + n : q[i] = IF i <= 1 THEN <<e>>[i] ELSE p[i - 1]
    BY <2>1, <2>3
  <2> HIDE DEF q, n
  <2>5. 1 \in 1 .. 1 + n /\ 1 + n = n + 1 /\ \A k \in 1 .. n : k + 1 \in 1 .. 1 + n /\ ~(k + 1 <= 1) /\ k + 1 - 1 = k
    BY <2>2
  <2> QED
    BY <2>1, <2>2, <2>4, <2>5
<1>2. g[0] = s /\ \A k \in 1 .. Len(q) : g[k] = After(g[k - 1], q[k])
  BY DEF Stages
<1> HIDE DEF n, q
<1>3. \A k \in 0 .. n : h[k] = g[k + 1]
  OBVIOUS
<1> HIDE DEF h
<1>4. h[0] = a
  <2>1. 1 \in 1 .. Len(q) /\ 0 \in 0 .. n /\ 0 + 1 = 1 /\ 1 - 1 = 0
    BY <1>1
  <2> QED
    BY <1>1, <1>2, <1>3, <2>1
<1>5. \A k \in 1 .. n : h[k] = After(h[k - 1], p[k])
  <2> SUFFICES ASSUME NEW k \in 1 .. n PROVE h[k] = After(h[k - 1], p[k])
    OBVIOUS
  <2>1. k \in 0 .. n /\ k - 1 \in 0 .. n /\ k + 1 \in 1 .. Len(q) /\ (k + 1) - 1 = k /\ (k - 1) + 1 = k
    BY <1>1
  <2> QED
    BY <1>1, <1>2, <1>3, <2>1
<1>6. Stages(h, a, p)
  BY <1>4, <1>5 DEF Stages, n
<1> QED
  BY <1>1, <1>3, <1>6 DEF n, q, Shifted

(* What the queue holds when the consumer has h, the ring b and the hook o. *)
Waiting(h, b, o) == Present(h) \o b \o Present(o)

LEMMA PresentFacts ==
  /\ Present(NoEvent) = <<>>
  /\ \A e \in Told : Present(e) = <<e>>
  /\ \A e \in Told \cup {NoEvent} : Present(e) \in Seq(Told)
<1>1. Present(NoEvent) = <<>> /\ <<>> \in Seq(Told)
  BY EmptySeq DEF Present
<1>2. \A e \in Told : Present(e) = <<e>> /\ <<e>> \in Seq(Told)
  BY ToldKinds DEF Present
<1> QED
  BY <1>1, <1>2

LEMMA WaitingFacts ==
  ASSUME NEW b \in Seq(Told), NEW h \in Told \cup {NoEvent}, NEW o \in Told \cup {NoEvent}
  PROVE  /\ Waiting(h, b, o) \in Seq(Told)
         /\ \A e \in Told : Waiting(h, b, e) = Append(Waiting(h, b, NoEvent), e)
         /\ \A e \in Told : Waiting(h, Append(b, e), NoEvent) = Waiting(h, b, e)
         /\ b # <<>> => Waiting(Head(b), Tail(b), o) = Waiting(NoEvent, b, o)
         /\ \A e \in Told : Waiting(e, b, o) = <<e>> \o Waiting(NoEvent, b, o)
<1> DEFINE p == Present(h)
           q == Present(o)
           z == <<>>
<1>1. /\ p \in Seq(Told) /\ q \in Seq(Told) /\ z \in Seq(Told)
      /\ Present(NoEvent) = z /\ \A e \in Told : Present(e) = <<e>> /\ <<e>> \in Seq(Told)
  <2>1. \A e \in Told : <<e>> \in Seq(Told)
    OBVIOUS
  <2> QED
    BY <2>1, PresentFacts, EmptySeq
<1>2. \A s \in Seq(Told) : s \o z = s /\ z \o s = s
  BY ConcatEmptySeq
<1>3. \A s \in Seq(Told), e \in Told : Append(s, e) = s \o <<e>> /\ Append(s, e) \in Seq(Told)
  BY AppendIsConcat, AppendProperties
<1>4. \A r \in Seq(Told), s \in Seq(Told), t \in Seq(Told) : (r \o s) \o t = r \o (s \o t)
  BY ConcatAssociative
<1>5. \A s \in Seq(Told), t \in Seq(Told) : s \o t \in Seq(Told)
  BY ConcatProperties
<1>6. b # <<>> => Head(b) \in Told /\ Tail(b) \in Seq(Told) /\ <<Head(b)>> \o Tail(b) = b
  <2> SUFFICES ASSUME b # <<>> PROVE Head(b) \in Told /\ Tail(b) \in Seq(Told) /\ <<Head(b)>> \o Tail(b) = b
    OBVIOUS
  <2>1. Head(b) \in Told /\ Tail(b) \in Seq(Told)
    BY HeadTailProperties
  <2>2. <<Head(b)>> \o Tail(b) = b
    OBVIOUS
  <2> QED
    BY <2>1, <2>2
<1> HIDE DEF p, q, z
<1>7. Waiting(h, b, o) \in Seq(Told)
  <2>1. p \o b \in Seq(Told)
    BY <1>1, <1>5
  <2> QED
    BY <1>1, <1>5, <2>1 DEF Waiting, p, q
<1>8. ASSUME NEW e \in Told PROVE Waiting(h, b, e) = Append(Waiting(h, b, NoEvent), e)
  <2>1. p \o b \in Seq(Told) /\ (p \o b) \o z = p \o b
    BY <1>1, <1>2, <1>5
  <2>2. (p \o b) \o <<e>> = Append(p \o b, e)
    BY <1>3, <2>1
  <2> QED
    BY <1>1, <2>1, <2>2 DEF Waiting, p
<1>9. ASSUME NEW e \in Told PROVE Waiting(h, Append(b, e), NoEvent) = Waiting(h, b, e)
  <2>1. Append(b, e) = b \o <<e>> /\ Append(b, e) \in Seq(Told)
    BY <1>3
  <2>2. (p \o Append(b, e)) \o z = p \o Append(b, e)
    BY <1>1, <1>2, <1>5, <2>1
  <2>3. (p \o b) \o <<e>> = p \o (b \o <<e>>)
    BY SMTT(30), <1>1, <1>4
  <2> QED
    BY <1>1, <2>1, <2>2, <2>3 DEF Waiting, p
<1>10. ASSUME b # <<>> PROVE Waiting(Head(b), Tail(b), o) = Waiting(NoEvent, b, o)
  <2>1. Present(Head(b)) = <<Head(b)>>
    BY <1>1, <1>6, <1>10
  <2>2. z \o b = b
    BY <1>2
  <2> QED
    BY <1>1, <1>6, <1>10, <2>1, <2>2 DEF Waiting
<1>11. ASSUME NEW e \in Told PROVE Waiting(e, b, o) = <<e>> \o Waiting(NoEvent, b, o)
  <2>1. z \o b = b
    BY <1>2
  <2>2. (<<e>> \o b) \o q = <<e>> \o (b \o q)
    BY <1>1, <1>4
  <2> QED
    BY <1>1, <2>1, <2>2 DEF Waiting, q
<1> QED
  BY <1>7, <1>8, <1>9, <1>10, <1>11
-----------------------------------------------------------------------------
(* What the invariant says of the numbers and of what is on its way. *)
LEMMA InvFacts ==
  ASSUME IInv
  PROVE  /\ frame \in Nat /\ clean \in SUBSET Nat /\ MaxFrame \in Nat /\ Capacity \in Nat
         /\ Pending = Waiting(held, buf, offered) /\ Pending \in Seq(Told) /\ Len(Pending) \in Nat
<1>1. frame \in Nat /\ clean \in SUBSET Nat /\ MaxFrame \in Nat /\ Capacity \in Nat
  BY PipelineAssumption DEF IInv, ProgramTypes, Frames
<1>2. Pending = Waiting(held, buf, offered)
  BY DEF Pending, Waiting
<1>3. Waiting(held, buf, offered) \in Seq(Told)
  BY WaitingFacts DEF IInv, QueueTypes
<1> QED
  BY <1>1, <1>2, <1>3, LenProperties

(* A step of the program that the hook tells of adds a stage.              *)
LEMMA HookedStep ==
  ASSUME IInv, NEW e \in Told, Queue!Offer(e), UNCHANGED <<nestingVars, outputVars>>, ProgramTypes',
         \A s : Good(s, frame, clean, truth) => Good(s, frame', clean', truth'),
         \A s : Good(s, frame, clean, truth) /\ Caught(s, frame, clean, truth, lua, base) =>
           /\ Good(After(s, e), frame', clean', truth')
           /\ Caught(After(s, e), frame', clean', truth', lua', base')
  PROVE  IInv'
<1>1. offered = NoEvent /\ offered' = e /\ buf' = buf /\ held' = held
  BY DEF Queue!Offer
<1>2. QueueTypes'
  BY <1>1 DEF IInv, QueueTypes
<1>3. CurrentOK' /\ Now' = Now
  BY DEF IInv, CurrentOK, Now, Filling, Collected, nestingVars, outputVars
<1>4. Pending \in Seq(Told) /\ Len(Pending) \in Nat /\ Pending' = Append(Pending, e)
  <2>1. Pending = Waiting(held, buf, NoEvent) /\ Pending \in Seq(Told) /\ Len(Pending) \in Nat
    BY <1>1, InvFacts
  <2>2. Pending' = Waiting(held, buf, e)
    BY <1>1 DEF Pending, Waiting
  <2>3. Waiting(held, buf, e) = Append(Waiting(held, buf, NoEvent), e)
    BY WaitingFacts DEF IInv, QueueTypes
  <2> QED
    BY <2>1, <2>2, <2>3
<1> DEFINE n == Len(Pending)
<1>5. PICK g : StagesGood(g)
  BY DEF IInv
<1>6. /\ Stages(g, Now, Pending) /\ (\A k \in 0 .. n : Good(g[k], frame, clean, truth))
      /\ Caught(g[n], frame, clean, truth, lua, base)
  BY <1>5 DEF StagesGood
<1>7. PICK h : Stages(h, Now, Append(Pending, e)) /\ Extended(h, g, n, After(g[n], e))
  BY <1>4, <1>6, StagesExtend
<1>8. Len(Pending') = n + 1
  BY <1>4, <1>6, StagesExtend
<1>9. n \in Nat
  BY <1>4
<1> HIDE DEF n
<1>10. n \in 0 .. n /\ \A k \in 0 .. n + 1 : k \in 0 .. n \/ k = n + 1
  BY <1>9
<1>11. \A k \in 0 .. n + 1 : Good(h[k], frame', clean', truth')
  <2> SUFFICES ASSUME NEW k \in 0 .. n + 1 PROVE Good(h[k], frame', clean', truth')
    OBVIOUS
  <2>1. CASE k \in 0 .. n
    BY <1>6, <1>7, <2>1 DEF Extended
  <2>2. CASE k = n + 1
    BY <1>6, <1>7, <1>10, <2>2 DEF Extended
  <2> QED
    BY <1>10, <2>1, <2>2
<1>12. Caught(h[n + 1], frame', clean', truth', lua', base')
  BY <1>6, <1>7, <1>10 DEF Extended
<1>13. StagesGood(h)'
  BY <1>3, <1>4, <1>7, <1>8, <1>11, <1>12 DEF StagesGood
<1> QED
  BY <1>2, <1>3, <1>13 DEF IInv

(* A step of the program that the hook does not see. *)
LEMMA UnseenStep ==
  ASSUME IInv, UNCHANGED <<queueVars, nestingVars, outputVars>>, ProgramTypes',
         \A s : Good(s, frame, clean, truth) => Good(s, frame', clean', truth'),
         \A s : Good(s, frame, clean, truth) /\ Caught(s, frame, clean, truth, lua, base) =>
           Caught(s, frame', clean', truth', lua', base')
  PROVE  IInv'
<1>1. QueueTypes' /\ CurrentOK' /\ Now' = Now /\ Pending' = Pending
  BY DEF IInv, QueueTypes, CurrentOK, Now, Filling, Collected, Pending, queueVars, nestingVars, outputVars
<1>2. PICK g : StagesGood(g)
  BY DEF IInv
<1>3. Len(Pending) \in 0 .. Len(Pending)
  BY InvFacts
<1>4. StagesGood(g)'
  BY <1>1, <1>2, <1>3 DEF StagesGood
<1> QED
  BY <1>1, <1>4 DEF IInv

(* What the consumer does with an event that it holds is the next stage.   *)
LEMMA ConsumerStep ==
  ASSUME IInv, held \in Told, held' = NoEvent, UNCHANGED <<programVars, offered, buf>>,
         Now' = After(Now, held), CurrentOK'
  PROVE  IInv'
<1>1. ProgramTypes' /\ QueueTypes' /\ UNCHANGED <<lua, base, frame, truth, clean>>
  BY DEF IInv, ProgramTypes, QueueTypes, programVars
<1>2. Pending = <<held>> \o Pending' /\ Pending' \in Seq(Told)
  <2>1. Pending' = Waiting(NoEvent, buf, offered)
    BY DEF Pending, Waiting
  <2>2. Waiting(held, buf, offered) = <<held>> \o Waiting(NoEvent, buf, offered)
    BY WaitingFacts DEF IInv, QueueTypes
  <2>3. Waiting(NoEvent, buf, offered) \in Seq(Told)
    BY WaitingFacts DEF IInv, QueueTypes
  <2> QED
    BY <2>1, <2>2, <2>3, InvFacts
<1> DEFINE p == Pending'
           n == Len(p)
<1>3. PICK g : StagesGood(g)
  BY DEF IInv
<1>4. /\ Stages(g, Now, <<held>> \o p)
      /\ \A k \in 0 .. Len(<<held>> \o p) : Good(g[k], frame, clean, truth)
      /\ Caught(g[Len(<<held>> \o p)], frame, clean, truth, lua, base)
  BY <1>2, <1>3 DEF StagesGood
<1>5. p \in Seq(Told) /\ Stages(g, Now, <<held>> \o p)
  BY <1>2, <1>4
<1> HIDE DEF p
<1>6. Len(<<held>> \o p) = n + 1 /\ n \in Nat
  BY <1>5, StagesAdvance
<1> DEFINE a == Now'
<1>7. a = After(Now, held)
  OBVIOUS
<1> HIDE DEF a
<1>8. PICK h : Stages(h, a, p) /\ Shifted(h, g, n)
  BY <1>5, <1>7, StagesAdvance
<1> HIDE DEF n
<1>9. n \in 0 .. n /\ \A k \in 0 .. n : k + 1 \in 0 .. n + 1
  BY <1>6
<1>10. \A k \in 0 .. n : Good(h[k], frame, clean, truth)
  BY <1>4, <1>6, <1>8, <1>9 DEF Shifted
<1>11. Caught(h[n], frame, clean, truth, lua, base)
  BY <1>4, <1>6, <1>8, <1>9 DEF Shifted
<1>12. StagesGood(h)'
  BY <1>1, <1>8, <1>10, <1>11 DEF StagesGood, p, n, a
<1> QED
  BY <1>1, <1>12 DEF IInv
-----------------------------------------------------------------------------
(* The program's steps. *)
LEMMA AboveAll ==
  ASSUME NEW c, IsCalls(c), NEW n, n = Len(c)
  PROVE  n \in 0 .. Len(c) /\ Above(c, n) = <<>>
<1>1. Len(c) \in Nat
  BY SeqLen DEF IsCalls
<1>2. n \in 0 .. Len(c)
  BY <1>1
<1>3. IsCalls(Above(c, n)) /\ Len(Above(c, n)) = Len(c) - n
  BY <1>2, CallsAbove
<1> QED
  BY <1>1, <1>2, <1>3, SeqLen DEF IsCalls

LEMMA AboveOne ==
  ASSUME NEW c, IsCalls(c), NEW b \in 0 .. Len(c)
  PROVE  /\ Len(Above(c, b)) = 1 <=> Len(c) = b + 1
         /\ Len(c) = b + 1 => Above(c, b)[1] = Last(c)
<1>1. Len(c) \in Nat
  BY SeqLen DEF IsCalls
<1>2. Len(Above(c, b)) = Len(c) - b /\ \A i \in 1 .. Len(c) - b : Above(c, b)[i] = c[b + i]
  BY CallsAbove
<1>3. Len(c) = b + 1 <=> Len(c) - b = 1
  BY <1>1
<1>4. Len(c) = b + 1 => 1 \in 1 .. Len(c) - b
  BY <1>1
<1> QED
  BY <1>2, <1>3, <1>4 DEF Last

(* The return of a call, for the Lua stack and for what is above b on it. *)
LEMMA ReturnCatches ==
  ASSUME NEW c, IsCalls(c), c # <<>>, NEW b \in 0 .. Len(c),
         NEW d, d = (IF Len(c) > b + 1 THEN Returned(c) ELSE Front(c)),
         NEW a, a = (IF Len(c) <= b THEN Len(c) - 1 ELSE b)
  PROVE  /\ IsCalls(d) /\ a \in 0 .. Len(d)
         /\ Effect(Above(c, b), Out) = Above(d, a)
         /\ Len(Above(c, b)) = 1 => Len(c) = b + 1 /\ Above(c, b)[1] = Last(c)
<1>1. Len(c) \in Nat /\ Len(c) > 0 /\ b \in Nat /\ b <= Len(c)
  BY SeqLen DEF IsCalls
<1>2. IsCalls(Above(c, b)) /\ Len(Above(c, b)) = Len(c) - b
      /\ \A i \in 1 .. Len(c) - b : Above(c, b)[i] = c[b + i]
  BY CallsAbove
<1>3. Len(Above(c, b)) = 1 => Len(c) = b + 1 /\ Above(c, b)[1] = Last(c)
  BY AboveOne
<1>4. Out.type # "call" /\ Out.type # "frame"
  BY DEF Out
<1>5. Effect(Above(c, b), Out) = IF Len(c) - b <= 1 THEN <<>> ELSE Returned(Above(c, b))
  BY <1>2, <1>4 DEF Effect
<1>6. CASE Len(c) > b + 1
  <2>1. d = Returned(c) /\ a = b /\ ~(Len(c) - b <= 1) /\ Len(c) > 1
    BY <1>1, <1>6
  <2>2. IsCalls(Returned(c)) /\ Len(Returned(c)) = Len(c) - 1
    BY <2>1, CallsReturned
  <2>3. Above(Returned(c), b) = Returned(Above(c, b))
    BY <1>6, AboveReturned
  <2>4. b \in 0 .. Len(c) - 1
    BY <1>1, <1>6
  <2> QED
    BY <1>3, <1>5, <2>1, <2>2, <2>3, <2>4
<1>7. CASE ~(Len(c) > b + 1)
  <2>1. d = Front(c) /\ a = Len(c) - 1 /\ Len(c) - b <= 1
    BY <1>1, <1>7
  <2>2. IsCalls(Front(c)) /\ Len(Front(c)) = Len(c) - 1
    BY <1>1, CallsFront
  <2>3. a \in 0 .. Len(d) /\ Above(d, a) = <<>>
    BY <2>1, <2>2, AboveAll
  <2> QED
    BY <1>3, <1>5, <2>1, <2>2, <2>3
<1> QED
  BY <1>6, <1>7

LEMMA LuaCallKeeps ==
  ASSUME IInv, NEW f \in Fun, LuaCall(f)
  PROVE  IInv'
<1> DEFINE e == In(f)
<1>1. /\ Queue!Offer(e) /\ lua' = Append(lua, Call(f))
      /\ UNCHANGED <<base, frame, truth, clean>> /\ UNCHANGED <<nestingVars, outputVars>>
  BY DEF LuaCall, Hook
<1>2. IsCalls(lua) /\ base \in 0 .. Len(lua) /\ Len(lua) \in Nat
  BY SeqLen DEF IInv, ProgramTypes, IsCalls
<1>3. IsCall(Call(f)) /\ f \in Funs
  BY CallIsCall DEF Funs
<1>4. IsCalls(lua') /\ Len(lua') = Len(lua) + 1
  BY <1>1, <1>2, <1>3, CallsAppend
<1>5. base' \in 0 .. Len(lua')
  <2>1. base' = base /\ Len(lua') = Len(lua) + 1
    BY <1>1, <1>4
  <2> QED
    BY <1>2, <2>1
<1>6. ProgramTypes'
  BY <1>1, <1>4, <1>5 DEF IInv, ProgramTypes
<1>7. e \in Told /\ e.type = "call" /\ e.fn = f
  BY <1>3, KindsTold
<1>8. frame \in Nat
  BY InvFacts
<1> HIDE DEF e
<1>9. \A s : Good(s, frame, clean, truth) => Good(s, frame', clean', truth')
  BY <1>1
<1>10. ASSUME NEW s, Good(s, frame, clean, truth), Caught(s, frame, clean, truth, lua, base)
       PROVE  /\ Good(After(s, e), frame', clean', truth')
              /\ Caught(After(s, e), frame', clean', truth', lua', base')
  <2>1. ~Closes(s, e) /\ e.type # "frame"
    BY <1>7 DEF Closes
  <2>2. Good(After(s, e), frame, clean, truth)
    BY <1>7, <1>8, <1>10, <2>1, GoodAfter
  <2>3. /\ After(s, e).open = Append(s.open, Call(f))
        /\ After(s, e).id = s.id /\ After(s, e).trees = s.trees
    BY <1>7, <2>1, AfterFields DEF Effect
  <2>4. Above(lua', base) = Append(Above(lua, base), Call(f))
    BY <1>1, <1>2, <1>3, AboveAppend
  <2>5. Caught(After(s, e), frame, clean, truth, lua', base)
    BY <1>10, <2>3, <2>4 DEF Caught
  <2> QED
    BY <1>1, <2>2, <2>5
<1> QED
  BY <1>1, <1>6, <1>7, <1>9, <1>10, HookedStep

LEMMA BeginsAppend ==
  ASSUME NEW t, IsSeq(t), NEW s, Begins(s, t), Len(s) \in Nat, NEW x
  PROVE  Begins(s, Append(t, x))
<1>1. Len(t) \in Nat /\ Len(s) <= Len(t) /\ \A i \in 1 .. Len(s) : s[i] = t[i]
  BY SeqLen DEF Begins
<1>2. Len(Append(t, x)) = Len(t) + 1 /\ \A i \in 1 .. Len(t) : Append(t, x)[i] = t[i]
  BY AppendSeq
<1>3. \A i \in 1 .. Len(s) : i \in 1 .. Len(t)
  BY <1>1
<1>4. Len(s) <= Len(Append(t, x))
  BY <1>1, <1>2
<1> QED
  BY <1>1, <1>2, <1>3, <1>4 DEF Begins

LEMMA LuaReturnKeeps ==
  ASSUME IInv, LuaReturn
  PROVE  IInv'
<1>1. /\ lua # <<>> /\ Queue!Offer(Out)
      /\ lua' = IF Len(lua) > base + 1 THEN Returned(lua) ELSE Front(lua)
      /\ truth' = IF Len(lua) = base + 1 THEN [truth EXCEPT ![frame] = Append(@, Last(lua))] ELSE truth
      /\ base' = IF Len(lua) <= base THEN Len(lua) - 1 ELSE base
      /\ UNCHANGED <<frame, clean>> /\ UNCHANGED <<nestingVars, outputVars>>
  BY DEF LuaReturn, Hook
<1>2. IsCalls(lua) /\ base \in 0 .. Len(lua)
  BY DEF IInv, ProgramTypes
<1>3. /\ IsCalls(lua') /\ base' \in 0 .. Len(lua')
      /\ Effect(Above(lua, base), Out) = Above(lua', base')
      /\ Len(Above(lua, base)) = 1 => Len(lua) = base + 1 /\ Above(lua, base)[1] = Last(lua)
  BY <1>1, <1>2, ReturnCatches
<1>4. /\ frame \in Frames /\ clean \subseteq Frames /\ DOMAIN truth = Frames
      /\ \A i \in Frames : IsSeq(truth[i]) /\ (i > frame => truth[i] = <<>>)
  BY DEF IInv, ProgramTypes
<1>5. frame \in Nat /\ clean \in SUBSET Nat
  BY InvFacts
<1>6. DOMAIN truth' = Frames
  BY <1>1, <1>4
<1>7. \A i \in Frames : i # frame => truth'[i] = truth[i]
  BY <1>1, <1>4
<1>8. truth'[frame] = IF Len(lua) = base + 1 THEN Append(truth[frame], Last(lua)) ELSE truth[frame]
  BY <1>1, <1>4
<1>9. ProgramTypes'
  <2>1. \A i \in Frames : i > frame => i # frame
    BY <1>5
  <2>2. IsSeq(Append(truth[frame], Last(lua)))
    BY <1>4, AppendSeq
  <2>3. \A i \in Frames : IsSeq(truth'[i]) /\ (i > frame' => truth'[i] = <<>>)
    BY <1>1, <1>4, <1>7, <1>8, <2>1, <2>2
  <2> QED
    BY <1>1, <1>3, <1>4, <1>6, <2>3 DEF ProgramTypes
<1>10. Out \in Told /\ Out.type = "return" /\ Out.type # "frame"
  BY KindsTold
<1>11. ASSUME NEW s, Good(s, frame, clean, truth) PROVE Good(s, frame, clean, truth')
  <2>1. s.id \in 0 .. frame /\ IsSeq(s.trees)
    BY <1>11 DEF Good
  <2>2. \A i \in clean : i < s.id => truth'[i] = truth[i]
    <3>1. \A i \in clean : i < s.id => i # frame /\ i \in Frames
      BY <1>4, <1>5, <2>1
    <3> QED
      BY <1>7, <3>1
  <2>3. ASSUME s.id \in clean, Begins(s.trees, truth[s.id]) PROVE Begins(s.trees, truth'[s.id])
    <3>1. CASE s.id # frame
      BY <1>4, <1>7, <2>3, <3>1
    <3>2. CASE s.id = frame /\ Len(lua) = base + 1
      <4> DEFINE t == truth[frame]
      <4>1. truth'[frame] = Append(t, Last(lua))
        BY <1>8, <3>2
      <4>2. IsSeq(t) /\ Begins(s.trees, t) /\ Len(s.trees) \in Nat
        BY <1>4, <2>1, <2>3, <3>2, SeqLen
      <4> HIDE DEF t
      <4>3. Begins(s.trees, Append(t, Last(lua)))
        BY <4>2, BeginsAppend
      <4> QED
        BY <3>2, <4>1, <4>3
    <3>3. CASE s.id = frame /\ Len(lua) # base + 1
      BY <1>8, <2>3, <3>3
    <3> QED
      BY <3>1, <3>2, <3>3
  <2> QED
    <3>1. frame >= frame /\ clean \subseteq clean
      BY <1>5
    <3>2. s.id \in clean /\ s.id > 0 /\ Begins(s.trees, truth[s.id]) => Begins(s.trees, truth'[s.id])
      BY <2>3
    <3> QED
      BY <1>5, <1>11, <2>2, <3>1, <3>2, GoodWhile
<1>12. ASSUME NEW s, Good(s, frame, clean, truth), Caught(s, frame, clean, truth, lua, base)
       PROVE  /\ Good(After(s, Out), frame, clean, truth')
              /\ Caught(After(s, Out), frame, clean, truth', lua', base')
  <2>1. /\ s.id = frame /\ IsSeq(s.trees)
        /\ frame \in clean => s.open = Above(lua, base) /\ (frame > 0 => s.trees = truth[frame])
    BY <1>12 DEF Caught, Good
  <2> DEFINE t == After(s, Out)
  <2>2. /\ t.open = Effect(s.open, Out) /\ t.id = s.id
        /\ t.trees = IF Closes(s, Out) /\ s.id > 0 THEN Append(s.trees, s.open[1]) ELSE s.trees
    BY <1>10, AfterFields
  <2>3. frame \in clean => (Closes(s, Out) <=> Len(lua) = base + 1)
    <3>1. Len(Above(lua, base)) = 1 <=> Len(lua) = base + 1
      BY <1>2, AboveOne
    <3> QED
      BY <1>10, <2>1, <3>1 DEF Closes
  <2> HIDE DEF t
  <2>4. ASSUME frame \in clean, frame > 0 PROVE t.trees = truth'[frame]
    <3>1. CASE Len(lua) = base + 1
      <4>1. Closes(s, Out) /\ s.open[1] = Last(lua)
        BY <1>3, <2>1, <2>3, <2>4, <3>1 DEF Closes
      <4> QED
        BY <1>8, <2>1, <2>2, <2>4, <3>1, <4>1
    <3>2. CASE Len(lua) # base + 1
      BY <1>8, <2>1, <2>2, <2>3, <2>4, <3>2
    <3> QED
      BY <3>1, <3>2
  <2>5. Closes(s, Out) /\ s.id > 0 /\ s.id \in clean => Begins(Append(s.trees, s.open[1]), truth'[s.id])
    <3>1. ASSUME Closes(s, Out), s.id > 0, s.id \in clean
          PROVE  Append(s.trees, s.open[1]) = truth'[s.id] /\ IsSeq(Append(s.trees, s.open[1]))
      BY <2>1, <2>2, <2>4, <3>1, AppendSeq
    <3> QED
      BY <3>1, SeqLen DEF Begins
  <2>6. Good(t, frame, clean, truth')
    BY <1>5, <1>10, <1>11, <1>12, <2>5, GoodAfter DEF t
  <2>7. Caught(t, frame, clean, truth', lua', base')
    BY <1>3, <2>1, <2>2, <2>4 DEF Caught
  <2> QED
    BY <2>6, <2>7 DEF t
<1> QED
  BY <1>1, <1>9, <1>10, <1>11, <1>12, HookedStep

(* Where the frame is not clean any more, the calls and its trees may be   *)
(* anything.                                                               *)
LEMMA GoodUnclean ==
  ASSUME NEW fr \in Nat, NEW cl \in SUBSET Nat, NEW tr, NEW s, Good(s, fr, cl, tr)
  PROVE  Good(s, fr, cl \ {fr}, tr)
<1>1. fr >= fr /\ cl \ {fr} \subseteq cl
  OBVIOUS
<1> QED
  BY <1>1, GoodWhile

LEMMA LuaErrorKeeps ==
  ASSUME IInv, NEW n \in 0 .. MaxDepth - 1, LuaError(n)
  PROVE  IInv'
<1>1. /\ n < Len(lua) /\ lua' = SubSeq(lua, 1, n) /\ base' = (IF n < base THEN n ELSE base)
      /\ clean' = clean \ {frame} /\ UNCHANGED <<frame, truth>>
      /\ UNCHANGED <<queueVars, nestingVars, outputVars>>
  BY DEF LuaError
<1>2. /\ IsCalls(lua) /\ base \in 0 .. Len(lua) /\ Len(lua) \in Nat
      /\ frame \in Nat /\ clean \in SUBSET Nat
  BY InvFacts, SeqLen DEF IInv, ProgramTypes, IsCalls
<1>3. n \in 0 .. Len(lua)
  BY <1>1, <1>2
<1>4. IsCalls(lua') /\ Len(lua') = n
  BY <1>1, <1>2, <1>3, CallsBelow
<1>5. base' \in 0 .. Len(lua')
  <2>1. base' \in 0 .. n
    BY <1>1, <1>2, <1>3
  <2> QED
    BY <1>4, <2>1
<1>6. ProgramTypes'
  BY <1>1, <1>4, <1>5 DEF IInv, ProgramTypes
<1>7. \A s : Good(s, frame, clean, truth) => Good(s, frame', clean', truth')
  BY <1>1, <1>2, GoodUnclean
<1>8. \A s : Caught(s, frame, clean, truth, lua, base) => Caught(s, frame', clean', truth', lua', base')
  BY <1>1 DEF Caught
<1> QED
  BY <1>1, <1>6, <1>7, <1>8, UnseenStep

LEMMA LuaTailCallKeeps ==
  ASSUME IInv, NEW f \in Fun, LuaTailCall(f)
  PROVE  IInv'
<1> DEFINE e == TailCallEvent
<1>1. /\ lua # <<>> /\ Queue!Offer(e) /\ lua' = Append(Front(lua), Call(f))
      /\ clean' = clean \ {frame} /\ UNCHANGED <<base, frame, truth>>
      /\ UNCHANGED <<nestingVars, outputVars>>
  BY DEF LuaTailCall, Hook
<1>2. /\ IsCalls(lua) /\ base \in 0 .. Len(lua) /\ Len(lua) \in Nat /\ Len(lua) > 0
      /\ frame \in Nat /\ clean \in SUBSET Nat
  BY <1>1, InvFacts, SeqLen DEF IInv, ProgramTypes, IsCalls
<1>3. IsCalls(Front(lua)) /\ Len(Front(lua)) = Len(lua) - 1
  BY <1>2, CallsFront
<1>4. IsCall(Call(f))
  BY CallIsCall DEF Funs
<1>5. IsCalls(lua') /\ Len(lua') = Len(lua)
  <2>1. IsCalls(lua') /\ Len(lua') = Len(Front(lua)) + 1
    BY <1>1, <1>3, <1>4, CallsAppend
  <2> QED
    BY <1>2, <1>3, <2>1
<1>6. ProgramTypes'
  BY <1>1, <1>2, <1>5 DEF IInv, ProgramTypes
<1>7. e \in Told /\ e.type = "tailcall" /\ e.type # "frame"
  BY KindsTold
<1> HIDE DEF e
<1>8. \A s : Good(s, frame, clean, truth) => Good(s, frame', clean', truth')
  BY <1>1, <1>2, GoodUnclean
<1>9. ASSUME NEW s, Good(s, frame, clean, truth), Caught(s, frame, clean, truth, lua, base)
      PROVE  /\ Good(After(s, e), frame', clean', truth')
             /\ Caught(After(s, e), frame', clean', truth', lua', base')
  <2>1. Good(s, frame, clean', truth)
    BY <1>1, <1>8, <1>9
  <2>2. s.id = frame /\ frame \notin clean'
    BY <1>1, <1>9 DEF Caught
  <2>3. Good(After(s, e), frame, clean', truth)
    BY <1>2, <1>7, <2>1, <2>2, GoodAfter
  <2>4. After(s, e).id = frame
    BY <1>7, <2>2, AfterFields
  <2> QED
    BY <1>1, <2>2, <2>3, <2>4 DEF Caught
<1> QED
  BY <1>1, <1>6, <1>7, <1>8, <1>9, HookedStep

LEMMA HostFrameKeeps ==
  ASSUME IInv, HostFrame
  PROVE  IInv'
<1> DEFINE e == FrameEvent(frame + 1)
<1>1. /\ frame < MaxFrame /\ Queue!Offer(e) /\ frame' = frame + 1 /\ base' = Len(lua)
      /\ UNCHANGED <<lua, truth, clean>> /\ UNCHANGED <<nestingVars, outputVars>>
  BY DEF HostFrame
<1>2. /\ IsCalls(lua) /\ Len(lua) \in Nat /\ frame \in Nat /\ clean \in SUBSET Nat /\ MaxFrame \in Nat
      /\ frame \in Frames /\ clean \subseteq Frames /\ DOMAIN truth = Frames
      /\ \A i \in Frames : IsSeq(truth[i]) /\ (i > frame => truth[i] = <<>>)
  BY InvFacts, SeqLen DEF IInv, ProgramTypes, IsCalls
<1>3. frame + 1 \in Frames /\ frame + 1 > 0 /\ frame + 1 > frame
      /\ \A i \in Frames : i > frame + 1 => i > frame
  BY <1>1, <1>2 DEF Frames
<1>4. Len(lua) \in 0 .. Len(lua) /\ Above(lua, Len(lua)) = <<>>
  BY <1>2, AboveAll
<1>5. ProgramTypes'
  BY <1>1, <1>2, <1>3, <1>4 DEF ProgramTypes
<1>6. e \in Told /\ e.type = "frame" /\ e.id = frame + 1
  BY <1>3, KindsTold
<1> HIDE DEF e
<1>7. \A s : Good(s, frame, clean, truth) => Good(s, frame', clean', truth')
  <2>1. frame + 1 >= frame /\ clean \subseteq clean /\ frame + 1 \in Nat
    BY <1>2
  <2>2. \A s : Good(s, frame, clean, truth) => Good(s, frame + 1, clean, truth)
    BY <1>2, <2>1, GoodWhile
  <2> QED
    BY <1>1, <2>2
<1>8. truth[frame + 1] = <<>>
  BY <1>2, <1>3
<1>9. ASSUME NEW s, Good(s, frame, clean, truth), Caught(s, frame, clean, truth, lua, base)
      PROVE  /\ Good(After(s, e), frame', clean', truth')
             /\ Caught(After(s, e), frame', clean', truth', lua', base')
  <2>1. s.id = frame /\ (frame \in clean /\ frame > 0 => s.trees = truth[frame])
    BY <1>9 DEF Caught
  <2>2. Good(After(s, e), frame + 1, clean, truth)
    BY <1>2, <1>6, <1>8, <1>9, <2>1, GoodAnnounced
  <2>3. After(s, e).open = <<>> /\ After(s, e).id = frame + 1 /\ After(s, e).trees = <<>>
    BY <1>6, AfterFields DEF Effect
  <2>4. Caught(After(s, e), frame + 1, clean, truth, lua, Len(lua))
    BY <1>4, <1>8, <2>3 DEF Caught
  <2> QED
    BY <1>1, <2>2, <2>4
<1> QED
  BY <1>1, <1>5, <1>6, <1>7, <1>9, HookedStep
-----------------------------------------------------------------------------
(* The queue's steps leave what is on its way as it is. *)
LEMMA QueueKeeps ==
  ASSUME IInv, Push \/ Pop
  PROVE  IInv'
<1>1. UNCHANGED <<programVars, nestingVars, outputVars>>
  BY DEF Push, Pop
<1>2. ProgramTypes' /\ CurrentOK' /\ Now' = Now /\ UNCHANGED <<lua, base, frame, truth, clean>>
  BY <1>1 DEF IInv, ProgramTypes, CurrentOK, Now, Filling, Collected, programVars, nestingVars, outputVars
<1>3. /\ offered \in Told \cup {NoEvent} /\ held \in Told \cup {NoEvent}
      /\ buf \in Seq(Told) /\ Len(buf) <= Capacity
  BY DEF IInv, QueueTypes
<1>4. Capacity \in Nat /\ Len(buf) \in Nat
  BY <1>3, InvFacts
<1>5. NoEvent \in Told \cup {NoEvent}
  OBVIOUS
<1>6. CASE Push
  <2>1. /\ offered # NoEvent /\ Len(buf) < Capacity /\ buf' = Append(buf, offered)
        /\ offered' = NoEvent /\ held' = held
    BY <1>6 DEF Push, Queue!Enqueue
  <2>2. offered \in Told
    BY <1>3, <2>1
  <2>3. buf' \in Seq(Told) /\ Len(buf') = Len(buf) + 1
    BY <1>3, <2>1, <2>2, AppendProperties
  <2>4. QueueTypes'
    BY <1>3, <1>4, <2>1, <2>3 DEF QueueTypes
  <2>5. Waiting(held, Append(buf, offered), NoEvent) = Waiting(held, buf, offered)
    BY <1>3, <2>2, WaitingFacts
  <2>6. Pending' = Pending
    BY <2>1, <2>5 DEF Pending, Waiting
  <2> QED
    BY <1>2, <2>4, <2>6 DEF IInv, StagesGood
<1>7. CASE Pop
  <2>1. held = NoEvent /\ buf # <<>> /\ held' = Head(buf) /\ buf' = Tail(buf) /\ offered' = offered
    BY <1>7 DEF Pop, Queue!Dequeue
  <2>2. held' \in Told /\ buf' \in Seq(Told) /\ Len(buf') = Len(buf) - 1
    BY <1>3, <2>1, HeadTailProperties
  <2>3. QueueTypes'
    BY <1>3, <1>4, <2>1, <2>2 DEF QueueTypes
  <2>4. Waiting(Head(buf), Tail(buf), offered) = Waiting(NoEvent, buf, offered)
    BY <1>3, <2>1, WaitingFacts
  <2>5. Pending' = Pending
    BY <2>1, <2>4 DEF Pending, Waiting
  <2> QED
    BY <1>2, <2>3, <2>5 DEF IInv, StagesGood
<1> QED
  BY <1>6, <1>7
-----------------------------------------------------------------------------
(* The consumer's steps. *)
LEMMA NowFacts ==
  ASSUME IInv
  PROVE  /\ Good(Now, frame, clean, truth)
         /\ Now.open = open /\ Now.id = Filling /\ Now.trees = Collected /\ Now.log = log
         /\ IsCalls(open) /\ IsSeq(Collected) /\ IsSeq(log) /\ Filling \in Nat
         /\ Filling = 0 <=> current = <<>>
<1>1. PICK g : StagesGood(g)
  BY DEF IInv
<1>2. 0 \in 0 .. Len(Pending)
  BY InvFacts
<1>3. Good(Now, frame, clean, truth)
  BY <1>1, <1>2 DEF StagesGood, Stages
<1>4. Now.open = open /\ Now.id = Filling /\ Now.trees = Collected /\ Now.log = log
  BY StageFields DEF Now
<1>5. Filling = 0 <=> current = <<>>
  <2>1. Filling # 0 => current # <<>>
    BY DEF Filling
  <2>2. Filling = 0 => current = <<>>
    BY DEF IInv, CurrentOK
  <2> QED
    BY <2>1, <2>2
<1>6. IsCalls(open) /\ IsSeq(Collected) /\ IsSeq(log) /\ Filling \in 0 .. frame
  BY <1>3, <1>4 DEF Good
<1>7. Filling \in Nat
  BY <1>6, InvFacts
<1> QED
  BY <1>3, <1>4, <1>5, <1>6, <1>7

LEMMA OutputSame ==
  ASSUME IInv, UNCHANGED outputVars
  PROVE  CurrentOK' /\ Filling' = Filling /\ Collected' = Collected /\ log' = log
BY DEF IInv, CurrentOK, Filling, Collected, outputVars

LEMMA HandleInSteps ==
  ASSUME IInv, held \in Told, HandleIn
  PROVE  CurrentOK' /\ Now' = After(Now, held)
<1>1. /\ held.type = "call" /\ open' = Append(open, [fn |-> held.fn, sub |-> <<>>])
      /\ UNCHANGED outputVars
  BY DEF HandleIn, Nesting!Enter
<1>2. open' = Effect(open, held)
  BY <1>1 DEF Effect, Call
<1>3. held.type # "frame" /\ ~Closes(Now, held)
  BY <1>1 DEF Closes
<1>4. After(Now, held) = Stage(Effect(open, held), Filling, Collected, log)
  BY <1>3, NowFacts DEF After
<1>5. CurrentOK' /\ Now' = Stage(open', Filling, Collected, log)
  BY <1>1, OutputSame DEF Now
<1> QED
  BY <1>2, <1>4, <1>5

(* A tree goes to the frame that is being filled, if there is one. *)
LEMMA AttachFacts ==
  ASSUME IInv, NEW t, Output!Attach(t)
  PROVE  /\ CurrentOK' /\ Filling' = Filling /\ log' = log
         /\ Collected' = IF Filling > 0 THEN Append(Collected, t) ELSE Collected
<1>1. /\ current' = [i \in DOMAIN current |-> [current[i] EXCEPT !.trees = Append(@, t)]]
      /\ log' = log
  BY DEF Output!Attach
<1>2. CASE Filling = 0
  <2>1. current = <<>>
    BY <1>2, NowFacts
  <2>2. current' = <<>>
    BY <1>1, <2>1
  <2>3. ~(Filling > 0)
    BY <1>2
  <2> QED
    BY <1>1, <1>2, <2>1, <2>2, <2>3 DEF CurrentOK, Filling, Collected
<1>3. CASE Filling # 0
  <2> DEFINE f == Filling
             c == Collected
             d == Append(c, t)
             r == [id |-> f, trees |-> c]
             q == [id |-> f, trees |-> d]
  <2>1. current = <<r>> /\ Filling > 0
    BY <1>3, NowFacts DEF IInv, CurrentOK
  <2>2. [r EXCEPT !.trees = Append(@, t)] = q
    <3>1. [r EXCEPT !.trees = Append(@, t)] = [r EXCEPT !.trees = d]
      OBVIOUS
    <3> HIDE DEF f, c, d
    <3> QED
      BY <3>1
  <2>3. q.id = f /\ q.trees = d
    OBVIOUS
  <2>4. current' = [i \in DOMAIN <<r>> |-> [<<r>>[i] EXCEPT !.trees = Append(@, t)]]
    BY <1>1, <2>1
  <2> HIDE DEF r, q
  <2>5. current' = <<q>>
    <3>1. DOMAIN <<r>> = {1} /\ <<r>>[1] = r
      OBVIOUS
    <3>2. current' = [i \in {1} |-> q]
      BY <2>2, <2>4, <3>1
    <3>3. <<q>> = [i \in {1} |-> q]
      OBVIOUS
    <3> QED
      BY <3>2, <3>3
  <2>6. current' # <<>> /\ current'[1] = q
    BY <2>5
  <2>7. Filling' = f /\ Collected' = d
    BY <2>3, <2>6 DEF Filling, Collected
  <2>8. CurrentOK'
    <3>1. Filling' # 0 /\ <<q>> = <<[id |-> Filling', trees |-> Collected']>>
      BY <1>3, <2>7 DEF q
    <3> QED
      BY <2>5, <3>1 DEF CurrentOK
  <2> QED
    BY <1>1, <2>1, <2>7, <2>8
<1> QED
  BY <1>2, <1>3

LEMMA HandleOutSteps ==
  ASSUME IInv, held \in Told, HandleOut
  PROVE  CurrentOK' /\ Now' = After(Now, held)
<1>1. held.type \in {"return", "tailcall"} /\ held.type # "frame" /\ held.type # "call"
  BY DEF HandleOut
<1>2. IsCalls(open) /\ (open = <<>> <=> Len(open) = 0)
  BY NowFacts, SeqLen DEF IsCalls
<1>3. Len(open) \in Nat
  BY NowFacts, SeqLen DEF IsCalls
<1>4. After(Now, held) = Stage(Effect(open, held), Filling,
        IF Len(open) = 1 /\ Filling > 0 THEN Append(Collected, open[1]) ELSE Collected, log)
  <2>1. Closes(Now, held) <=> Len(open) = 1
    BY <1>1, NowFacts DEF Closes
  <2> QED
    BY <1>1, <2>1, NowFacts DEF After
<1>5. CASE HandleOutUnmatched
  <2>1. open = <<>> /\ open' = open /\ UNCHANGED outputVars
    BY <1>5 DEF HandleOutUnmatched, Nesting!LeaveUnmatched
  <2>2. Len(open) <= 1 /\ Len(open) # 1
    BY <1>2, <2>1
  <2>3. Effect(open, held) = open' /\ After(Now, held) = Stage(Effect(open, held), Filling, Collected, log)
    BY <1>1, <1>4, <2>1, <2>2 DEF Effect
  <2>4. CurrentOK' /\ Now' = Stage(open', Filling, Collected, log)
    BY <2>1, OutputSame DEF Now
  <2> QED
    BY <2>3, <2>4
<1>6. CASE HandleOutInner
  <2>1. /\ Len(open) > 1 /\ UNCHANGED outputVars
        /\ open' = [Front(open) EXCEPT ![Len(open) - 1].sub = Append(@, Last(open))]
    BY <1>6 DEF HandleOutInner, Nesting!LeaveInner, Nesting!Front, Nesting!Last, Front, Last
  <2>2. open' = Returned(open)
    BY <2>1 DEF Returned
  <2>3. ~(Len(open) <= 1) /\ Len(open) # 1
    <3>1. Len(open) > 1
      BY <2>1
    <3>2. \A n \in Nat : n > 1 => ~(n <= 1) /\ n # 1
      OBVIOUS
    <3> QED
      BY <1>3, <3>1, <3>2
  <2>4. Effect(open, held) = open' /\ After(Now, held) = Stage(Effect(open, held), Filling, Collected, log)
    BY <1>1, <1>4, <2>2, <2>3 DEF Effect
  <2>5. CurrentOK' /\ Now' = Stage(open', Filling, Collected, log)
    BY <2>1, OutputSame DEF Now
  <2> QED
    BY <2>4, <2>5
<1>7. CASE HandleOutOuter
  <2>1. /\ Len(open) = 1 /\ given' = Nesting!TreeOut(Head(open)) /\ open' = <<>>
        /\ Output!Attach(given'.tree)
    BY <1>7 DEF HandleOutOuter, Nesting!LeaveOuter
  <2> DEFINE t == Head(open)
  <2>2. Output!Attach(t) /\ t = open[1]
    <3>1. Nesting!TreeOut(t).tree = t
      BY DEF Nesting!TreeOut
    <3>2. given'.tree = t
      BY <2>1, <3>1
    <3>3. t = open[1]
      OBVIOUS
    <3> QED
      BY <2>1, <3>2, <3>3
  <2> HIDE DEF t
  <2>3. /\ CurrentOK' /\ Filling' = Filling /\ log' = log
        /\ Collected' = IF Filling > 0 THEN Append(Collected, t) ELSE Collected
    BY <2>2, AttachFacts
  <2>4. Effect(open, held) = <<>>
    BY <1>1, <2>1 DEF Effect
  <2>5. Now' = Stage(<<>>, Filling, IF Filling > 0 THEN Append(Collected, t) ELSE Collected, log)
    BY <2>1, <2>3 DEF Now
  <2>6. After(Now, held) = Stage(<<>>, Filling, IF Filling > 0 THEN Append(Collected, t) ELSE Collected, log)
    BY <1>4, <2>1, <2>2, <2>4
  <2> QED
    BY <2>3, <2>5, <2>6
<1> QED
  BY <1>5, <1>6, <1>7 DEF HandleOut

LEMMA WrittenIsLines ==
  ASSUME IInv
  PROVE  (IF current = <<>> THEN <<>> ELSE Output!Written(current[1])) = Lines(Now)
<1>1. CASE Filling = 0
  <2>1. current = <<>>
    BY <1>1, NowFacts
  <2> QED
    BY <1>1, <2>1, NowFacts DEF Lines
<1>2. CASE Filling # 0
  <2> DEFINE f == [id |-> Filling, trees |-> Collected]
             h == [id |-> Filling, trees |-> <<>>]
  <2>1. current # <<>> /\ current[1] = f
    <3>1. current = <<f>>
      BY <1>2 DEF IInv, CurrentOK
    <3> HIDE DEF f
    <3> QED
      BY <3>1
  <2>2. f.id = Filling /\ f.trees = Collected
    OBVIOUS
  <2>3. Collected = <<>> => f = h
    OBVIOUS
  <2>4. Output!Header(f.id) = h
    BY <2>2 DEF Output!Header
  <2>5. /\ Now.id = Filling /\ Now.trees = Collected /\ Now.log = log
    BY NowFacts
  <2>6. Lines(Now) = IF Collected # <<>> THEN <<h, f>>
                     ELSE IF log # <<>> /\ log[Len(log)].trees # <<>> /\ log[Len(log)].id # Filling
                     THEN <<h>> ELSE <<>>
    BY <1>2, <2>5 DEF Lines
  <2> HIDE DEF f, h
  <2>7. Output!Written(f) = IF Collected # <<>> THEN <<h, f>>
                     ELSE IF log # <<>> /\ log[Len(log)].trees # <<>> /\ log[Len(log)].id # Filling
                     THEN <<f>> ELSE <<>>
    BY <2>2, <2>4 DEF Output!Written, Output!Last, Last
  <2> QED
    BY <2>1, <2>3, <2>6, <2>7
<1> QED
  BY <1>1, <1>2

LEMMA HandleFrameSteps ==
  ASSUME IInv, held \in Told, HandleFrame
  PROVE  CurrentOK' /\ Now' = After(Now, held)
<1> DEFINE i == held.id
           h == [id |-> i, trees |-> <<>>]
<1>1. /\ held.type = "frame" /\ open' = <<>> /\ current' = <<h>>
      /\ log' = log \o (IF current = <<>> THEN <<>> ELSE Output!Written(current[1]))
  BY DEF HandleFrame, Nesting!Mark, Output!Announce, Output!Header
<1>2. log' = log \o Lines(Now)
  BY <1>1, WrittenIsLines
<1>3. i > 0 /\ i \in Nat
  BY <1>1, ToldKinds DEF Frames
<1>4. h.id = i /\ h.trees = <<>>
  OBVIOUS
<1> HIDE DEF i
<1>5. current' # <<>> /\ current'[1] = h
  BY <1>1
<1> HIDE DEF h
<1>6. Filling' = i /\ Collected' = <<>>
  BY <1>4, <1>5 DEF Filling, Collected
<1>7. CurrentOK'
  <2>1. Filling' # 0 /\ <<[id |-> Filling', trees |-> Collected']>> = <<h>>
    BY <1>3, <1>6 DEF h
  <2> QED
    BY <1>1, <2>1 DEF CurrentOK
<1>8. Now' = Stage(<<>>, i, <<>>, log \o Lines(Now))
  BY <1>1, <1>2, <1>6 DEF Now
<1>9. After(Now, held) = Stage(<<>>, i, <<>>, log \o Lines(Now))
  BY <1>1, NowFacts DEF After, i
<1> QED
  BY <1>7, <1>8, <1>9

LEMMA HandleKeeps ==
  ASSUME IInv, Handle
  PROVE  IInv'
<1>1. held # NoEvent /\ held' = NoEvent /\ UNCHANGED <<programVars, offered, buf>>
  BY DEF Handle, Queue!Release
<1>2. held \in Told
  BY <1>1 DEF IInv, QueueTypes
<1>3. CurrentOK' /\ Now' = After(Now, held)
  BY <1>2, HandleInSteps, HandleOutSteps, HandleFrameSteps DEF Handle
<1> QED
  BY <1>1, <1>2, <1>3, ConsumerStep
-----------------------------------------------------------------------------
LEMMA InitIInv == Init => IInv
<1> SUFFICES ASSUME Init PROVE IInv
  OBVIOUS
<1> DEFINE e == In(profiler_start)
           p == Call(profiler_start)
<1>1. PICK f \in Fun : lua = <<Call(f), p>>
  BY DEF Init
<1>2. /\ base = 1 /\ frame = 0 /\ clean = Frames /\ truth = [i \in Frames |-> <<>>]
      /\ offered = e /\ buf = <<>> /\ held = NoEvent
      /\ open = <<>> /\ current = <<>> /\ log = <<>>
  BY DEF Init, Nesting!NestingInit
<1>3. MaxFrame \in Nat /\ Capacity \in Nat /\ 0 \in Frames /\ Frames \in SUBSET Nat
  BY PipelineAssumption DEF Frames
<1>4. IsCall(Call(f)) /\ IsCall(p)
  BY CallIsCall DEF Funs
<1> HIDE DEF p
<1>5. IsCalls(lua) /\ Len(lua) = 2 /\ lua[2] = p
  <2> DEFINE c == Call(f)
  <2>1. lua = <<c, p>> /\ IsCall(c)
    BY <1>1, <1>4
  <2> HIDE DEF c
  <2>2. <<c, p>> \in Seq({c, p}) /\ Len(<<c, p>>) = 2 /\ <<c, p>>[1] = c /\ <<c, p>>[2] = p
    OBVIOUS
  <2>3. \A i \in 1 .. 2 : i = 1 \/ i = 2
    OBVIOUS
  <2>4. \A i \in 1 .. 2 : IsCall(<<c, p>>[i])
    BY <1>4, <2>1, <2>2, <2>3
  <2> QED
    BY <2>1, <2>2, <2>4 DEF IsCalls, IsSeq
<1>6. ProgramTypes
  <2>1. base \in 0 .. Len(lua)
    BY <1>2, <1>5
  <2> QED
    BY <1>2, <1>3, <1>5, <2>1, EmptyIsSeq DEF ProgramTypes
<1>7. e \in Told /\ e.type = "call" /\ e.fn = profiler_start
  BY KindsTold DEF Funs
<1> HIDE DEF e
<1>8. QueueTypes
  <2>1. <<>> \in Seq(Told) /\ Len(<<>>) = 0 /\ 0 <= Capacity
    BY <1>3, EmptySeq
  <2> QED
    BY <1>2, <1>7, <2>1 DEF QueueTypes
<1>9. CurrentOK /\ Filling = 0 /\ Collected = <<>>
  BY <1>2 DEF CurrentOK, Filling, Collected
<1>10. Pending = Append(<<>>, e) /\ <<>> \in Seq(Told)
  <2>1. <<>> \in Seq(Told) /\ NoEvent \in Told \cup {NoEvent}
    BY EmptySeq
  <2>2. Waiting(NoEvent, <<>>, e) = Append(Waiting(NoEvent, <<>>, NoEvent), e)
    BY <1>7, <2>1, WaitingFacts
  <2>3. Waiting(NoEvent, <<>>, NoEvent) = <<>>
    BY PresentFacts DEF Waiting
  <2> QED
    BY <1>2, <2>1, <2>2, <2>3 DEF Pending, Waiting
<1>11. Now.open = <<>> /\ Now.id = 0 /\ Now.trees = <<>> /\ Now.log = <<>>
  <2>1. Now = Stage(open, Filling, Collected, log)
    BY DEF Now
  <2> QED
    BY <1>2, <1>9, <2>1, StageFields
<1>12. Good(Now, frame, clean, truth)
  <2>1. IsCalls(<<>>) /\ IsSeq(<<>>) /\ Len(<<>>) = 0
    BY EmptyIsSeq DEF IsCalls
  <2>2. Ordered(<<>>)
    BY DEF Ordered
  <2>3. \A i \in clean : ~(0 < i /\ i < 0)
    BY <1>2, <1>3
  <2>4. /\ IsCalls(Now.open) /\ IsSeq(Now.trees) /\ IsSeq(Now.log) /\ Len(Now.log) = 0
        /\ Now.id \in 0 .. frame /\ (Now.id = 0 => Now.trees = <<>>) /\ Ordered(Now.log)
    BY <1>2, <1>11, <2>1, <2>2
  <2>5. \A k \in 1 .. Len(Now.log) : FALSE
    BY <2>4
  <2>6. \A i \in clean : ~(0 < i /\ i < Now.id)
    BY <1>11, <2>3
  <2>7. ~(Now.id > 0)
    BY <1>11
  <2> QED
    BY <2>4, <2>5, <2>6, <2>7 DEF Good
<1>13. /\ After(Now, e).open = Append(<<>>, p) /\ After(Now, e).id = 0
  <2>1. After(Now, e).open = Effect(Now.open, e) /\ After(Now, e).id = Now.id
    BY <1>7, AfterFields
  <2>2. Effect(Now.open, e) = Append(Now.open, Call(e.fn))
    BY <1>7 DEF Effect
  <2>3. Call(e.fn) = p
    BY <1>7 DEF p
  <2> QED
    BY <1>11, <2>1, <2>2, <2>3
<1>14. Good(After(Now, e), frame, clean, truth)
  <2>1. e.type # "frame" /\ ~Closes(Now, e) /\ frame \in Nat
    BY <1>2, <1>7 DEF Closes
  <2> QED
    BY <1>7, <1>12, <2>1, GoodAfter
<1>15. Above(lua, 1) = Append(<<>>, p)
  <2>1. /\ IsCalls(Above(lua, 1)) /\ Len(Above(lua, 1)) = 1 /\ Above(lua, 1)[1] = p
    <3>1. 1 \in 0 .. Len(lua) /\ Len(lua) - 1 = 1 /\ 1 \in 1 .. Len(lua) - 1 /\ 1 + 1 = 2
      BY <1>5
    <3>2. /\ IsCalls(Above(lua, 1)) /\ Len(Above(lua, 1)) = Len(lua) - 1
          /\ \A i \in 1 .. Len(lua) - 1 : Above(lua, 1)[i] = lua[1 + i]
      BY <1>5, <3>1, CallsAbove
    <3> QED
      BY <1>5, <3>1, <3>2
  <2>2. IsSeq(Append(<<>>, p)) /\ Len(Append(<<>>, p)) = 1 /\ Append(<<>>, p)[1] = p
    <3> DEFINE z == <<>>
    <3>1. 0 + 1 = 1 /\ IsSeq(z) /\ Len(z) = 0
      BY EmptyIsSeq
    <3> HIDE DEF z
    <3>2. IsSeq(Append(z, p)) /\ Len(Append(z, p)) = Len(z) + 1 /\ Append(z, p)[Len(z) + 1] = p
      BY <3>1, AppendSeq
    <3> QED
      BY <3>1, <3>2 DEF z
  <2>3. \A i \in 1 .. 1 : i = 1
    OBVIOUS
  <2> QED
    BY <2>1, <2>2, <2>3, SameSeq DEF IsCalls
<1>16. Caught(After(Now, e), frame, clean, truth, lua, base)
  <2>1. ~(frame > 0)
    BY <1>2
  <2> QED
    BY <1>2, <1>13, <1>15, <2>1 DEF Caught
<1>17. \E g : StagesGood(g)
  <2> DEFINE z == <<>>
             o == [k \in {0} |-> Now]
  <2>1. Stages(o, Now, z) /\ o[0] = Now
    BY DEF Stages
  <2>2. z \in Seq(Told) /\ Len(z) = 0
    BY EmptySeq
  <2> HIDE DEF z, o
  <2>3. PICK h : Stages(h, Now, Append(z, e)) /\ Extended(h, o, Len(z), After(o[Len(z)], e))
    BY <1>7, <2>1, <2>2, StagesExtend
  <2>4. Pending = Append(z, e) /\ Len(Append(z, e)) = 1
    BY <1>7, <1>10, <2>1, <2>2, StagesExtend DEF z
  <2>5. h[0] = Now /\ h[1] = After(Now, e)
    BY <2>1, <2>2, <2>3 DEF Extended
  <2>6. \A k \in 0 .. 1 : k = 0 \/ k = 1
    OBVIOUS
  <2>7. \A k \in 0 .. 1 : Good(h[k], frame, clean, truth)
    BY <1>12, <1>14, <2>5, <2>6
  <2>8. StagesGood(h)
    BY <1>16, <2>3, <2>4, <2>5, <2>7 DEF StagesGood
  <2> QED
    BY <2>8
<1> QED
  BY <1>6, <1>8, <1>9, <1>17 DEF IInv

LEMMA NextIInv == IInv /\ [Next]_vars => IInv'
<1> SUFFICES ASSUME IInv, [Next]_vars PROVE IInv'
  OBVIOUS
<1>1. CASE \E f \in Fun : LuaCall(f)
  BY <1>1, LuaCallKeeps
<1>2. CASE \E f \in Fun : LuaTailCall(f)
  BY <1>2, LuaTailCallKeeps
<1>3. CASE LuaReturn
  BY <1>3, LuaReturnKeeps
<1>4. CASE \E n \in 0 .. MaxDepth - 1 : LuaError(n)
  BY <1>4, LuaErrorKeeps
<1>5. CASE HostFrame
  BY <1>5, HostFrameKeeps
<1>6. CASE Push \/ Pop
  BY <1>6, QueueKeeps
<1>7. CASE Handle
  BY <1>7, HandleKeeps
<1>8. CASE UNCHANGED vars
  <2>1. UNCHANGED <<queueVars, nestingVars, outputVars>> /\ ProgramTypes'
        /\ UNCHANGED <<lua, base, frame, truth, clean>>
    BY <1>8 DEF vars, programVars, queueVars, nestingVars, outputVars, IInv, ProgramTypes
  <2> QED
    BY <2>1, UnseenStep
<1> QED
  BY <1>1, <1>2, <1>3, <1>4, <1>5, <1>6, <1>7, <1>8 DEF Next, Consumer
-----------------------------------------------------------------------------
(* Induction over the numbers, for a set instead of an operator.           *)
LEMMA NatSetInduction ==
  ASSUME NEW T, 0 \in T, \A n \in Nat : n \in T => n + 1 \in T
  PROVE  \A n \in Nat : n \in T
<1> DEFINE U == {n \in Nat : n \notin T}
<1> SUFFICES ASSUME U # {} PROVE FALSE
  OBVIOUS
<1>1. U \subseteq Nat
  OBVIOUS
<1>2. PICK n \in U : \A m \in U : <<m, n>> \notin OpToRel(<, Nat)
  BY <1>1, NatLessThanWellFounded, WFMin
<1>3. \A m \in U : m \in Nat /\ n \in Nat /\ ~(m < n)
  BY <1>2 DEF OpToRel
<1>4. n \in Nat /\ n # 0
  OBVIOUS
<1>5. n - 1 \in Nat /\ n - 1 \notin U
  BY <1>3, <1>4
<1> QED
  BY <1>4, <1>5

(* Image is the calls of the last stage.  Its recursive function is a      *)
(* CHOOSE: the stages are such a function, and there is only one.          *)
IsImage(f, calls, es) ==
  f = [k \in 0 .. Len(es) |-> IF k = 0 THEN calls ELSE Effect(f[k - 1], es[k])]

LEMMA ImageIsLast ==
  ASSUME NEW calls, NEW es, Len(es) \in Nat, NEW g, g[0].open = calls,
         \A k \in 1 .. Len(es) : g[k].open = Effect(g[k - 1].open, es[k])
  PROVE  Image(calls, es) = g[Len(es)].open
<1> DEFINE n == Len(es)
           h == [k \in 0 .. n |-> g[k].open]
           f == CHOOSE f : IsImage(f, calls, es)
<1>1. Image(calls, es) = f[n]
  BY DEF Image, IsImage
<1>2. IsImage(h, calls, es)
  <2> DEFINE r == [k \in 0 .. n |-> IF k = 0 THEN calls ELSE Effect(h[k - 1], es[k])]
  <2>1. ASSUME NEW k \in 0 .. n PROVE h[k] = IF k = 0 THEN calls ELSE Effect(h[k - 1], es[k])
    <3>1. CASE k = 0
      BY <3>1
    <3>2. CASE k # 0
      <4>1. k \in 1 .. n /\ k - 1 \in 0 .. n
        BY <3>2
      <4>2. h[k] = g[k].open /\ h[k - 1] = g[k - 1].open
        BY <4>1
      <4> QED
        BY <3>2, <4>1, <4>2
    <3> QED
      BY <3>1, <3>2
  <2>2. h = r
    BY <2>1
  <2> QED
    BY <2>2 DEF IsImage
<1>3. IsImage(f, calls, es)
  BY <1>2
<1>4. n \in Nat
  OBVIOUS
<1> HIDE DEF f, h
<1>5. /\ \A k \in 0 .. n : f[k] = IF k = 0 THEN calls ELSE Effect(f[k - 1], es[k])
      /\ \A k \in 0 .. n : h[k] = IF k = 0 THEN calls ELSE Effect(h[k - 1], es[k])
  BY <1>2, <1>3 DEF IsImage
<1> HIDE DEF n
<1> DEFINE T == {k \in Nat : k <= n => f[k] = h[k]}
<1>6. 0 \in T
  <2>1. 0 \in 0 .. n
    BY <1>4
  <2> QED
    BY <1>5, <2>1
<1>7. ASSUME NEW k \in Nat, k \in T PROVE k + 1 \in T
  <2> SUFFICES ASSUME k + 1 <= n PROVE f[k + 1] = h[k + 1]
    BY <1>7
  <2>1. k <= n /\ k + 1 \in 0 .. n /\ k + 1 # 0 /\ (k + 1) - 1 = k
    BY <1>4
  <2>2. f[k] = h[k]
    BY <1>7, <2>1
  <2> QED
    BY <1>5, <2>1, <2>2
<1>8. n \in T
  <2> HIDE DEF T
  <2> QED
    BY <1>4, <1>6, <1>7, NatSetInduction
<1>9. n \in 0 .. n /\ n <= n
  BY <1>4
<1> QED
  BY <1>1, <1>4, <1>8, <1>9 DEF h, n

LEMMA FunctionsOf ==
  ASSUME NEW c, IsCalls(c)
  PROVE  FnsOf(c) \in Seq(Funs)
<1>1. Len(c) \in Nat /\ DOMAIN c = 1 .. Len(c)
  BY SeqLen DEF IsCalls
<1>2. \A i \in DOMAIN c : c[i].fn \in Funs
  BY <1>1 DEF IsCalls, IsCall
<1>3. FnsOf(c) \in [1 .. Len(c) -> Funs]
  BY <1>1, <1>2 DEF FnsOf
<1> QED
  BY <1>1, <1>3, SeqDef

LEMMA TypesFollow == IInv => TypeOK
<1> SUFFICES ASSUME IInv PROVE TypeOK
  OBVIOUS
<1>1. FnsOf(lua) \in Seq(Funs) /\ FnsOf(open) \in Seq(Funs)
  BY FunctionsOf, NowFacts DEF IInv, ProgramTypes
<1>2. /\ offered \in Event \cup {NoEvent} /\ held \in Event \cup {NoEvent}
      /\ buf \in Seq(Event) /\ Len(buf) <= Capacity
  <2>1. Told \subseteq Event
    BY DEF Told
  <2> QED
    BY <2>1, SeqMonotonic DEF IInv, QueueTypes
<1>3. Len(current) <= 1
  <2>1. Len(<<>>) = 0 /\ Len(<<[id |-> Filling, trees |-> Collected]>>) = 1
    OBVIOUS
  <2>2. current = <<>> \/ current = <<[id |-> Filling, trees |-> Collected]>>
    BY DEF IInv, CurrentOK
  <2> QED
    BY <2>1, <2>2
<1> QED
  BY <1>1, <1>2, <1>3 DEF TypeOK, IInv, ProgramTypes, Funs

LEMMA ImageFollows == IInv => ImageInStep
<1> SUFFICES ASSUME IInv, frame \in clean
             PROVE  Image(open, Pending) = SubSeq(lua, base + 1, Len(lua))
  BY DEF ImageInStep
<1>1. PICK g : StagesGood(g)
  BY DEF IInv
<1> DEFINE p == Pending
<1>2. /\ g[0] = Now /\ \A k \in 1 .. Len(p) : g[k] = After(g[k - 1], p[k])
      /\ Caught(g[Len(p)], frame, clean, truth, lua, base)
  BY <1>1 DEF StagesGood, Stages
<1>3. Len(p) \in Nat
  BY InvFacts
<1> HIDE DEF p
<1>4. g[0].open = open
  BY <1>2, NowFacts
<1>5. \A k \in 1 .. Len(p) : g[k].open = Effect(g[k - 1].open, p[k])
  BY <1>2, AfterFields
<1>6. Image(open, p) = g[Len(p)].open
  BY <1>3, <1>4, <1>5, ImageIsLast
<1> QED
  BY <1>2, <1>6 DEF Caught, Above, p

LEMMA BeginsIsPrefix ==
  ASSUME NEW t, IsSeq(t), NEW s, IsSeq(s), Begins(t, s)
  PROVE  IsPrefix(t, s)
<1>1. /\ Len(t) \in Nat /\ Len(s) \in Nat /\ DOMAIN t = 1 .. Len(t)
      /\ Len(t) <= Len(s) /\ \A i \in 1 .. Len(t) : t[i] = s[i]
  BY SeqLen DEF Begins
<1>2. 1 \in 1 .. Len(s) + 1 /\ Len(t) \in 1 - 1 .. Len(s) /\ Len(t) - 1 + 1 = Len(t)
  BY <1>1
<1>3. /\ IsSeq(SubSeq(s, 1, Len(t))) /\ Len(SubSeq(s, 1, Len(t))) = Len(t) - 1 + 1
      /\ \A i \in 1 .. Len(t) - 1 + 1 : SubSeq(s, 1, Len(t))[i] = s[1 + i - 1]
  BY <1>2, SubSeqSeq
<1>4. \A i \in 1 .. Len(t) : 1 + i - 1 = i
  BY <1>1
<1>5. t = SubSeq(s, 1, Len(t))
  BY <1>1, <1>2, <1>3, <1>4, SameSeq
<1> QED
  BY <1>1, <1>5 DEF IsPrefix

LEMMA LogFollows == IInv => LogFaithful
<1> SUFFICES ASSUME IInv PROVE FramesFaithful /\ FillingFaithful /\ LogOrdered
  BY TypesFollow DEF LogFaithful
<1>1. /\ Ordered(log)
      /\ \A i \in clean : 0 < i /\ i < Filling => Tells(log, i) = {truth[i]} \ {<<>>}
      /\ Filling \in clean /\ Filling > 0 => Begins(Collected, truth[Filling])
  BY NowFacts DEF Good
<1>2. LogOrdered
  BY <1>1 DEF Ordered, LogOrdered
<1>3. \A i : TreesOf(i) = Tells(log, i)
  BY DEF TreesOf, Tells
<1>4. FramesFaithful
  BY <1>1, <1>3 DEF FramesFaithful
<1>5. ASSUME Filling \in clean, Filling > 0 PROVE IsPrefix(current[1].trees, truth[Filling])
  <2> DEFINE t == truth[Filling]
             c == Collected
  <2>1. c = current[1].trees /\ IsSeq(c) /\ Begins(c, t)
    <3>1. current # <<>> /\ IsSeq(Collected)
      BY <1>5, NowFacts
    <3> QED
      BY <1>1, <1>5, <3>1 DEF Collected
  <2>2. IsSeq(t)
    <3>1. Filling \in Frames
      BY <1>5 DEF IInv, ProgramTypes
    <3> QED
      BY <3>1 DEF IInv, ProgramTypes
  <2> HIDE DEF t, c
  <2>3. IsPrefix(c, t)
    BY <2>1, <2>2, BeginsIsPrefix
  <2> QED
    BY <2>1, <2>3 DEF t
<1>6. FillingFaithful
  BY <1>5 DEF FillingFaithful
<1> QED
  BY <1>2, <1>4, <1>6
-----------------------------------------------------------------------------
(* Once the consumer has handled what is on its way, its stack is the Lua  *)
(* stack above what was open when the frame began, with all that these     *)
(* calls have called, in every frame without errors and tail calls, for    *)
(* any program and any capacity of the queue (core_profiler.c:108-150,     *)
(* stack.c:569-597).                                                       *)
THEOREM PipelineImageInStep == Spec => []ImageInStep
BY InitIInv, NextIInv, ImageFollows, PTL DEF Spec

(* What the file says of a frame without errors and tail calls is what     *)
(* happened in it, once and in order, and so far also what the consumer    *)
(* has collected of the frame it fills, however far it is behind           *)
(* (lua50_profiler.c:87-110, stack.c:544-602, output.c:86-210).            *)
THEOREM PipelineLogFaithful == Spec => []LogFaithful
BY InitIInv, NextIInv, LogFollows, PTL DEF Spec
=============================================================================
