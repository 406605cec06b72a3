--------------------------- MODULE SnapshotProofs ---------------------------
(***************************************************************************)
(* Theorems about Snapshot, for every heap: the traversal marks all that   *)
(* the registry keeps alive, writes every table it has finished once, and  *)
(* marks nothing else but for the exception OnlyReachableMarked names.     *)
(*                                                                         *)
(* The inductive invariant says of each active mark_ function that what it *)
(* has passed is marked (Sound); no object has two of them (Distinct); an  *)
(* object that has none any more is finished (Finished).  It is stated by  *)
(* operators on a heap h, a sequence c of records as calls and a set m of  *)
(* marked objects, so that a step need only name their new values.         *)
(*                                                                         *)
(* The last part is about the Lua stacks (DInv): they hold what the mark_  *)
(* functions count on, and below the object of each there is the room it   *)
(* asked for (Room).  What a recursive function over calls yields is shown *)
(* by induction, for a set of numbers (NatSetInduction).                   *)
(***************************************************************************)
EXTENDS Snapshot, SequenceTheorems, WellFoundedInduction, TLAPS

WeakIn(h, o) == IF h.meta[o] = Nil THEN {} ELSE h.mode[h.meta[o]]

StrongIn(h, o) ==
  ({h.meta[o]} \ {Nil})
  \cup {v \in Obj : \/ h.kind[o] = "table" /\ \E i \in DOMAIN h.pairs[o] :
                         \/ v = h.pairs[o][i][1] /\ "k" \notin WeakIn(h, o)
                         \/ v = h.pairs[o][i][2] /\ "v" \notin WeakIn(h, o)
                    \/ h.kind[o] # "table" /\ v \in Range(h.refs[o])}

(* The keys, values and references up to the n-th are marked. *)
KeysDone(h, o, n, m) ==
  \A k \in DOMAIN h.pairs[o] :
    k <= n /\ "k" \notin WeakIn(h, o) /\ h.pairs[o][k][1] \in Obj => h.pairs[o][k][1] \in m

ValuesDone(h, o, n, m) ==
  \A k \in DOMAIN h.pairs[o] :
    k <= n /\ "v" \notin WeakIn(h, o) /\ h.pairs[o][k][2] \in Obj => h.pairs[o][k][2] \in m

RefsDone(g, m) == \A k \in DOMAIN g.refs : k <= g.i /\ g.refs[k] \in Obj => g.refs[k] \in m

Sound(h, g, m) ==
  /\ g.obj \in m
  /\ g.at = "meta" => h.kind[g.obj] \in {"table", "userdata"}
  /\ g.at \in {"next", "key"} => h.kind[g.obj] = "table" /\ g.i <= Len(h.pairs[g.obj])
  /\ g.at \in {"next", "key"} => ValuesDone(h, g.obj, g.i, m)
  /\ g.at = "next" => KeysDone(h, g.obj, g.i, m)
  /\ g.at = "key" => g.i >= 1 /\ KeysDone(h, g.obj, g.i - 1, m)
  /\ g.at = "refs" => h.kind[g.obj] # "table" /\ g.i <= Len(g.refs) /\ RefsDone(g, m)
  /\ g.at # "meta" /\ h.meta[g.obj] # Nil => h.meta[g.obj] \in m
  /\ Range(h.refs[g.obj]) \subseteq Range(g.refs)
  /\ h.kind[g.obj] = "userdata" => g.refs = h.refs[g.obj]

ObjsOf(c) == {c[j].obj : j \in DOMAIN c}
AllSound(h, c, m) == \A j \in DOMAIN c : Sound(h, c[j], m)
Distinct(c) == \A j, k \in DOMAIN c : c[j].obj = c[k].obj => j = k
Finished(h, c, m) == \A o \in m \ ObjsOf(c) : StrongIn(h, o) \subseteq m

(* A frame of calls that went on. *)
Moved(g, at, i) == [g EXCEPT !.at = at, !.i = i]
-----------------------------------------------------------------------------
(* What is marked stays marked. *)
LEMMA SoundMono ==
  ASSUME NEW h, NEW g, NEW m, NEW n, m \subseteq n, Sound(h, g, m)
  PROVE  Sound(h, g, n)
BY DEF Sound, KeysDone, ValuesDone, RefsDone

(* From the metatable to the pairs or the references. *)
LEMMA MetaMoves ==
  ASSUME NEW h \in HeapType, NEW g \in Frame, NEW m, Sound(h, g, m), g.at = "meta",
         h.meta[g.obj] # Nil => h.meta[g.obj] \in m
  PROVE  /\ h.kind[g.obj] = "table" => Sound(h, Moved(g, "next", 0), m)
         /\ h.kind[g.obj] = "userdata" => Sound(h, Moved(g, "refs", 0), m)
<1>1. h.pairs[g.obj] \in Seq(Value \X Value) /\ g.refs \in Seq(Value)
  BY DEF HeapType, Frame
<1>2. /\ Len(h.pairs[g.obj]) \in Nat /\ DOMAIN h.pairs[g.obj] = 1 .. Len(h.pairs[g.obj])
      /\ Len(g.refs) \in Nat /\ DOMAIN g.refs = 1 .. Len(g.refs)
  BY <1>1
<1> QED
  BY <1>2 DEF Moved, Sound, KeysDone, ValuesDone, RefsDone, Frame

(* From the n-th pair to the value after it, *)
LEMMA ValueMoves ==
  ASSUME NEW h \in HeapType, NEW g \in Frame, NEW m, Sound(h, g, m),
         g.at = "next", g.i < Len(h.pairs[g.obj]),
         "v" \notin WeakIn(h, g.obj) /\ h.pairs[g.obj][g.i + 1][2] \in Obj
           => h.pairs[g.obj][g.i + 1][2] \in m
  PROVE  Sound(h, Moved(g, "key", g.i + 1), m)
<1>1. h.pairs[g.obj] \in Seq(Value \X Value) /\ g.i \in Nat
  BY DEF HeapType, Frame
<1>2. Len(h.pairs[g.obj]) \in Nat /\ DOMAIN h.pairs[g.obj] = 1 .. Len(h.pairs[g.obj])
  BY <1>1
<1>3. ValuesDone(h, g.obj, g.i + 1, m)
  BY <1>1, <1>2 DEF Sound, ValuesDone
<1>4. KeysDone(h, g.obj, (g.i + 1) - 1, m)
  BY <1>1 DEF Sound
<1> QED
  BY <1>1, <1>2, <1>3, <1>4 DEF Moved, Sound, Frame

(* ... from the value to the key, *)
LEMMA KeyMoves ==
  ASSUME NEW h \in HeapType, NEW g \in Frame, NEW m, Sound(h, g, m), g.at = "key",
         "k" \notin WeakIn(h, g.obj) /\ h.pairs[g.obj][g.i][1] \in Obj => h.pairs[g.obj][g.i][1] \in m
  PROVE  Sound(h, Moved(g, "next", g.i), m)
<1>1. h.pairs[g.obj] \in Seq(Value \X Value) /\ g.i \in Nat
  BY DEF HeapType, Frame
<1>2. Len(h.pairs[g.obj]) \in Nat /\ DOMAIN h.pairs[g.obj] = 1 .. Len(h.pairs[g.obj])
  BY <1>1
<1>3. KeysDone(h, g.obj, g.i, m)
  BY <1>1, <1>2 DEF Sound, KeysDone
<1> QED
  BY <1>1, <1>3 DEF Moved, Sound, Frame

(* ... and from one reference to the next. *)
LEMMA RefMoves ==
  ASSUME NEW h \in HeapType, NEW g \in Frame, NEW m, Sound(h, g, m), g.at = "refs",
         g.i < Len(g.refs), g.refs[g.i + 1] \in Obj => g.refs[g.i + 1] \in m
  PROVE  Sound(h, Moved(g, "refs", g.i + 1), m)
<1>1. g.refs \in Seq(Value) /\ g.i \in Nat
  BY DEF Frame
<1>2. Len(g.refs) \in Nat /\ DOMAIN g.refs = 1 .. Len(g.refs)
  BY <1>1
<1>3. RefsDone(Moved(g, "refs", g.i + 1), m)
  BY <1>1, <1>2 DEF Sound, RefsDone, Moved, Frame
<1> QED
  BY <1>1, <1>2, <1>3 DEF Moved, Sound, Frame

(* A mark_ function that has passed everything has marked what its object  *)
(* keeps alive.                                                            *)
LEMMA SoundEnds ==
  ASSUME NEW h \in Heap, NEW g \in Frame, NEW m, Sound(h, g, m),
         \/ g.at = "next" /\ g.i = Len(h.pairs[g.obj])
         \/ g.at = "refs" /\ g.i = Len(g.refs)
  PROVE  StrongIn(h, g.obj) \subseteq m
<1>0. h \in HeapType
  BY SnapshotAssumption
<1>1. h.pairs[g.obj] \in Seq(Value \X Value) /\ g.refs \in Seq(Value) /\ g.i \in Nat
  BY <1>0 DEF HeapType, Frame
<1>2. /\ Len(h.pairs[g.obj]) \in Nat /\ DOMAIN h.pairs[g.obj] = 1 .. Len(h.pairs[g.obj])
      /\ Len(g.refs) \in Nat /\ DOMAIN g.refs = 1 .. Len(g.refs)
  BY <1>1
<1>3. CASE g.at = "next" /\ g.i = Len(h.pairs[g.obj])
  BY <1>1, <1>2, <1>3 DEF Sound, StrongIn, KeysDone, ValuesDone
<1>4. CASE g.at = "refs" /\ g.i = Len(g.refs)
  <2>1. /\ h.kind[g.obj] # "table" /\ RefsDone(g, m)
        /\ h.meta[g.obj] # Nil => h.meta[g.obj] \in m
        /\ Range(h.refs[g.obj]) \subseteq Range(g.refs)
    BY <1>4 DEF Sound
  <2>2. ASSUME NEW v \in Obj, v \in Range(g.refs)
        PROVE  v \in m
    <3>1. PICK k \in DOMAIN g.refs : g.refs[k] = v
      BY <2>2 DEF Range
    <3> QED
      BY <1>1, <1>2, <1>4, <2>1, <2>2, <3>1 DEF RefsDone
  <2>3. StrongIn(h, g.obj) = ({h.meta[g.obj]} \ {Nil}) \cup {v \in Obj : v \in Range(h.refs[g.obj])}
    BY <2>1 DEF StrongIn
  <2> QED
    BY <2>1, <2>2, <2>3
<1> QED
  BY <1>3, <1>4

(* The mark_ function of an object begins with nothing passed. *)
LEMMA CalledSound ==
  ASSUME NEW h \in Heap, NEW o \in Obj, NEW L, NEW m, o \in m, NEW refs \in Seq(Value),
         Range(h.refs[o]) \subseteq Range(refs), h.kind[o] = "userdata" => refs = h.refs[o], NEW g,
         g = [obj |-> o, L |-> L, i |-> 0,
              at |-> IF h.kind[o] \in {"table", "userdata"} THEN "meta" ELSE "refs",
              refs |-> refs]
  PROVE  Sound(h, g, m)
<1>1. h \in HeapType /\ h.kind[o] \in Kind
  BY SnapshotAssumption DEF HeapType
<1>2. Len(refs) \in Nat /\ DOMAIN refs = 1 .. Len(refs)
  OBVIOUS
<1>3. h.kind[o] \in {"function", "thread"} => h.meta[o] = Nil
  BY SnapshotAssumption
<1> QED
  BY <1>1, <1>2, <1>3 DEF Sound, RefsDone, Kind
-----------------------------------------------------------------------------
Good(h, c, m) ==
  /\ c \in Seq(Frame)
  /\ AllSound(h, c, m)
  /\ Distinct(c)
  /\ Finished(h, c, m)

(* calls with another record on top *)
Replaced(c, g) == [c EXCEPT ![Len(c)] = g]

(* The function on top goes on, and more is marked. *)
LEMMA GoodMoves ==
  ASSUME NEW h, NEW c, NEW m, NEW n, Good(h, c, m), c # <<>>, m \subseteq n,
         NEW g \in Frame, g.obj = Last(c).obj, Sound(h, g, n)
  PROVE  /\ Replaced(c, g) \in Seq(Frame)
         /\ AllSound(h, Replaced(c, g), n)
         /\ Distinct(Replaced(c, g))
         /\ ObjsOf(Replaced(c, g)) = ObjsOf(c)
<1> DEFINE d == Replaced(c, g)
<1>1. c \in Seq(Frame) /\ Len(c) \in Nat \ {0} /\ DOMAIN c = 1 .. Len(c)
  BY DEF Good
<1>2. Last(c) = c[Len(c)]
  BY DEF Last
<1>3. /\ d \in Seq(Frame) /\ Len(d) = Len(c) /\ DOMAIN d = DOMAIN c
      /\ \A j \in DOMAIN c : d[j] = IF j = Len(c) THEN g ELSE c[j]
  BY <1>1 DEF Replaced
<1> HIDE DEF d
<1>4. \A j \in DOMAIN c : d[j].obj = c[j].obj
  BY <1>2, <1>3
<1>5. AllSound(h, d, n)
  <2> SUFFICES ASSUME NEW j \in DOMAIN c PROVE Sound(h, d[j], n)
    BY <1>3 DEF AllSound
  <2>1. Sound(h, c[j], n)
    BY SoundMono DEF Good, AllSound
  <2> QED
    BY <2>1, <1>3
<1>6. Distinct(d)
  BY <1>3, <1>4 DEF Good, Distinct
<1>7. ObjsOf(d) = ObjsOf(c)
  BY <1>3, <1>4 DEF ObjsOf
<1> QED
  BY <1>3, <1>5, <1>6, <1>7 DEF d

LEMMA GoodStays ==
  ASSUME NEW h, NEW c, NEW m, Good(h, c, m), c # <<>>,
         NEW g \in Frame, g.obj = Last(c).obj, Sound(h, g, m)
  PROVE  Good(h, Replaced(c, g), m)
<1> DEFINE d == Replaced(c, g)
<1>0. m \subseteq m
  OBVIOUS
<1>1. d \in Seq(Frame) /\ AllSound(h, d, m) /\ Distinct(d) /\ ObjsOf(d) = ObjsOf(c)
  BY <1>0, GoodMoves
<1>2. Finished(h, d, m)
  BY <1>1 DEF Good, Finished
<1> QED
  BY <1>1, <1>2 DEF Good

(* ... and calls the mark_ function of an object not marked before. *)
LEMMA GoodCalls ==
  ASSUME NEW h, NEW c, NEW m, Good(h, c, m), c # <<>>,
         NEW v, v \notin m,
         NEW g \in Frame, g.obj = Last(c).obj, Sound(h, g, m \cup {v}),
         NEW e \in Frame, e.obj = v, Sound(h, e, m \cup {v})
  PROVE  Good(h, Append(Replaced(c, g), e), m \cup {v})
<1> DEFINE n == m \cup {v}
           d == Replaced(c, g)
           a == Append(d, e)
<1>0. m \subseteq n
  OBVIOUS
<1>1. d \in Seq(Frame) /\ AllSound(h, d, n) /\ Distinct(d) /\ ObjsOf(d) = ObjsOf(c)
  BY <1>0, GoodMoves
<1> HIDE DEF d
<1>2. Len(d) \in Nat /\ DOMAIN d = 1 .. Len(d)
  BY <1>1
<1>3. /\ a \in Seq(Frame) /\ DOMAIN a = 1 .. Len(d) + 1
      /\ \A j \in DOMAIN d : a[j] = d[j]
      /\ a[Len(d) + 1] = e
  BY <1>1, <1>2
<1>4. \A j \in DOMAIN d : d[j].obj \in m
  <2>1. ObjsOf(c) \subseteq m
    BY DEF Good, AllSound, Sound, ObjsOf
  <2> QED
    BY <2>1, <1>1 DEF ObjsOf
<1> HIDE DEF a
<1>5. AllSound(h, a, n)
  <2> SUFFICES ASSUME NEW j \in 1 .. Len(d) + 1 PROVE Sound(h, a[j], n)
    BY <1>3 DEF AllSound
  <2>1. CASE j \in DOMAIN d
    BY <1>1, <1>3, <2>1 DEF AllSound
  <2>2. CASE j = Len(d) + 1
    BY <1>3, <2>2
  <2> QED
    BY <1>2, <2>1, <2>2
<1>6. Distinct(a)
  BY <1>1, <1>2, <1>3, <1>4 DEF Distinct
<1>7. ObjsOf(a) = ObjsOf(c) \cup {v}
  <2>1. ObjsOf(a) = ObjsOf(d) \cup {v}
    BY <1>2, <1>3 DEF ObjsOf
  <2> QED
    BY <2>1, <1>1
<1>8. Finished(h, a, n)
  BY <1>7 DEF Good, Finished
<1> QED
  BY <1>3, <1>5, <1>6, <1>8 DEF Good, a, d

(* ... or returns, its object being finished. *)
LEMMA GoodReturns ==
  ASSUME NEW h, NEW c, NEW m, Good(h, c, m), c # <<>>, StrongIn(h, Last(c).obj) \subseteq m
  PROVE  /\ Good(h, Front(c), m)
         /\ ObjsOf(Front(c)) = ObjsOf(c) \ {Last(c).obj}
<1> DEFINE f == Front(c)
<1>1. c \in Seq(Frame) /\ Len(c) \in Nat \ {0} /\ DOMAIN c = 1 .. Len(c) /\ Last(c) = c[Len(c)]
  BY DEF Good, Last
<1>2. /\ f \in Seq(Frame) /\ DOMAIN f = 1 .. Len(c) - 1
      /\ \A j \in 1 .. Len(c) - 1 : f[j] = c[j]
  BY <1>1 DEF Front
<1> HIDE DEF f
<1>3. AllSound(h, f, m) /\ Distinct(f)
  BY <1>1, <1>2 DEF Good, AllSound, Distinct
<1>4. ObjsOf(f) = ObjsOf(c) \ {Last(c).obj}
  BY <1>1, <1>2 DEF Good, ObjsOf, Distinct
<1>5. Finished(h, f, m)
  BY <1>4 DEF Good, Finished
<1> QED
  BY <1>2, <1>3, <1>4, <1>5 DEF Good, f
-----------------------------------------------------------------------------
FileInv ==
  /\ \A j, k \in DOMAIN file : file[j].table = file[k].table => j = k
  /\ phase # "broken" => Written = {o \in marked \ OnCalls : heap.kind[o] = "table"}

IInv ==
  /\ TypeOK
  /\ phase # "broken" => Good(heap, calls, marked)
  /\ calls # <<>> => phase = "marking"
  /\ phase = "idle" => marked = {}
  /\ marked # {} => Registry \in marked
  /\ FileInv

LEMMA ObjsOnCalls == OnCalls = ObjsOf(calls) /\ OnCalls' = ObjsOf(calls')
BY DEF OnCalls, ObjsOf

LEMMA InCalls ==
  ASSUME IInv, calls # <<>>
  PROVE  /\ phase = "marking" /\ open = TRUE
         /\ heap \in Heap /\ heap \in HeapType
         /\ Good(heap, calls, marked)
         /\ Top \in Frame /\ Sound(heap, Top, marked)
         /\ Top.obj \in marked /\ Top.obj \in Obj /\ Top.L \in Obj
         /\ lua[Top.L] \in Seq(Value)
<1>1. phase = "marking"
  BY DEF IInv
<1>2. open = TRUE
  BY <1>1 DEF IInv, TypeOK
<1>3. heap \in Heap /\ heap \in HeapType
  BY SnapshotAssumption DEF IInv, TypeOK
<1>4. Good(heap, calls, marked)
  BY <1>1 DEF IInv
<1>5. calls \in Seq(Frame) /\ Len(calls) \in DOMAIN calls /\ Top = calls[Len(calls)]
  BY <1>4 DEF Good, Top, Last
<1>6. Top \in Frame /\ Sound(heap, Top, marked)
  BY <1>4, <1>5 DEF Good, AllSound
<1>7. Top.obj \in marked /\ Top.obj \in Obj /\ Top.L \in Obj
  BY <1>6 DEF Sound, Frame
<1>8. lua[Top.L] \in Seq(Value)
  BY <1>7 DEF IInv, TypeOK
<1> QED
  BY <1>1, <1>2, <1>3, <1>4, <1>6, <1>7, <1>8

LEMMA AdvancedIs ==
  ASSUME IInv, calls # <<>>, NEW at \in {"meta", "next", "key", "refs"}, NEW i \in Nat
  PROVE  /\ Advanced(at, i) = Replaced(calls, Moved(Top, at, i))
         /\ Moved(Top, at, i) \in Frame
         /\ Moved(Top, at, i).obj = Last(calls).obj
<1>1. calls \in Seq(Frame) /\ Len(calls) \in DOMAIN calls /\ Top = calls[Len(calls)] /\ Top \in Frame
  BY InCalls DEF IInv, TypeOK, Top, Last
<1>2. Advanced(at, i) = Replaced(calls, Moved(Top, at, i))
  BY <1>1 DEF Advanced, Replaced, Moved
<1>3. Moved(Top, at, i) \in Frame /\ Moved(Top, at, i).obj = Top.obj
  BY <1>1 DEF Moved, Frame
<1> QED
  BY <1>2, <1>3 DEF Top

LEMMA FrontType ==
  ASSUME NEW S, NEW s \in Seq(S)
  PROVE  Front(s) \in Seq(S)
BY DEF Front

LEMMA ConcatRange ==
  ASSUME NEW S, NEW a \in Seq(S), NEW b \in Seq(S)
  PROVE  Range(b) \subseteq Range(a \o b) /\ Range(a \o b) = Range(a) \cup Range(b)
<1>1. /\ Len(a) \in Nat /\ Len(b) \in Nat
      /\ DOMAIN a = 1 .. Len(a) /\ DOMAIN b = 1 .. Len(b)
      /\ DOMAIN (a \o b) = 1 .. Len(a) + Len(b)
      /\ \A k \in 1 .. Len(a) + Len(b) : (a \o b)[k] = IF k <= Len(a) THEN a[k] ELSE b[k - Len(a)]
  OBVIOUS
<1>2. \A k \in DOMAIN b : Len(a) + k \in DOMAIN (a \o b) /\ (a \o b)[Len(a) + k] = b[k]
  BY <1>1
<1>3. \A k \in DOMAIN a : k \in DOMAIN (a \o b) /\ (a \o b)[k] = a[k]
  BY <1>1
<1>4. ASSUME NEW k \in DOMAIN (a \o b)
      PROVE  (a \o b)[k] \in Range(a) \cup Range(b)
  <2>1. CASE k <= Len(a)
    BY <1>1, <2>1 DEF Range
  <2>2. CASE ~(k <= Len(a))
    <3>1. k - Len(a) \in DOMAIN b /\ (a \o b)[k] = b[k - Len(a)]
      BY <1>1, <2>2
    <3> QED
      BY <3>1 DEF Range
  <2> QED
    BY <2>1, <2>2
<1>5. Range(b) \subseteq Range(a \o b)
  BY <1>2 DEF Range
<1>6. Range(a) \subseteq Range(a \o b)
  BY <1>3 DEF Range
<1>7. Range(a \o b) \subseteq Range(a) \cup Range(b)
  <2> SUFFICES ASSUME NEW x \in Range(a \o b) PROVE x \in Range(a) \cup Range(b)
    OBVIOUS
  <2>1. PICK k \in DOMAIN (a \o b) : x = (a \o b)[k]
    BY DEF Range
  <2> QED
    BY <1>4, <2>1
<1> QED
  BY <1>5, <1>6, <1>7

(* What the call of a mark_ function for v starts from is sound. *)
LEMMA CalledIs ==
  ASSUME IInv, NEW L \in Obj, NEW v \in Obj, NEW m, v \in m
  PROVE  Called(L, v) \in Frame /\ Called(L, v).obj = v /\ Sound(heap, Called(L, v), m)
<1> DEFINE refs == IF v = Caller /\ L # Caller THEN lua[Caller] \o heap.refs[v] ELSE heap.refs[v]
           at == IF heap.kind[v] \in {"table", "userdata"} THEN "meta" ELSE "refs"
<1>1. heap \in Heap /\ heap \in HeapType /\ heap.refs[v] \in Seq(Value)
  BY SnapshotAssumption DEF IInv, TypeOK, HeapType
<1>2. lua[Caller] \in Seq(Value)
  BY SnapshotAssumption DEF IInv, TypeOK
<1>3. refs \in Seq(Value)
  BY <1>1, <1>2
<1>4. Range(heap.refs[v]) \subseteq Range(refs)
  <2>1. CASE v = Caller /\ L # Caller
    <3>1. refs = lua[Caller] \o heap.refs[v]
      BY <2>1
    <3> QED
      BY <1>1, <1>2, <3>1, ConcatRange
  <2>2. CASE ~(v = Caller /\ L # Caller)
    BY <2>2
  <2> QED
    BY <2>1, <2>2
<1>5. Called(L, v) = [obj |-> v, L |-> L, i |-> 0, at |-> at, refs |-> refs]
  BY DEF Called
<1>0. heap.kind[v] = "userdata" => refs = heap.refs[v]
  BY <1>1, SnapshotAssumption
<1> HIDE DEF refs
<1>6. Called(L, v) \in Frame /\ Called(L, v).obj = v
  BY <1>3, <1>5 DEF Frame
<1>7. Sound(heap, Called(L, v), m)
  BY <1>0, <1>1, <1>3, <1>4, <1>5, CalledSound
<1> QED
  BY <1>6, <1>7
-----------------------------------------------------------------------------
(* What a step of a mark_ function that goes on to g for v may count on as *)
(* marked: what is marked now, and v if it is an object.                   *)
With(v) == marked \cup (Obj \cap {v})

(* A mark_ function that goes on to g keeps the invariant. *)
LEMMA GoesOn ==
  ASSUME IInv, calls # <<>>,
         NEW g \in Frame, g.obj = Last(calls).obj, Sound(heap, g, marked),
         calls' = Replaced(calls, g), lua' \in [Obj -> Seq(Value)],
         UNCHANGED <<phase, heap, marked, file, open>>
  PROVE  IInv'
<1>1. phase = "marking" /\ open = TRUE /\ heap \in Heap /\ Good(heap, calls, marked)
  BY InCalls
<1>2. marked \subseteq Obj /\ file \in Seq([table : Obj, keys : Seq(Value)])
  BY DEF IInv, TypeOK
<1>3. Good(heap, calls', marked)
  BY <1>1, GoodStays
<1>4. ObjsOf(calls') = ObjsOf(calls)
  <2>1. marked \subseteq marked
    OBVIOUS
  <2> QED
    BY <1>1, <2>1, GoodMoves
<1>5. TypeOK'
  <2>1. calls' \in Seq(Frame)
    BY <1>3 DEF Good
  <2> QED
    BY <1>1, <1>2, <2>1 DEF TypeOK
<1>6. FileInv'
  BY <1>1, <1>4, ObjsOnCalls DEF IInv, FileInv, Written
<1>7. Registry \in marked
  BY <1>1, InCalls DEF IInv
<1> QED
  BY <1>1, <1>3, <1>5, <1>6, <1>7 DEF IInv

(* readobject keeps the invariant, if the record it returns to is sound    *)
(* once v is marked.                                                       *)
LEMMA EnterKeeps ==
  ASSUME IInv, calls # <<>>, NEW L \in Obj, NEW v \in Value, NEW s \in Seq(Value),
         NEW g \in Frame, g.obj = Last(calls).obj, Sound(heap, g, With(v)),
         Enter(L, v, Replaced(calls, g), s), UNCHANGED <<heap, file, open>>
  PROVE  IInv'
<1> DEFINE c == Replaced(calls, g)
<1>1. /\ phase = "marking" /\ open = TRUE /\ heap \in Heap /\ Good(heap, calls, marked)
  BY InCalls
<1>2. phase' = "marking" /\ open' = TRUE /\ heap' = heap /\ file' = file
  BY <1>1 DEF Enter
<1>3. marked \subseteq Obj /\ lua \in [Obj -> Seq(Value)] /\ file \in Seq([table : Obj, keys : Seq(Value)])
  BY DEF IInv, TypeOK
<1>4. CASE v \in Obj \ marked
  <2>1. /\ marked' = marked \cup {v}
        /\ calls' = Append(c, Called(L, v))
        /\ lua' = [lua EXCEPT ![L] = s]
    BY <1>4 DEF Enter
  <2>2. /\ Called(L, v) \in Frame /\ Called(L, v).obj = v
        /\ Sound(heap, Called(L, v), marked \cup {v})
    BY <1>4, CalledIs
  <2>3. With(v) = marked \cup {v}
    BY <1>4 DEF With
  <2> HIDE DEF c
  <2>4. Good(heap, calls', marked')
    BY <1>1, <1>4, <2>1, <2>2, <2>3, GoodCalls DEF c
  <2>5. ObjsOf(calls') = ObjsOf(calls) \cup {v}
    <3>1. ObjsOf(c) = ObjsOf(calls) /\ c \in Seq(Frame)
      <4>1. marked \subseteq marked \cup {v}
        OBVIOUS
      <4> QED
        BY <1>1, <2>3, <4>1, GoodMoves DEF c
    <3>2. Len(c) \in Nat /\ DOMAIN c = 1 .. Len(c) /\ DOMAIN calls' = 1 .. Len(c) + 1
          /\ (\A j \in DOMAIN c : calls'[j] = c[j]) /\ calls'[Len(c) + 1] = Called(L, v)
      BY <2>1, <3>1
    <3>3. ObjsOf(calls') = ObjsOf(c) \cup {v}
      BY <2>2, <3>2 DEF ObjsOf
    <3> QED
      BY <3>1, <3>3
  <2>6. marked' \ OnCalls' = marked \ OnCalls
    BY <1>4, <2>1, <2>5, ObjsOnCalls
  <2>7. TypeOK'
    <3>1. lua' \in [Obj -> Seq(Value)]
      BY <1>3, <2>1
    <3>2. calls' \in Seq(Frame)
      BY <2>4 DEF Good
    <3>3. marked' \subseteq Obj
      BY <1>3, <1>4, <2>1
    <3> QED
      BY <1>1, <1>2, <1>3, <3>1, <3>2, <3>3 DEF TypeOK
  <2>8. FileInv'
    BY <1>1, <1>2, <2>6 DEF IInv, FileInv, Written
  <2>9. Registry \in marked'
    BY <1>1, <2>1, InCalls DEF IInv
  <2> QED
    BY <1>2, <2>4, <2>7, <2>8, <2>9 DEF IInv
<1>5. CASE v \notin Obj \ marked
  <2>1. /\ marked' = marked
        /\ calls' = c
        /\ lua' = [lua EXCEPT ![L] = Front(s)]
    BY <1>5 DEF Enter
  <2>2. With(v) = marked
    BY <1>5 DEF With
  <2>3. lua' \in [Obj -> Seq(Value)]
    BY <1>3, <2>1, FrontType
  <2> QED
    BY <1>1, <1>2, <2>1, <2>2, <2>3, GoesOn
<1> QED
  BY <1>4, <1>5

(* ... and so does mark_object, which may raise an error instead. *)
LEMMA MarkObjectKeeps ==
  ASSUME IInv, calls # <<>>, NEW L \in Obj, NEW v \in Value, NEW s \in Seq(Value),
         NEW g \in Frame, g.obj = Last(calls).obj, Sound(heap, g, With(v)),
         MarkObject(L, v, Replaced(calls, g), s), UNCHANGED <<heap, file, open>>
  PROVE  IInv'
<1>1. CASE Enter(L, v, Replaced(calls, g), s)
  BY <1>1, EnterKeeps
<1>2. CASE /\ phase' = "broken" /\ calls' = <<>>
           /\ lua' = [lua EXCEPT ![L] = s, ![Caller] = <<>>]
           /\ UNCHANGED marked
  <2>1. open = TRUE /\ Registry \in marked
    BY InCalls DEF IInv
  <2>2. lua' \in [Obj -> Seq(Value)]
    <3>1. <<>> \in Seq(Value) /\ lua \in [Obj -> Seq(Value)] /\ Caller \in Obj
      BY SnapshotAssumption DEF IInv, TypeOK
    <3> QED
      BY <1>2, <3>1
  <2>3. TypeOK /\ <<>> \in Seq(Frame)
    BY DEF IInv
  <2>4. phase' = "broken" /\ open' = TRUE /\ heap' = heap /\ marked' = marked /\ calls' = <<>> /\ file' = file
    BY <1>2, <2>1
  <2>5. TypeOK'
    BY <2>2, <2>3, <2>4 DEF TypeOK
  <2>6. FileInv'
    BY <2>4 DEF IInv, FileInv
  <2> QED
    BY <2>1, <2>4, <2>5, <2>6 DEF IInv
<1> QED
  BY <1>1, <1>2 DEF MarkObject
-----------------------------------------------------------------------------
LEMMA WithFacts ==
  ASSUME NEW v
  PROVE  marked \subseteq With(v) /\ (v \in Obj => v \in With(v))
BY DEF With

LEMMA MetatableKeeps ==
  ASSUME IInv, MarkMetatable
  PROVE  IInv'
<1> DEFINE meta == heap.meta[Top.obj]
           s == Append(lua[Top.L], meta)
<1>1. /\ calls # <<>> /\ Top.at = "meta" /\ UNCHANGED <<heap, file, open>>
  BY DEF MarkMetatable
<1>2. /\ heap \in HeapType /\ Top \in Frame /\ Top.obj \in Obj /\ Top.L \in Obj
      /\ Sound(heap, Top, marked) /\ lua[Top.L] \in Seq(Value)
  BY <1>1, InCalls
<1>3. meta \in Obj \cup {Nil}
  BY <1>2 DEF HeapType
<1>4. Sound(heap, Top, With(meta)) /\ marked \subseteq With(meta) /\ (meta # Nil => meta \in With(meta))
  BY <1>2, <1>3, WithFacts, SoundMono
<1>5. /\ heap.kind[Top.obj] = "table" => Sound(heap, Moved(Top, "next", 0), With(meta))
      /\ heap.kind[Top.obj] = "userdata" => Sound(heap, Moved(Top, "refs", 0), With(meta))
  BY <1>1, <1>2, <1>4, MetaMoves
<1>6. \A at \in {"next", "refs"} :
        /\ Advanced(at, 0) = Replaced(calls, Moved(Top, at, 0))
        /\ Moved(Top, at, 0) \in Frame
        /\ Moved(Top, at, 0).obj = Last(calls).obj
  BY <1>1, AdvancedIs
<1>7. CASE /\ meta = Nil /\ UNCHANGED <<phase, marked, lua>>
           /\ \/ heap.kind[Top.obj] = "table" /\ calls' = Advanced("next", 0)
              \/ heap.kind[Top.obj] = "userdata" /\ calls' = Advanced("refs", 0)
  <2>1. With(meta) = marked
    BY <1>7, SnapshotAssumption DEF With
  <2>2. lua' \in [Obj -> Seq(Value)]
    BY <1>7 DEF IInv, TypeOK
  <2>3. \E at \in {"next", "refs"} :
          calls' = Advanced(at, 0) /\ Sound(heap, Moved(Top, at, 0), marked)
    BY <1>5, <1>7, <2>1
  <2> QED
    BY <1>1, <1>6, <1>7, <2>2, <2>3, GoesOn
<1>8. ASSUME meta # Nil
      PROVE  meta \in Value /\ s \in Seq(Value)
  BY <1>2, <1>3, <1>8 DEF Value
<1>9. CASE /\ meta # Nil /\ heap.kind[Top.obj] = "table"
           /\ MarkObject(Top.L, meta, Advanced("next", 0), s)
  BY <1>1, <1>2, <1>5, <1>6, <1>8, <1>9, MarkObjectKeeps
<1>10. CASE /\ meta # Nil /\ heap.kind[Top.obj] = "userdata"
            /\ Enter(Top.L, meta, Advanced("refs", 0), s)
  BY <1>1, <1>2, <1>5, <1>6, <1>8, <1>10, EnterKeeps
<1> HIDE DEF s
<1> QED
  BY <1>7, <1>9, <1>10 DEF MarkMetatable, s

LEMMA PairFacts ==
  ASSUME NEW h \in HeapType, NEW o \in Obj, NEW k \in 1 .. Len(h.pairs[o])
  PROVE  /\ h.pairs[o][k][1] \in Value /\ h.pairs[o][k][2] \in Value
         /\ h.pairs[o][k] = <<h.pairs[o][k][1], h.pairs[o][k][2]>>
         /\ h.pairs[o][k] \in Seq(Value)
<1>1. h.pairs[o] \in Seq(Value \X Value)
  BY DEF HeapType
<1>2. h.pairs[o][k] \in Value \X Value
  BY <1>1
<1>3. /\ h.pairs[o][k][1] \in Value /\ h.pairs[o][k][2] \in Value
      /\ h.pairs[o][k] = <<h.pairs[o][k][1], h.pairs[o][k][2]>>
  BY <1>2
<1>4. \A x, y \in Value : <<x, y>> \in Seq(Value)
  OBVIOUS
<1> QED
  BY <1>3, <1>4

LEMMA BeforeNextType ==
  ASSUME IInv, calls # <<>>
  PROVE  BeforeNext \in Seq(Value)
<1>1. lua[Top.L] \in Seq(Value)
  BY InCalls
<1> QED
  BY <1>1, FrontType DEF BeforeNext

LEMMA ValueKeeps ==
  ASSUME IInv, MarkValue
  PROVE  IInv'
<1> DEFINE i == Top.i + 1
           v == Pairs[i][2]
<1>1. /\ calls # <<>> /\ Top.at = "next" /\ Top.i < Len(Pairs) /\ UNCHANGED <<heap, file, open>>
  BY DEF MarkValue
<1>2. /\ heap \in HeapType /\ Top \in Frame /\ Top.obj \in Obj /\ Top.L \in Obj
      /\ Sound(heap, Top, marked) /\ lua[Top.L] \in Seq(Value) /\ BeforeNext \in Seq(Value)
  BY <1>1, InCalls, BeforeNextType
<1>3. Top.i \in Nat /\ i \in Nat /\ i \in 1 .. Len(heap.pairs[Top.obj]) /\ Pairs = heap.pairs[Top.obj]
  <2>1. Len(heap.pairs[Top.obj]) \in Nat /\ Top.i \in Nat
    BY <1>2 DEF HeapType, Frame
  <2> QED
    BY <1>1, <2>1 DEF Pairs
<1>4. v \in Value /\ Pairs[i][1] \in Value /\ Pairs[i] \in Seq(Value)
  BY <1>2, <1>3, PairFacts
<1>5. /\ Advanced("key", i) = Replaced(calls, Moved(Top, "key", i))
      /\ Moved(Top, "key", i) \in Frame
      /\ Moved(Top, "key", i).obj = Last(calls).obj
  BY <1>1, <1>3, AdvancedIs
<1>6. Weak(Top.obj) = WeakIn(heap, Top.obj)
  BY DEF Weak, WeakIn
<1>7. CASE /\ "v" \in Weak(Top.obj)
           /\ calls' = Advanced("key", i)
           /\ lua' = [lua EXCEPT ![Top.L] = Append(BeforeNext, Pairs[i][1])]
           /\ UNCHANGED <<phase, marked>>
  <2>1. Sound(heap, Moved(Top, "key", i), marked)
    BY <1>1, <1>2, <1>3, <1>6, <1>7, ValueMoves
  <2>2. Append(BeforeNext, Pairs[i][1]) \in Seq(Value)
    BY <1>2, <1>4
  <2>3. lua' \in [Obj -> Seq(Value)]
    BY <1>7, <2>2 DEF IInv, TypeOK
  <2> QED
    BY <1>1, <1>5, <1>7, <2>1, <2>3, GoesOn
<1>8. CASE /\ "v" \notin Weak(Top.obj)
           /\ MarkObject(Top.L, v, Advanced("key", i), BeforeNext \o Pairs[i])
  <2>1. Sound(heap, Top, With(v)) /\ (v \in Obj => v \in With(v))
    BY <1>2, WithFacts, SoundMono
  <2>2. Sound(heap, Moved(Top, "key", i), With(v))
    BY <1>1, <1>2, <1>3, <2>1, ValueMoves
  <2>3. BeforeNext \o Pairs[i] \in Seq(Value)
    BY <1>2, <1>4
  <2> QED
    BY <1>1, <1>2, <1>4, <1>5, <1>8, <2>2, <2>3, MarkObjectKeeps
<1> QED
  BY <1>7, <1>8 DEF MarkValue

LEMMA KeyKeeps ==
  ASSUME IInv, MarkKey
  PROVE  IInv'
<1> DEFINE k == Pairs[Top.i][1]
<1>1. /\ calls # <<>> /\ Top.at = "key" /\ UNCHANGED <<heap, file, open>>
  BY DEF MarkKey
<1>2. /\ heap \in HeapType /\ Top \in Frame /\ Top.obj \in Obj /\ Top.L \in Obj
      /\ Sound(heap, Top, marked) /\ lua[Top.L] \in Seq(Value)
  BY <1>1, InCalls
<1>3. Top.i \in 1 .. Len(heap.pairs[Top.obj]) /\ Top.i \in Nat /\ Pairs = heap.pairs[Top.obj]
  <2>1. Len(heap.pairs[Top.obj]) \in Nat /\ Top.i \in Nat
    BY <1>2 DEF HeapType, Frame
  <2>2. Top.i >= 1 /\ Top.i <= Len(heap.pairs[Top.obj])
    BY <1>1, <1>2 DEF Sound
  <2> QED
    BY <2>1, <2>2 DEF Pairs
<1>4. k \in Value
  BY <1>2, <1>3, PairFacts
<1>5. /\ Advanced("next", Top.i) = Replaced(calls, Moved(Top, "next", Top.i))
      /\ Moved(Top, "next", Top.i) \in Frame
      /\ Moved(Top, "next", Top.i).obj = Last(calls).obj
  BY <1>1, <1>3, AdvancedIs
<1>6. Weak(Top.obj) = WeakIn(heap, Top.obj)
  BY DEF Weak, WeakIn
<1>7. CASE /\ "k" \in Weak(Top.obj)
           /\ calls' = Advanced("next", Top.i)
           /\ UNCHANGED <<phase, marked, lua>>
  <2>1. Sound(heap, Moved(Top, "next", Top.i), marked)
    BY <1>1, <1>2, <1>6, <1>7, KeyMoves
  <2>2. lua' \in [Obj -> Seq(Value)]
    BY <1>7 DEF IInv, TypeOK
  <2> QED
    BY <1>1, <1>5, <1>7, <2>1, <2>2, GoesOn
<1>8. CASE /\ "k" \notin Weak(Top.obj)
           /\ MarkObject(Top.L, k, Advanced("next", Top.i), Append(lua[Top.L], k))
  <2>1. Sound(heap, Top, With(k)) /\ (k \in Obj => k \in With(k))
    BY <1>2, WithFacts, SoundMono
  <2>2. Sound(heap, Moved(Top, "next", Top.i), With(k))
    BY <1>1, <1>2, <1>3, <2>1, KeyMoves
  <2>3. Append(lua[Top.L], k) \in Seq(Value)
    BY <1>2, <1>4
  <2> QED
    BY <1>1, <1>2, <1>4, <1>5, <1>8, <2>2, <2>3, MarkObjectKeeps
<1> QED
  BY <1>7, <1>8 DEF MarkKey

(* an uservalue, an upvalue or a slot *)
LEMMA RefFacts ==
  ASSUME IInv, calls # <<>>, Top.at = "refs", Top.i < Len(Refs)
  PROVE  LET v == Refs[Top.i + 1]
             g == Moved(Top, "refs", Top.i + 1)
         IN  /\ v \in Value
             /\ g \in Frame /\ g.obj = Last(calls).obj
             /\ Advanced("refs", Top.i + 1) = Replaced(calls, g)
             /\ Sound(heap, g, With(v))
<1> DEFINE v == Refs[Top.i + 1]
<1>1. heap \in HeapType /\ Top \in Frame /\ Sound(heap, Top, marked)
  BY InCalls
<1>2. Refs = Top.refs /\ Refs \in Seq(Value) /\ Top.i \in Nat /\ Top.i + 1 \in Nat
  BY <1>1 DEF Refs, Frame
<1>3. v \in Value
  BY <1>2
<1>4. Sound(heap, Top, With(v)) /\ (v \in Obj => v \in With(v))
  BY <1>1, WithFacts, SoundMono
<1>5. Sound(heap, Moved(Top, "refs", Top.i + 1), With(v))
  BY <1>1, <1>2, <1>4, RefMoves
<1> QED
  BY <1>2, <1>3, <1>5, AdvancedIs

LEMMA RefKeeps ==
  ASSUME IInv, MarkRef \/ MarkUservalue
  PROVE  IInv'
<1> DEFINE v == Refs[Top.i + 1]
           g == Moved(Top, "refs", Top.i + 1)
<1>1. calls # <<>> /\ Top.at = "refs" /\ Top.i < Len(Refs) /\ UNCHANGED <<heap, file, open>>
  BY DEF MarkRef, MarkUservalue, AtUservalue
<1>2. /\ v \in Value
      /\ g \in Frame /\ g.obj = Last(calls).obj
      /\ Advanced("refs", Top.i + 1) = Replaced(calls, g)
      /\ Sound(heap, g, With(v))
  BY <1>1, RefFacts
<1>3. Top.obj \in Obj /\ Top.L \in Obj
  BY <1>1, InCalls
<1>4. \A L \in Obj : Append(lua[L], v) \in Seq(Value)
  <2>1. lua \in [Obj -> Seq(Value)]
    BY DEF IInv, TypeOK
  <2> QED
    BY <1>2, <2>1
<1> HIDE DEF v, g
<1>5. CASE MarkRef
  <2>1. PICK L \in Obj : MarkObject(L, v, Replaced(calls, g), Append(lua[L], v))
    BY <1>2, <1>3, <1>5 DEF MarkRef, v
  <2> QED
    BY <1>1, <1>2, <1>4, <2>1, MarkObjectKeeps
<1>6. CASE MarkUservalue
  <2>1. Enter(Top.L, v, Replaced(calls, g), Append(lua[Top.L], v))
    BY <1>2, <1>6 DEF MarkUservalue, v
  <2> QED
    BY <1>1, <1>2, <1>3, <1>4, <2>1, EnterKeeps
<1> QED
  BY <1>5, <1>6

(* A uservalue that mark_table cannot do with ends it like an error.       *)
LEMMA MisfitKeeps ==
  ASSUME IInv, UservalueMisfits
  PROVE  IInv'
<1>1. calls # <<>> /\ phase' = "broken" /\ calls' = <<>> /\ UNCHANGED <<heap, marked, lua, file, open>>
  BY DEF UservalueMisfits, AtUservalue
<1>2. open = TRUE /\ Registry \in marked
  BY <1>1, InCalls DEF IInv
<1>3. TypeOK /\ <<>> \in Seq(Frame)
  BY DEF IInv
<1>4. TypeOK'
  BY <1>1, <1>2, <1>3 DEF TypeOK
<1>5. FileInv'
  BY <1>1 DEF IInv, FileInv
<1> QED
  BY <1>1, <1>2, <1>4, <1>5 DEF IInv

(* A file with one more table *)
LEMMA AppendTables ==
  ASSUME NEW S, NEW s \in Seq(S), NEW e \in S, NEW t, t = Append(s, e)
  PROVE  /\ t \in Seq(S)
         /\ {t[j].table : j \in DOMAIN t} = {s[j].table : j \in DOMAIN s} \cup {e.table}
         /\ /\ \A j, k \in DOMAIN s : s[j].table = s[k].table => j = k
            /\ e.table \notin {s[j].table : j \in DOMAIN s}
            => \A j, k \in DOMAIN t : t[j].table = t[k].table => j = k
<1> DEFINE n == Len(s)
<1>1. /\ n \in Nat /\ DOMAIN s = 1 .. n /\ t \in Seq(S) /\ DOMAIN t = 1 .. n + 1
      /\ (\A j \in 1 .. n : t[j] = s[j]) /\ t[n + 1] = e
  OBVIOUS
<1> HIDE DEF n
<1>2. DOMAIN t = DOMAIN s \cup {n + 1} /\ n + 1 \notin DOMAIN s
  BY <1>1
<1>3. {t[j].table : j \in DOMAIN t} = {s[j].table : j \in DOMAIN s} \cup {e.table}
  BY <1>1, <1>2, ZenonT(30)
<1>4. ASSUME \A j, k \in DOMAIN s : s[j].table = s[k].table => j = k,
             e.table \notin {s[j].table : j \in DOMAIN s},
             NEW j \in DOMAIN t, NEW k \in DOMAIN t, t[j].table = t[k].table
      PROVE  j = k
  <2>1. \A i \in DOMAIN s : t[i] = s[i] /\ s[i].table # e.table
    BY <1>1, <1>4
  <2> QED
    BY <1>1, <1>2, <1>4, <2>1
<1> QED
  BY <1>1, <1>3, <1>4

LEMMA LeaveKeeps ==
  ASSUME IInv, Leave
  PROVE  IInv'
<1> DEFINE f == [table |-> Top.obj, keys |-> KeysWritten]
<1>1. /\ calls # <<>> /\ calls' = Front(calls) /\ UNCHANGED <<phase, heap, marked, open>>
  BY DEF Leave
<1>2. /\ heap \in Heap /\ heap \in HeapType /\ Top \in Frame /\ Top.obj \in Obj /\ Top.L \in Obj
      /\ Sound(heap, Top, marked) /\ lua[Top.L] \in Seq(Value) /\ BeforeNext \in Seq(Value)
      /\ phase = "marking" /\ open = TRUE /\ Good(heap, calls, marked)
      /\ Top.obj \in marked
  BY <1>1, InCalls, BeforeNextType
<1>3. \/ Top.at = "next" /\ Top.i = Len(heap.pairs[Top.obj])
      \/ Top.at = "refs" /\ Top.i = Len(Top.refs)
  BY DEF Leave, Pairs, Refs
<1>4. StrongIn(heap, Top.obj) \subseteq marked
  BY <1>2, <1>3, SoundEnds
<1>5. Good(heap, calls', marked') /\ ObjsOf(calls') = ObjsOf(calls) \ {Top.obj}
  BY <1>1, <1>2, <1>4, GoodReturns DEF Top
<1>6. Top.obj \in ObjsOf(calls)
  <2>1. calls \in Seq(Frame) /\ Len(calls) \in DOMAIN calls /\ Top = calls[Len(calls)]
    BY <1>1, <1>2 DEF Good, Top, Last
  <2> QED
    BY <2>1 DEF ObjsOf
<1>7. marked' \ OnCalls' = (marked \ OnCalls) \cup {Top.obj}
  BY <1>1, <1>2, <1>5, <1>6, ObjsOnCalls
<1>8. f \in [table : Obj, keys : Seq(Value)] /\ f.table = Top.obj
  <2>1. heap.pairs[Top.obj] \in Seq(Value \X Value) /\ Pairs = heap.pairs[Top.obj]
    BY <1>2 DEF HeapType, Pairs
  <2>2. /\ Len(Pairs) \in Nat /\ DOMAIN Pairs = 1 .. Len(Pairs)
        /\ \A i \in DOMAIN Pairs : Pairs[i][1] \in Value
    BY <2>1
  <2>3. [i \in DOMAIN Pairs |-> Pairs[i][1]] \in Seq(Value)
    BY <2>2
  <2>4. KeysWritten \in Seq(Value)
    BY <2>3 DEF KeysWritten
  <2> QED
    BY <1>2, <2>4
<1> HIDE DEF f
<1>9. file \in Seq([table : Obj, keys : Seq(Value)]) /\ Len(file) \in Nat /\ DOMAIN file = 1 .. Len(file)
  BY DEF IInv, TypeOK
<1>10. \A t \in Obj : \A r \in Seq(Value) : [lua EXCEPT ![t] = r] \in [Obj -> Seq(Value)]
  BY DEF IInv, TypeOK
<1>11. CASE /\ Top.at = "next"
            /\ file' = Append(file, f)
            /\ lua' = [lua EXCEPT ![Top.L] = Front(BeforeNext)]
  <2>1. Top.obj \notin Written /\ \A j, k \in DOMAIN file : file[j].table = file[k].table => j = k
    BY <1>2, <1>6, ObjsOnCalls DEF IInv, FileInv
  <2>2. /\ file' \in Seq([table : Obj, keys : Seq(Value)])
        /\ Written' = Written \cup {Top.obj}
        /\ \A j, k \in DOMAIN file' : file'[j].table = file'[k].table => j = k
    <3> DEFINE S == [table : Obj, keys : Seq(Value)]
    <3>1. file \in Seq(S) /\ f \in S /\ file' = Append(file, f)
      BY <1>8, <1>9, <1>11
    <3>2. f.table \notin {file[j].table : j \in DOMAIN file}
      BY <1>8, <2>1 DEF Written
    <3> HIDE DEF S
    <3>3. /\ file' \in Seq(S)
          /\ {file'[j].table : j \in DOMAIN file'} = {file[j].table : j \in DOMAIN file} \cup {f.table}
          /\ \A j, k \in DOMAIN file' : file'[j].table = file'[k].table => j = k
      BY <2>1, <3>1, <3>2, AppendTables
    <3> QED
      BY <1>8, <3>3 DEF S, Written
  <2>3. heap.kind[Top.obj] = "table"
    BY <1>2, <1>11 DEF Sound
  <2>6. FileInv'
    BY <1>1, <1>2, <1>7, <2>2, <2>3 DEF IInv, FileInv
  <2>7. TypeOK'
    <3>1. lua' \in [Obj -> Seq(Value)]
      BY <1>2, <1>10, <1>11, FrontType
    <3> QED
      BY <1>1, <1>2, <1>5, <2>2, <3>1 DEF IInv, TypeOK, Good
  <2> QED
    BY <1>1, <1>2, <1>5, <2>6, <2>7 DEF IInv
<1>12. CASE /\ Top.at = "refs"
            /\ lua' = [lua EXCEPT ![Top.L] = Front(lua[Top.L])]
            /\ UNCHANGED file
  <2>1. heap.kind[Top.obj] # "table"
    BY <1>2, <1>12 DEF Sound
  <2>2. FileInv'
    BY <1>1, <1>2, <1>7, <1>12, <2>1 DEF IInv, FileInv, Written
  <2>3. TypeOK'
    <3>1. lua' \in [Obj -> Seq(Value)]
      BY <1>2, <1>10, <1>12, FrontType
    <3> QED
      BY <1>1, <1>2, <1>5, <1>12, <3>1 DEF IInv, TypeOK, Good
  <2> QED
    BY <1>1, <1>2, <1>5, <2>2, <2>3 DEF IInv
<1> QED
  BY <1>11, <1>12 DEF Leave, f

LEMMA BeginKeeps ==
  ASSUME IInv, Begin
  PROVE  IInv'
<1> DEFINE c == Called(Caller, Registry)
<1>0. phase = "idle"
  BY DEF Begin
<1>1. phase = "idle" /\ marked = {} /\ calls = <<>> /\ open = FALSE
  <2>1. marked = {} /\ calls = <<>>
    BY <1>0 DEF IInv
  <2>2. open \in BOOLEAN /\ (open <=> phase \in {"marking", "broken"})
    BY DEF IInv, TypeOK
  <2>3. ~(phase \in {"marking", "broken"})
    BY <1>0
  <2>4. open = FALSE
    BY <2>2, <2>3
  <2> QED
    BY <1>0, <2>1, <2>4
<1>2. UNCHANGED <<heap, file>> /\ Registry \in Obj /\ Caller \in Obj
  BY SnapshotAssumption DEF Begin
<1>3. Written = {}
  BY <1>1 DEF IInv, FileInv
<1>4. CASE phase' = "done" /\ UNCHANGED <<marked, calls, lua, open>>
  <2>1. TypeOK'
    BY <1>1, <1>2, <1>4 DEF IInv, TypeOK
  <2>2. FileInv'
    BY <1>1, <1>2, <1>4 DEF IInv, FileInv, Written, OnCalls
  <2> QED
    BY <1>1, <1>2, <1>4, <2>1, <2>2 DEF IInv
<1>5. CASE /\ phase' = "marking" /\ open' = TRUE
           /\ marked' = {Registry}
           /\ calls' = <<c>>
           /\ lua' = [lua EXCEPT ![Caller] = <<Registry>>]
  <2>1. c \in Frame /\ c.obj = Registry /\ Sound(heap, c, {Registry})
    BY <1>2, CalledIs
  <2> HIDE DEF c
  <2>2. calls' \in Seq(Frame) /\ DOMAIN calls' = {1} /\ calls'[1] = c
    BY <1>5, <2>1
  <2>3. ObjsOf(calls') = {Registry}
    BY <2>1, <2>2 DEF ObjsOf
  <2>4. Good(heap', calls', marked')
    <3>1. AllSound(heap', calls', marked')
      BY <1>2, <1>5, <2>1, <2>2 DEF AllSound
    <3>2. Distinct(calls')
      BY <2>2 DEF Distinct
    <3>3. Finished(heap', calls', marked')
      BY <1>5, <2>3 DEF Finished
    <3> QED
      BY <2>2, <3>1, <3>2, <3>3 DEF Good
  <2>5. TypeOK'
    <3>1. <<Registry>> \in Seq(Value)
      BY <1>2 DEF Value
    <3>2. lua' \in [Obj -> Seq(Value)]
      BY <1>2, <1>5, <3>1 DEF IInv, TypeOK
    <3> QED
      BY <1>2, <1>5, <2>2, <3>2 DEF IInv, TypeOK
  <2>6. FileInv'
    BY <1>2, <1>3, <1>5, <2>3, ObjsOnCalls DEF IInv, FileInv, Written
  <2> QED
    BY <1>5, <2>4, <2>5, <2>6 DEF IInv
<1> QED
  BY <1>4, <1>5 DEF Begin

LEMMA EndKeeps ==
  ASSUME IInv, End
  PROVE  IInv'
<1>1. phase = "marking" /\ phase' = "done" /\ open' = FALSE /\ UNCHANGED <<heap, marked, calls, lua, file>>
  BY DEF End
<1>2. calls = <<>>
  BY DEF End
<1>3. TypeOK'
  <2>1. /\ heap \in Heap /\ marked \subseteq Obj /\ calls \in Seq(Frame)
        /\ lua \in [Obj -> Seq(Value)] /\ file \in Seq([table : Obj, keys : Seq(Value)])
    BY DEF IInv, TypeOK
  <2>2. ~(phase' \in {"marking", "broken"})
    BY <1>1
  <2>3. open' \in BOOLEAN /\ (open' <=> phase' \in {"marking", "broken"})
    BY <1>1, <2>2
  <2> QED
    BY <1>1, <2>1, <2>3 DEF TypeOK
<1>4. FileInv'
  BY <1>1 DEF IInv, FileInv, Written, OnCalls
<1> QED
  BY <1>1, <1>2, <1>3, <1>4 DEF IInv
-----------------------------------------------------------------------------
LEMMA InitIInv == Init => IInv
<1> SUFFICES ASSUME Init PROVE IInv
  OBVIOUS
<1>1. TypeOK
  <2>1. \A t \in Obj : <<>> \in Seq(Value)
    OBVIOUS
  <2>2. lua \in [Obj -> Seq(Value)]
    BY <2>1 DEF Init
  <2>3. open \in BOOLEAN /\ (open <=> phase \in {"marking", "broken"})
    BY DEF Init
  <2>4. calls \in Seq(Frame) /\ file \in Seq([table : Obj, keys : Seq(Value)])
    BY DEF Init
  <2> QED
    BY <2>2, <2>3, <2>4 DEF Init, TypeOK
<1>2. Good(heap, calls, marked)
  BY DEF Init, Good, AllSound, Distinct, Finished
<1>3. FileInv
  BY DEF Init, FileInv, Written
<1> QED
  BY <1>1, <1>2, <1>3 DEF Init, IInv

LEMMA NextIInv == IInv /\ [Next]_vars => IInv'
<1> SUFFICES ASSUME IInv, [Next]_vars PROVE IInv'
  OBVIOUS
<1>1. CASE Begin
  BY <1>1, BeginKeeps
<1>2. CASE MarkMetatable
  BY <1>2, MetatableKeeps
<1>3. CASE MarkValue
  BY <1>3, ValueKeeps
<1>4. CASE MarkKey
  BY <1>4, KeyKeeps
<1>5. CASE MarkUservalue \/ MarkRef
  BY <1>5, RefKeeps
<1>6. CASE Leave
  BY <1>6, LeaveKeeps
<1>7. CASE End
  BY <1>7, EndKeeps
<1>8. CASE UNCHANGED vars
  <2>1. TypeOK'
    BY <1>8 DEF vars, IInv, TypeOK
  <2>2. FileInv'
    BY <1>8 DEF vars, IInv, FileInv, Written, OnCalls
  <2> QED
    BY <1>8, <2>1, <2>2 DEF vars, IInv
<1>9. CASE UservalueMisfits
  BY <1>9, MisfitKeeps
<1> QED
  BY <1>1, <1>2, <1>3, <1>4, <1>5, <1>6, <1>7, <1>8, <1>9 DEF Next

LEMMA StrongIs == \A o : Strong(o) = StrongIn(heap, o)
BY DEF Strong, StrongIn, Weak, WeakIn

LEMMA IInvMeans == IInv => TypeOK /\ NothingMissed /\ TablesWrittenOnce
<1> SUFFICES ASSUME IInv PROVE TypeOK /\ NothingMissed /\ TablesWrittenOnce
  OBVIOUS
<1>1. phase # "broken" => \A o \in marked \ OnCalls : Strong(o) \subseteq marked
  BY StrongIs, ObjsOnCalls DEF IInv, Good, Finished
<1>2. phase = "done" /\ marked # {} => Closed(marked)
  <2> SUFFICES ASSUME phase = "done", marked # {} PROVE Closed(marked)
    OBVIOUS
  <2>1. OnCalls = {}
    BY DEF IInv, OnCalls
  <2> QED
    BY <1>1, <2>1 DEF IInv, Closed
<1> QED
  BY <1>1, <1>2 DEF IInv, NothingMissed, FileInv, TablesWrittenOnce

(* The types hold in every heap: the stacks hold values, the file tables.  *)
THEOREM SnapshotTypes == Spec => []TypeOK
BY InitIInv, NextIInv, IInvMeans, PTL DEF Spec

(* Whatever the heap, what a mark_ function has left keeps nothing alive   *)
(* that is not marked, and in the end nothing the registry keeps alive is  *)
(* missing (lua50_profiler.c:433-703).                                     *)
THEOREM SnapshotMissesNothing == Spec => []NothingMissed
BY InitIInv, NextIInv, IInvMeans, PTL DEF Spec

(* Whatever the heap, the file has every finished table once               *)
(* (lua50_profiler.c:570-579).                                             *)
THEOREM SnapshotWritesOnce == Spec => []TablesWrittenOnce
BY InitIInv, NextIInv, IInvMeans, PTL DEF Spec
-----------------------------------------------------------------------------
(***************************************************************************)
(* Nothing else is marked.  For a set S that contains what is kept alive,  *)
(* marked stays within S.  The traversal takes what it marks from objects  *)
(* it has marked, and, on the stack of the calling thread, from what it    *)
(* has pushed itself; that can only be reached once it works on the stack  *)
(* of a coroutine.                                                         *)
(***************************************************************************)
Coroutine(S) == \E t \in S \ {Caller} : heap.kind[t] = "thread"

Alive(S) == Closed(S) /\ (Coroutine(S) => \A o \in S : Keys(o) \subseteq S)

(* The records in c are of objects in S and refer to nothing outside. *)
CallsWithin(S, h, c) ==
  \A j \in DOMAIN c :
    /\ c[j].L # Caller => c[j].L \in S /\ h.kind[c[j].L] = "thread"
    /\ h.kind[c[j].obj] # "table" => Range(c[j].refs) \subseteq S \cup {Plain}

StacksWithin(S, l) == \A t \in Obj : Range(l[t]) \subseteq S \cup {Plain}

Within(S) ==
  /\ marked \subseteq S
  /\ CallsWithin(S, heap, calls)
  /\ Coroutine(S) => StacksWithin(S, lua)

LEMMA FrontRange ==
  ASSUME NEW S, NEW s \in Seq(S)
  PROVE  Range(Front(s)) \subseteq Range(s)
BY DEF Front, Range

LEMMA AppendRange ==
  ASSUME NEW S, NEW s \in Seq(S), NEW e \in S
  PROVE  Range(Append(s, e)) = Range(s) \cup {e}
<1>1. /\ Len(s) \in Nat /\ DOMAIN s = 1 .. Len(s) /\ DOMAIN Append(s, e) = 1 .. Len(s) + 1
      /\ (\A k \in 1 .. Len(s) : Append(s, e)[k] = s[k]) /\ Append(s, e)[Len(s) + 1] = e
  OBVIOUS
<1> DEFINE a == Append(s, e)
<1> HIDE DEF a
<1>2. DOMAIN a = DOMAIN s \cup {Len(s) + 1} /\ (\A k \in DOMAIN s : a[k] = s[k]) /\ a[Len(s) + 1] = e
  BY <1>1 DEF a
<1>3. Range(a) = Range(s) \cup {e}
  BY <1>2, ZenonT(30) DEF Range
<1> QED
  BY <1>3 DEF a

LEMMA CallsWithinMoves ==
  ASSUME NEW S, NEW h, NEW c \in Seq(Frame), c # <<>>, CallsWithin(S, h, c),
         NEW at, NEW i
  PROVE  CallsWithin(S, h, Replaced(c, Moved(Last(c), at, i)))
<1> DEFINE d == Replaced(c, Moved(Last(c), at, i))
<1>1. Len(c) \in DOMAIN c /\ Last(c) = c[Len(c)] /\ \A j \in DOMAIN c : c[j] \in Frame
  BY DEF Last
<1>2. DOMAIN d = DOMAIN c /\ \A j \in DOMAIN c : d[j] = IF j = Len(c) THEN Moved(c[j], at, i) ELSE c[j]
  BY <1>1 DEF Replaced
<1> HIDE DEF d
<1>3. \A j \in DOMAIN c : d[j].obj = c[j].obj /\ d[j].L = c[j].L /\ d[j].refs = c[j].refs
  BY <1>1, <1>2 DEF Moved, Frame
<1>4. CallsWithin(S, h, d)
  BY <1>2, <1>3 DEF CallsWithin
<1> QED
  BY <1>4 DEF d

(* What the mark_ function of an object of S refers to *)
LEMMA CalledWithin ==
  ASSUME IInv, NEW S, S \subseteq Obj, Alive(S), Within(S), NEW v \in S, NEW L \in Obj,
         L # Caller => L \in S /\ heap.kind[L] = "thread"
  PROVE  /\ Called(L, v).L = L /\ Called(L, v).obj = v
         /\ heap.kind[v] # "table" => Range(Called(L, v).refs) \subseteq S \cup {Plain}
<1>1. /\ heap \in HeapType /\ heap.refs[v] \in Seq(Value) /\ Caller \in Obj
      /\ lua[Caller] \in Seq(Value)
  BY SnapshotAssumption DEF IInv, TypeOK, HeapType
<1>2. ASSUME heap.kind[v] # "table"
      PROVE  Range(Called(L, v).refs) \subseteq S \cup {Plain}
  <2>1. Range(heap.refs[v]) \subseteq S \cup {Plain}
    <3>1. Range(heap.refs[v]) \subseteq Obj \cup {Plain}
      BY <1>1 DEF Range, Value
    <3>2. Strong(v) \subseteq S
      BY DEF Alive, Closed
    <3>3. \A x \in Obj : x \in Range(heap.refs[v]) => x \in Strong(v)
      BY <1>2 DEF Strong
    <3> QED
      BY <3>1, <3>2, <3>3
  <2>2. CASE v = Caller /\ L # Caller
    <3>1. Coroutine(S)
      BY <2>2 DEF Coroutine
    <3>2. Range(lua[Caller]) \subseteq S \cup {Plain}
      BY <1>1, <3>1 DEF Within, StacksWithin
    <3>3. Called(L, v).refs = lua[Caller] \o heap.refs[v]
      BY <2>2 DEF Called
    <3> QED
      BY <1>1, <2>1, <3>2, <3>3, ConcatRange
  <2>3. CASE ~(v = Caller /\ L # Caller)
    BY <2>1, <2>3 DEF Called
  <2> QED
    BY <2>2, <2>3
<1> QED
  BY <1>2 DEF Called

LEMMA EnterWithin ==
  ASSUME IInv, NEW S, S \subseteq Obj, Alive(S), Within(S), calls # <<>>,
         NEW v \in S \cup {Plain}, NEW L \in Obj,
         L # Caller => L \in S /\ heap.kind[L] = "thread",
         NEW s \in Seq(Value), Coroutine(S) => Range(s) \subseteq S \cup {Plain},
         NEW at \in {"meta", "next", "key", "refs"}, NEW i \in Nat,
         Enter(L, v, Advanced(at, i), s), heap' = heap
  PROVE  Within(S)'
<1> DEFINE c == Advanced(at, i)
<1>1. /\ calls \in Seq(Frame) /\ lua \in [Obj -> Seq(Value)] /\ Plain \notin Obj
      /\ marked \subseteq S /\ CallsWithin(S, heap, calls)
  BY SnapshotAssumption DEF IInv, TypeOK, Within
<1>2. CallsWithin(S, heap, c) /\ c \in Seq(Frame)
  <2>1. c = Replaced(calls, Moved(Top, at, i)) /\ Moved(Top, at, i) \in Frame
    BY AdvancedIs
  <2> HIDE DEF c
  <2>2. CallsWithin(S, heap, c)
    BY <1>1, <2>1, CallsWithinMoves DEF Top
  <2>3. c \in Seq(Frame)
    BY <1>1, <2>1 DEF Replaced
  <2> QED
    BY <2>2, <2>3
<1>3. \A t \in Obj : Range(Front(s)) \subseteq Range(s)
  BY FrontRange
<1>4. Coroutine(S)' = Coroutine(S)
  BY DEF Coroutine
<1> HIDE DEF c
<1>5. CASE v \in Obj \ marked
  <2>1. /\ marked' = marked \cup {v}
        /\ calls' = Append(c, Called(L, v))
        /\ lua' = [lua EXCEPT ![L] = s]
    BY <1>5 DEF Enter, c
  <2>2. v \in S
    BY <1>1, <1>5
  <2>3. /\ Called(L, v).L = L /\ Called(L, v).obj = v
        /\ heap.kind[v] # "table" => Range(Called(L, v).refs) \subseteq S \cup {Plain}
    BY <2>2, CalledWithin
  <2>4. CallsWithin(S, heap', calls')
    <3>1. /\ Len(c) \in Nat /\ DOMAIN c = 1 .. Len(c) /\ DOMAIN calls' = 1 .. Len(c) + 1
          /\ (\A j \in 1 .. Len(c) : calls'[j] = c[j]) /\ calls'[Len(c) + 1] = Called(L, v)
      BY <1>2, <2>1
    <3> QED
      BY <1>2, <2>3, <3>1 DEF CallsWithin
  <2>5. Coroutine(S) => StacksWithin(S, lua')
    BY <1>1, <2>1 DEF Within, StacksWithin
  <2> QED
    BY <1>1, <1>4, <2>1, <2>2, <2>4, <2>5 DEF Within
<1>6. CASE v \notin Obj \ marked
  <2>1. /\ marked' = marked
        /\ calls' = c
        /\ lua' = [lua EXCEPT ![L] = Front(s)]
    BY <1>6 DEF Enter, c
  <2>2. Coroutine(S) => StacksWithin(S, lua')
    BY <1>1, <1>3, <2>1 DEF Within, StacksWithin
  <2> QED
    BY <1>1, <1>2, <1>4, <2>1, <2>2 DEF Within
<1> QED
  BY <1>5, <1>6

LEMMA MarkObjectWithin ==
  ASSUME IInv, NEW S, S \subseteq Obj, Alive(S), Within(S), calls # <<>>,
         NEW v \in S \cup {Plain}, NEW L \in Obj,
         L # Caller => L \in S /\ heap.kind[L] = "thread",
         NEW s \in Seq(Value), Coroutine(S) => Range(s) \subseteq S \cup {Plain},
         NEW at \in {"meta", "next", "key", "refs"}, NEW i \in Nat,
         MarkObject(L, v, Advanced(at, i), s), heap' = heap
  PROVE  Within(S)'
<1>1. CASE Enter(L, v, Advanced(at, i), s)
  BY <1>1, EnterWithin
<1>2. CASE /\ calls' = <<>>
           /\ lua' = [lua EXCEPT ![L] = s, ![Caller] = <<>>]
           /\ UNCHANGED marked
  <2>1. lua \in [Obj -> Seq(Value)] /\ Caller \in Obj
    BY SnapshotAssumption DEF IInv, TypeOK
  <2>2. \A t \in Obj : lua'[t] \in {lua[t], s, <<>>} /\ (lua'[t] = s => lua'[t] = s)
    BY <1>2, <2>1
  <2>3. Range(<<>>) = {}
    BY DEF Range
  <2>4. Coroutine(S) => StacksWithin(S, lua')
    BY <1>2, <2>2, <2>3 DEF Within, StacksWithin
  <2>5. CallsWithin(S, heap', calls')
    BY <1>2 DEF CallsWithin
  <2>6. Coroutine(S)' = Coroutine(S)
    BY DEF Coroutine
  <2> QED
    BY <1>2, <2>4, <2>5, <2>6 DEF Within
<1> QED
  BY <1>1, <1>2 DEF MarkObject

(* A step that calls no mark_ function: the stacks get nothing new but     *)
(* elements of S.                                                          *)
LEMMA GoesOnWithin ==
  ASSUME IInv, NEW S, Within(S), calls # <<>>,
         \/ \E at \in {"meta", "next", "key", "refs"}, i \in Nat : calls' = Advanced(at, i)
         \/ calls' = Front(calls),
         Coroutine(S) => StacksWithin(S, lua'),
         marked' = marked, heap' = heap
  PROVE  Within(S)'
<1>1. calls \in Seq(Frame) /\ CallsWithin(S, heap, calls)
  BY DEF IInv, TypeOK, Within
<1>2. CASE \E at \in {"meta", "next", "key", "refs"}, i \in Nat : calls' = Advanced(at, i)
  <2>1. PICK at \in {"meta", "next", "key", "refs"}, i \in Nat : calls' = Replaced(calls, Moved(Top, at, i))
    BY <1>2, AdvancedIs
  <2> QED
    BY <1>1, <2>1, CallsWithinMoves DEF Top, Within, Coroutine
<1>3. CASE calls' = Front(calls)
  <2>1. /\ Len(calls) \in Nat /\ DOMAIN calls = 1 .. Len(calls) /\ DOMAIN calls' = 1 .. Len(calls) - 1
        /\ \A j \in 1 .. Len(calls) - 1 : calls'[j] = calls[j]
    BY <1>1, <1>3 DEF Front
  <2>2. CallsWithin(S, heap', calls')
    BY <1>1, <2>1 DEF CallsWithin
  <2> QED
    BY <2>2 DEF Within, Coroutine
<1> QED
  BY <1>2, <1>3

(* The function on top works for an object of S, on the stack of the       *)
(* calling thread or of a coroutine of S.                                  *)
LEMMA TopWithin ==
  ASSUME IInv, NEW S, S \subseteq Obj, Alive(S), Within(S), calls # <<>>
  PROVE  /\ Top.obj \in S /\ Strong(Top.obj) \subseteq S
         /\ Top.L # Caller => Top.L \in S /\ heap.kind[Top.L] = "thread"
         /\ heap.kind[Top.obj] # "table" => Range(Top.refs) \subseteq S \cup {Plain}
         /\ Coroutine(S) => /\ Keys(Top.obj) \subseteq S
                            /\ Range(lua[Top.L]) \subseteq S \cup {Plain}
                            /\ Range(BeforeNext) \subseteq S \cup {Plain}
<1>1. Top.obj \in marked /\ Top.L \in Obj /\ lua[Top.L] \in Seq(Value)
  BY InCalls
<1>2. Top.obj \in S /\ Strong(Top.obj) \subseteq S
  BY <1>1 DEF Within, Alive, Closed
<1>3. calls \in Seq(Frame) /\ Len(calls) \in DOMAIN calls /\ Top = calls[Len(calls)]
  BY DEF IInv, TypeOK, Top, Last
<1>4. /\ Top.L # Caller => Top.L \in S /\ heap.kind[Top.L] = "thread"
      /\ heap.kind[Top.obj] # "table" => Range(Top.refs) \subseteq S \cup {Plain}
  BY <1>3 DEF Within, CallsWithin
<1>5. ASSUME Coroutine(S)
      PROVE  /\ Keys(Top.obj) \subseteq S
             /\ Range(lua[Top.L]) \subseteq S \cup {Plain}
             /\ Range(BeforeNext) \subseteq S \cup {Plain}
  <2>1. Keys(Top.obj) \subseteq S
    BY <1>2, <1>5 DEF Alive
  <2>2. Range(lua[Top.L]) \subseteq S \cup {Plain}
    BY <1>1, <1>5 DEF Within, StacksWithin
  <2>3. Range(Front(lua[Top.L])) \subseteq Range(lua[Top.L])
    BY <1>1, FrontRange
  <2> QED
    BY <2>1, <2>2, <2>3 DEF BeforeNext
<1> QED
  BY <1>2, <1>4, <1>5

LEMMA MetatableWithin ==
  ASSUME IInv, NEW S, S \subseteq Obj, Alive(S), Within(S), MarkMetatable
  PROVE  Within(S)'
<1> DEFINE meta == heap.meta[Top.obj]
           s == Append(lua[Top.L], meta)
<1>1. calls # <<>> /\ heap' = heap
  BY DEF MarkMetatable
<1>2. Top.L \in Obj /\ lua[Top.L] \in Seq(Value)
  BY <1>1, InCalls
<1>3. CASE meta = Nil /\ \E at \in {"next", "refs"} : calls' = Advanced(at, 0) /\ UNCHANGED <<phase, marked, lua>>
  <2>1. \E at \in {"meta", "next", "key", "refs"}, i \in Nat : calls' = Advanced(at, i)
    BY <1>3
  <2>2. Coroutine(S) => StacksWithin(S, lua')
    BY <1>3 DEF Within
  <2> QED
    BY <1>1, <1>3, <2>1, <2>2, GoesOnWithin
<1>4. ASSUME meta # Nil
      PROVE  /\ meta \in S /\ s \in Seq(Value)
             /\ Coroutine(S) => Range(s) \subseteq S \cup {Plain}
  <2>1. meta \in S /\ meta \in Value
    BY <1>1, <1>4, TopWithin DEF Strong, Value
  <2>2. Range(s) = Range(lua[Top.L]) \cup {meta} /\ s \in Seq(Value)
    BY <1>2, <2>1, AppendRange
  <2> QED
    BY <1>1, <2>1, <2>2, TopWithin
<1>5. CASE meta # Nil /\ MarkObject(Top.L, meta, Advanced("next", 0), s)
  BY <1>1, <1>2, <1>4, <1>5, TopWithin, MarkObjectWithin
<1>6. CASE meta # Nil /\ Enter(Top.L, meta, Advanced("refs", 0), s)
  BY <1>1, <1>2, <1>4, <1>6, TopWithin, EnterWithin
<1> QED
  BY <1>3, <1>5, <1>6 DEF MarkMetatable

LEMMA ValueWithin ==
  ASSUME IInv, NEW S, S \subseteq Obj, Alive(S), Within(S), MarkValue
  PROVE  Within(S)'
<1> DEFINE i == Top.i + 1
           k == Pairs[i][1]
           v == Pairs[i][2]
<1>1. calls # <<>> /\ Top.at = "next" /\ Top.i < Len(Pairs) /\ heap' = heap
  BY DEF MarkValue
<1>2. /\ heap \in HeapType /\ Top \in Frame /\ Top.obj \in Obj /\ Top.L \in Obj
      /\ Sound(heap, Top, marked) /\ BeforeNext \in Seq(Value)
  BY <1>1, InCalls, BeforeNextType
<1>3. i \in Nat /\ i \in 1 .. Len(heap.pairs[Top.obj]) /\ Pairs = heap.pairs[Top.obj] /\ i \in DOMAIN heap.pairs[Top.obj]
  <2>1. heap.pairs[Top.obj] \in Seq(Value \X Value) /\ Top.i \in Nat
    BY <1>2 DEF HeapType, Frame
  <2> QED
    BY <1>1, <2>1 DEF Pairs
<1>4. k \in Value /\ v \in Value /\ Pairs[i] \in Seq(Value) /\ Pairs[i] = <<k, v>>
  BY <1>2, <1>3, PairFacts
<1>5. Coroutine(S) => k \in S \cup {Plain}
  BY <1>1, <1>3, TopWithin DEF Keys
<1> HIDE DEF i, k, v
<1>6. CASE /\ calls' = Advanced("key", i)
           /\ lua' = [lua EXCEPT ![Top.L] = Append(BeforeNext, k)]
           /\ UNCHANGED marked
  <2>1. Range(Append(BeforeNext, k)) = Range(BeforeNext) \cup {k}
    BY <1>2, <1>4, AppendRange
  <2>2. Coroutine(S) => Range(Append(BeforeNext, k)) \subseteq S \cup {Plain}
    BY <1>1, <1>5, <2>1, TopWithin
  <2>3. lua \in [Obj -> Seq(Value)]
    BY DEF IInv, TypeOK
  <2>4. \A t \in Obj : lua'[t] = IF t = Top.L THEN Append(BeforeNext, k) ELSE lua[t]
    BY <1>6, <2>3
  <2>5. Coroutine(S) => StacksWithin(S, lua')
    BY <2>2, <2>4 DEF Within, StacksWithin
  <2> QED
    BY <1>1, <1>3, <1>6, <2>5, GoesOnWithin
<1>7. CASE /\ "v" \notin Weak(Top.obj)
           /\ MarkObject(Top.L, v, Advanced("key", i), BeforeNext \o Pairs[i])
  <2>1. heap.kind[Top.obj] = "table"
    BY <1>1, <1>2 DEF Sound
  <2>2. v \in Obj => v \in Strong(Top.obj)
    BY <1>3, <1>7, <2>1 DEF Strong, v
  <2>3. v \in S \cup {Plain}
    BY <1>1, <1>4, <2>2, TopWithin DEF Value
  <2>4. Range(Pairs[i]) = {k, v}
    <3>1. \A x, y : Range(<<x, y>>) = {x, y}
      BY DEF Range
    <3> QED
      BY <1>4, <3>1
  <2>5. /\ BeforeNext \o Pairs[i] \in Seq(Value)
        /\ Range(BeforeNext \o Pairs[i]) = Range(BeforeNext) \cup Range(Pairs[i])
    <3> DEFINE p == Pairs[i]
               b == BeforeNext
    <3>1. p \in Seq(Value) /\ b \in Seq(Value)
      BY <1>2, <1>4
    <3> HIDE DEF p, b
    <3>2. b \o p \in Seq(Value) /\ Range(b \o p) = Range(b) \cup Range(p)
      BY <3>1, ConcatRange
    <3> QED
      BY <3>2 DEF p, b
  <2>6. Coroutine(S) => Range(BeforeNext \o Pairs[i]) \subseteq S \cup {Plain}
    BY <1>1, <1>5, <2>3, <2>4, <2>5, TopWithin
  <2> QED
    BY <1>1, <1>2, <1>3, <1>7, <2>3, <2>5, <2>6, TopWithin, MarkObjectWithin
<1> QED
  BY <1>6, <1>7 DEF MarkValue, i, k, v

LEMMA KeyWithin ==
  ASSUME IInv, NEW S, S \subseteq Obj, Alive(S), Within(S), MarkKey
  PROVE  Within(S)'
<1> DEFINE i == Top.i
           k == Pairs[i][1]
<1>1. calls # <<>> /\ Top.at = "key" /\ heap' = heap
  BY DEF MarkKey
<1>2. /\ heap \in HeapType /\ Top \in Frame /\ Top.obj \in Obj /\ Top.L \in Obj
      /\ Sound(heap, Top, marked) /\ lua[Top.L] \in Seq(Value)
  BY <1>1, InCalls
<1>3. i \in Nat /\ i \in 1 .. Len(heap.pairs[Top.obj]) /\ Pairs = heap.pairs[Top.obj] /\ i \in DOMAIN heap.pairs[Top.obj]
  <2>1. heap.pairs[Top.obj] \in Seq(Value \X Value) /\ Top.i \in Nat
    BY <1>2 DEF HeapType, Frame
  <2>2. i >= 1 /\ i <= Len(heap.pairs[Top.obj])
    BY <1>1, <1>2 DEF Sound
  <2> QED
    BY <2>1, <2>2 DEF Pairs
<1>4. k \in Value
  BY <1>2, <1>3, PairFacts
<1>5. CASE calls' = Advanced("next", i) /\ UNCHANGED <<phase, marked, lua>>
  <2>1. Coroutine(S) => StacksWithin(S, lua')
    BY <1>5 DEF Within
  <2> QED
    BY <1>1, <1>3, <1>5, <2>1, GoesOnWithin
<1>6. CASE /\ "k" \notin Weak(Top.obj)
           /\ MarkObject(Top.L, k, Advanced("next", i), Append(lua[Top.L], k))
  <2>1. heap.kind[Top.obj] = "table"
    BY <1>1, <1>2 DEF Sound
  <2>2. k \in Obj => k \in Strong(Top.obj)
    BY <1>3, <1>6, <2>1 DEF Strong
  <2>3. k \in S \cup {Plain}
    BY <1>1, <1>4, <2>2, TopWithin DEF Value
  <2>4. /\ Append(lua[Top.L], k) \in Seq(Value)
        /\ Range(Append(lua[Top.L], k)) = Range(lua[Top.L]) \cup {k}
    BY <1>2, <1>4, AppendRange
  <2>5. Coroutine(S) => Range(Append(lua[Top.L], k)) \subseteq S \cup {Plain}
    BY <1>1, <2>3, <2>4, TopWithin
  <2> HIDE DEF k, i
  <2> QED
    BY <1>1, <1>2, <1>3, <1>6, <2>3, <2>4, <2>5, TopWithin, MarkObjectWithin
<1> QED
  BY <1>5, <1>6 DEF MarkKey

LEMMA RefWithin ==
  ASSUME IInv, NEW S, S \subseteq Obj, Alive(S), Within(S), MarkRef \/ MarkUservalue
  PROVE  Within(S)'
<1> DEFINE v == Refs[Top.i + 1]
<1>1. calls # <<>> /\ Top.at = "refs" /\ Top.i < Len(Refs) /\ heap' = heap
  BY DEF MarkRef, MarkUservalue, AtUservalue
<1>2. /\ Top \in Frame /\ Top.obj \in Obj /\ Top.L \in Obj /\ Sound(heap, Top, marked)
  BY <1>1, InCalls
<1>3. /\ Refs = Top.refs /\ Refs \in Seq(Value) /\ Top.i + 1 \in DOMAIN Refs
      /\ Top.i + 1 \in Nat
  BY <1>1, <1>2 DEF Refs, Frame
<1>4. heap.kind[Top.obj] # "table"
  BY <1>1, <1>2 DEF Sound
<1>5. v \in Value /\ v \in S \cup {Plain}
  <2>1. v \in Range(Top.refs)
    BY <1>3 DEF Range
  <2> QED
    BY <1>1, <1>3, <1>4, <2>1, TopWithin
<1>6. lua \in [Obj -> Seq(Value)]
  BY DEF IInv, TypeOK
<1>7. PICK L \in Obj :
        /\ L # Caller => L \in S /\ heap.kind[L] = "thread"
        /\ \/ MarkObject(L, v, Advanced("refs", Top.i + 1), Append(lua[L], v))
           \/ Enter(L, v, Advanced("refs", Top.i + 1), Append(lua[L], v))
  <2>1. Top.obj \in S /\ (Top.L # Caller => Top.L \in S /\ heap.kind[Top.L] = "thread")
    BY <1>1, TopWithin
  <2>2. CASE heap.kind[Top.obj] = "thread" /\ MarkRef
    BY <1>2, <2>1, <2>2 DEF MarkRef
  <2>3. CASE heap.kind[Top.obj] # "thread" /\ MarkRef
    BY <1>2, <2>1, <2>3 DEF MarkRef
  <2>4. CASE MarkUservalue
    BY <1>2, <2>1, <2>4 DEF MarkUservalue
  <2> QED
    BY <2>2, <2>3, <2>4
<1> HIDE DEF v
<1>8. /\ Append(lua[L], v) \in Seq(Value)
      /\ Range(Append(lua[L], v)) = Range(lua[L]) \cup {v}
  BY <1>5, <1>6, AppendRange
<1>9. Coroutine(S) => Range(Append(lua[L], v)) \subseteq S \cup {Plain}
  BY <1>5, <1>8 DEF Within, StacksWithin
<1> QED
  BY <1>1, <1>3, <1>5, <1>7, <1>8, <1>9, MarkObjectWithin, EnterWithin

LEMMA LeaveWithin ==
  ASSUME IInv, NEW S, S \subseteq Obj, Alive(S), Within(S), Leave
  PROVE  Within(S)'
<1>1. calls # <<>> /\ calls' = Front(calls) /\ marked' = marked /\ heap' = heap
  BY DEF Leave
<1>2. Top.L \in Obj /\ lua[Top.L] \in Seq(Value) /\ BeforeNext \in Seq(Value) /\ lua \in [Obj -> Seq(Value)]
  BY <1>1, InCalls, BeforeNextType DEF IInv, TypeOK
<1>3. PICK r \in {BeforeNext, lua[Top.L]} : lua' = [lua EXCEPT ![Top.L] = Front(r)]
  BY DEF Leave
<1>4. Range(Front(r)) \subseteq Range(r)
  BY <1>2, <1>3, FrontRange
<1>5. Coroutine(S) => Range(Front(r)) \subseteq S \cup {Plain}
  BY <1>1, <1>3, <1>4, TopWithin
<1>6. Coroutine(S) => StacksWithin(S, lua')
  BY <1>2, <1>3, <1>5 DEF Within, StacksWithin
<1> QED
  BY <1>1, <1>6, GoesOnWithin

LEMMA BeginWithin ==
  ASSUME IInv, NEW S, S \subseteq Obj, Alive(S), Within(S), Begin
  PROVE  Within(S)'
<1>1. heap' = heap /\ Registry \in S /\ Caller \in Obj /\ Registry \in Obj /\ heap.kind[Registry] = "table"
  BY SnapshotAssumption DEF Begin, Alive, Closed, IInv, TypeOK
<1>2. Coroutine(S)' = Coroutine(S)
  BY <1>1 DEF Coroutine
<1>3. CASE UNCHANGED <<marked, calls, lua>>
  BY <1>1, <1>2, <1>3 DEF Within
<1>4. CASE /\ marked' = {Registry}
           /\ calls' = <<Called(Caller, Registry)>>
           /\ lua' = [lua EXCEPT ![Caller] = <<Registry>>]
  <2>1. Called(Caller, Registry).L = Caller /\ Called(Caller, Registry).obj = Registry
    BY DEF Called
  <2>2. CallsWithin(S, heap', calls')
    BY <1>1, <1>4, <2>1 DEF CallsWithin
  <2>3. lua \in [Obj -> Seq(Value)]
    BY DEF IInv, TypeOK
  <2>4. Range(<<Registry>>) = {Registry}
    BY DEF Range
  <2>5. Coroutine(S) => StacksWithin(S, lua')
    BY <1>1, <1>4, <2>3, <2>4 DEF Within, StacksWithin
  <2> QED
    BY <1>1, <1>2, <1>4, <2>2, <2>5 DEF Within
<1> QED
  BY <1>3, <1>4 DEF Begin

AllWithin == \A S \in SUBSET Obj : Alive(S) => Within(S)

LEMMA InitWithin == Init => AllWithin
<1> SUFFICES ASSUME Init, NEW S \in SUBSET Obj PROVE Within(S)
  BY DEF AllWithin
<1>1. Range(<<>>) = {}
  BY DEF Range
<1>2. StacksWithin(S, lua)
  BY <1>1 DEF Init, StacksWithin
<1> QED
  BY <1>2 DEF Init, Within, CallsWithin

LEMMA NextWithin == IInv /\ AllWithin /\ [Next]_vars => AllWithin'
<1> SUFFICES ASSUME IInv, AllWithin, [Next]_vars, NEW S \in SUBSET Obj, Alive(S)'
             PROVE  Within(S)'
  BY DEF AllWithin
<1>1. heap' = heap
  BY DEF Next, vars, Begin, MarkMetatable, MarkValue, MarkKey, MarkUservalue, UservalueMisfits, MarkRef, Leave, End
<1>2. Alive(S) /\ Within(S)
  <2>1. Alive(S)
    BY <1>1 DEF Alive, Closed, Coroutine, Strong, Weak, Keys
  <2> QED
    BY <2>1 DEF AllWithin
<1>3. CASE Begin
  BY <1>2, <1>3, BeginWithin
<1>4. CASE MarkMetatable
  BY <1>2, <1>4, MetatableWithin
<1>5. CASE MarkValue
  BY <1>2, <1>5, ValueWithin
<1>6. CASE MarkKey
  BY <1>2, <1>6, KeyWithin
<1>7. CASE MarkUservalue \/ MarkRef
  BY <1>2, <1>7, RefWithin
<1>8. CASE Leave
  BY <1>2, <1>8, LeaveWithin
<1>9. CASE End \/ UNCHANGED vars
  BY <1>1, <1>2, <1>9 DEF End, vars, Within, Coroutine
<1>10. CASE UservalueMisfits
  <2>1. CallsWithin(S, heap', calls')
    BY <1>10 DEF UservalueMisfits, CallsWithin
  <2>2. UNCHANGED <<heap, marked, lua>>
    BY <1>10 DEF UservalueMisfits
  <2> QED
    BY <1>2, <2>1, <2>2 DEF Within, Coroutine
<1> QED
  BY <1>3, <1>4, <1>5, <1>6, <1>7, <1>8, <1>9, <1>10 DEF Next

LEMMA WithinMeans == AllWithin => OnlyReachableMarked
BY DEF AllWithin, Within, Alive, Coroutine, OnlyReachableMarked

(* Whatever the heap, nothing is marked that the registry does not keep    *)
(* alive, but for the weak keys the traversal finds on the stack of the    *)
(* calling thread when it comes back to it from a coroutine                *)
(* (lua50_profiler.c:509-703).                                             *)
THEOREM SnapshotMarksOnlyReachable == Spec => []OnlyReachableMarked
<1>1. Init => IInv /\ AllWithin
  BY InitIInv, InitWithin
<1>2. IInv /\ AllWithin /\ [Next]_vars => (IInv /\ AllWithin)'
  BY NextIInv, NextWithin
<1> QED
  BY <1>1, <1>2, WithinMeans, PTL DEF Spec
-----------------------------------------------------------------------------
(* Induction over the numbers, for a set instead of an operator.           *)
LEMMA NatSetInduction ==
  ASSUME NEW T, 0 \in T, \A n \in Nat : n \in T => n + 1 \in T
  PROVE  \A n \in Nat : n \in T
<1> DEFINE U == {n \in Nat : n \notin T}
<1> SUFFICES ASSUME U # {} PROVE FALSE
  OBVIOUS
<1>1. U \subseteq Nat
  OBVIOUS
<1>2. PICK n \in U : \A m \in U : <<m, n>> \notin OpToRel(<, Nat)
  BY <1>1, NatLessThanWellFounded, WFMin
<1>3. \A m \in U : m \in Nat /\ n \in Nat /\ ~(m < n)
  BY <1>2 DEF OpToRel
<1>4. n \in Nat /\ n # 0
  OBVIOUS
<1>5. n - 1 \in Nat /\ n - 1 \notin U
  BY <1>3, <1>4
<1> QED
  BY <1>4, <1>5

(* Holds and Held for a heap h and a sequence c of records as calls.  The  *)
(* recursive function of Held is a CHOOSE: HeldFcn says what is chosen.    *)
HoldsIn(h, f) ==
  IF f.at \in {"next", "key"} /\ f.i > 0
  THEN <<f.obj, h.pairs[f.obj][f.i][1]>> ELSE <<f.obj>>

HeldFcn(h, c, t, f) ==
  f = [j \in 0 .. Len(c) |->
         IF j = 0 THEN <<>>
         ELSE IF c[j].L = t THEN f[j - 1] \o HoldsIn(h, c[j])
         ELSE f[j - 1]]

HeldUpto(h, c, t) == CHOOSE f : HeldFcn(h, c, t, f)
HeldIn(h, c, t) == HeldUpto(h, c, t)[Len(c)]

LEMMA HeldIs == \A t : Held(t) = HeldIn(heap, calls, t)
BY DEF Held, HeldIn, HeldUpto, HeldFcn, Holds, HoldsIn

LEMMA HeldIsNext == \A t : Held(t)' = HeldIn(heap', calls', t)
BY DEF Held, HeldIn, HeldUpto, HeldFcn, Holds, HoldsIn

(* Records whose keys there are. *)
Fit(h, c) == c \in Seq(Frame) /\ \A j \in DOMAIN c : HoldsIn(h, c[j]) \in Seq(Value)

LEMMA SoundHolds ==
  ASSUME NEW h \in HeapType, NEW m, NEW g \in Frame, Sound(h, g, m)
  PROVE  HoldsIn(h, g) \in Seq(Value)
<1>1. g.obj \in Value /\ g.i \in Nat
  BY DEF Frame, Value
<1>2. CASE g.at \in {"next", "key"} /\ g.i > 0
  <2>1. g.i <= Len(h.pairs[g.obj]) /\ g.obj \in Obj
    BY <1>2 DEF Sound, Frame
  <2>2. h.pairs[g.obj] \in Seq(Value \X Value)
    BY <2>1 DEF HeapType
  <2>3. g.i \in 1 .. Len(h.pairs[g.obj])
    BY <1>1, <1>2, <2>1, <2>2
  <2>4. h.pairs[g.obj][g.i][1] \in Value
    BY <2>1, <2>3, PairFacts
  <2>5. \A x, y \in Value : <<x, y>> \in Seq(Value)
    OBVIOUS
  <2>6. HoldsIn(h, g) = <<g.obj, h.pairs[g.obj][g.i][1]>>
    BY <1>2 DEF HoldsIn
  <2> QED
    BY <1>1, <2>4, <2>5, <2>6
<1>3. CASE ~(g.at \in {"next", "key"} /\ g.i > 0)
  <2>1. HoldsIn(h, g) = <<g.obj>>
    BY <1>3 DEF HoldsIn
  <2>2. \A x \in Value : <<x>> \in Seq(Value)
    OBVIOUS
  <2> QED
    BY <1>1, <2>1, <2>2
<1> QED
  BY <1>2, <1>3

LEMMA GoodFits ==
  ASSUME NEW h \in HeapType, NEW c, NEW m, Good(h, c, m)
  PROVE  Fit(h, c)
BY SoundHolds DEF Good, AllSound, Fit

(* There is such a function, and its values are stacks. *)
LEMMA HeldExists ==
  ASSUME NEW h, NEW c, Fit(h, c), NEW t
  PROVE  /\ HeldFcn(h, c, t, HeldUpto(h, c, t))
         /\ \A j \in 0 .. Len(c) : HeldUpto(h, c, t)[j] \in Seq(Value)
<1> DEFINE Step(x, j) == IF c[j].L = t THEN x \o HoldsIn(h, c[j]) ELSE x
           Upto(n, f) == f = [j \in 0 .. n |-> IF j = 0 THEN <<>> ELSE Step(f[j - 1], j)]
           T == {n \in Nat : \E f : Upto(n, f)}
<1>1. 0 \in T
  <2> DEFINE g == [j \in 0 .. 0 |-> <<>>]
  <2>1. Upto(0, g)
    OBVIOUS
  <2> QED
    BY <2>1
<1>2. ASSUME NEW n \in Nat, n \in T PROVE n + 1 \in T
  <2> HIDE DEF Step
  <2>1. PICK f : Upto(n, f)
    BY <1>2
  <2> DEFINE g == [j \in 0 .. n + 1 |-> IF j \in 0 .. n THEN f[j] ELSE Step(f[n], n + 1)]
  <2>2. \A j \in 0 .. n + 1 : g[j] = IF j = 0 THEN <<>> ELSE Step(g[j - 1], j)
    <3> SUFFICES ASSUME NEW j \in 0 .. n + 1
                 PROVE  g[j] = IF j = 0 THEN <<>> ELSE Step(g[j - 1], j)
      OBVIOUS
    <3>1. CASE j = n + 1
      <4>1. j # 0 /\ j \notin 0 .. n /\ j - 1 = n /\ n \in 0 .. n /\ n \in 0 .. n + 1
        BY <3>1
      <4>2. g[j] = Step(f[n], n + 1) /\ g[j - 1] = f[n]
        BY <4>1
      <4> QED
        BY <3>1, <4>1, <4>2
    <3>2. CASE j \in 0 .. n
      <4>1. g[j] = f[j] /\ (j # 0 => j - 1 \in 0 .. n /\ g[j - 1] = f[j - 1])
        BY <3>2
      <4>2. f[j] = IF j = 0 THEN <<>> ELSE Step(f[j - 1], j)
        BY <2>1, <3>2
      <4> QED
        BY <4>1, <4>2
    <3> QED
      BY <3>1, <3>2
  <2>3. Upto(n + 1, g)
    <3>1. g = [j \in 0 .. n + 1 |-> g[j]]
      OBVIOUS
    <3> HIDE DEF g
    <3> QED
      BY <2>2, <3>1
  <2> HIDE DEF g, Upto
  <2> QED
    BY <2>3
<1>3. Len(c) \in Nat /\ DOMAIN c = 1 .. Len(c)
  BY DEF Fit
<1>4. Len(c) \in T
  <2> HIDE DEF T
  <2>1. \A n \in Nat : n \in T
    BY <1>1, <1>2, NatSetInduction
  <2> QED
    BY <1>3, <2>1
<1>5. HeldFcn(h, c, t, HeldUpto(h, c, t))
  BY <1>4 DEF HeldFcn, HeldUpto
<1> DEFINE s == HeldUpto(h, c, t)
           V == {n \in Nat : n <= Len(c) => s[n] \in Seq(Value)}
<1>6. \A j \in 0 .. Len(c) : s[j] = IF j = 0 THEN <<>> ELSE Step(s[j - 1], j)
  BY <1>5 DEF HeldFcn
<1> HIDE DEF s
<1>7. 0 \in V
  <2> HIDE DEF Step
  <2>1. s[0] = <<>>
    BY <1>3, <1>6
  <2>2. <<>> \in Seq(Value)
    OBVIOUS
  <2> QED
    BY <2>1, <2>2
<1>8. ASSUME NEW n \in Nat, n \in V PROVE n + 1 \in V
  <2>1. ASSUME n + 1 <= Len(c) PROVE s[n + 1] \in Seq(Value)
    <3>1. n + 1 \in 1 .. Len(c) /\ n + 1 \in 0 .. Len(c) /\ n + 1 # 0 /\ n <= Len(c) /\ n + 1 - 1 = n
      BY <1>3, <2>1
    <3> HIDE DEF Step
    <3>2. s[n + 1] = Step(s[n], n + 1)
      BY <1>6, <3>1
    <3>3. HoldsIn(h, c[n + 1]) \in Seq(Value)
      BY <1>3, <3>1 DEF Fit
    <3>4. s[n] \in Seq(Value)
      BY <1>8, <3>1
    <3>5. \A x, y \in Seq(Value) : x \o y \in Seq(Value)
      OBVIOUS
    <3> QED
      BY <3>2, <3>3, <3>4, <3>5 DEF Step
  <2> QED
    BY <2>1
<1>9. \A j \in 0 .. Len(c) : j \in V
  <2> HIDE DEF V
  <2>1. \A n \in Nat : n \in V
    BY <1>7, <1>8, NatSetInduction
  <2> QED
    BY <1>3, <2>1
<1> QED
  BY <1>5, <1>9 DEF s

LEMMA HeldSteps ==
  ASSUME NEW h, NEW c, Fit(h, c), NEW t
  PROVE  /\ HeldUpto(h, c, t)[0] = <<>>
         /\ \A j \in 1 .. Len(c) :
              HeldUpto(h, c, t)[j] = IF c[j].L = t THEN HeldUpto(h, c, t)[j - 1] \o HoldsIn(h, c[j])
                                     ELSE HeldUpto(h, c, t)[j - 1]
<1> DEFINE s == HeldUpto(h, c, t)
<1>1. Len(c) \in Nat
  BY DEF Fit
<1>2. s = [j \in 0 .. Len(c) |->
             IF j = 0 THEN <<>> ELSE IF c[j].L = t THEN s[j - 1] \o HoldsIn(h, c[j]) ELSE s[j - 1]]
  <2>1. HeldFcn(h, c, t, s)
    BY HeldExists
  <2> HIDE DEF s
  <2> QED
    BY <2>1 DEF HeldFcn
<1> HIDE DEF s
<1>3. \A j \in 0 .. Len(c) :
        s[j] = IF j = 0 THEN <<>> ELSE IF c[j].L = t THEN s[j - 1] \o HoldsIn(h, c[j]) ELSE s[j - 1]
  BY <1>2
<1> QED
  BY <1>1, <1>3 DEF s

(* Records that agree up to n hold the same up to n. *)
LEMMA HeldAgrees ==
  ASSUME NEW h, NEW c, NEW d, Fit(h, c), Fit(h, d), NEW t,
         NEW n \in Nat, n <= Len(c), n <= Len(d), \A j \in 1 .. n : c[j] = d[j]
  PROVE  \A j \in 0 .. n : HeldUpto(h, c, t)[j] = HeldUpto(h, d, t)[j]
<1> DEFINE s == HeldUpto(h, c, t)
           r == HeldUpto(h, d, t)
           T == {k \in Nat : k <= n => s[k] = r[k]}
<1>1. Len(c) \in Nat /\ Len(d) \in Nat
  BY DEF Fit
<1>2. /\ s[0] = <<>> /\ r[0] = <<>>
      /\ \A j \in 1 .. Len(c) : s[j] = IF c[j].L = t THEN s[j - 1] \o HoldsIn(h, c[j]) ELSE s[j - 1]
      /\ \A j \in 1 .. Len(d) : r[j] = IF d[j].L = t THEN r[j - 1] \o HoldsIn(h, d[j]) ELSE r[j - 1]
  BY HeldSteps
<1> HIDE DEF s, r
<1>3. 0 \in T
  BY <1>2
<1>4. ASSUME NEW k \in Nat, k \in T PROVE k + 1 \in T
  <2>1. ASSUME k + 1 <= n PROVE s[k + 1] = r[k + 1]
    <3>1. k + 1 \in 1 .. n /\ k + 1 \in 1 .. Len(c) /\ k + 1 \in 1 .. Len(d) /\ k <= n /\ k + 1 - 1 = k
      BY <1>1, <2>1
    <3>2. s[k] = r[k] /\ c[k + 1] = d[k + 1]
      BY <1>4, <3>1
    <3> QED
      BY <1>2, <3>1, <3>2
  <2> QED
    BY <2>1
<1>5. \A j \in 0 .. n : j \in T
  <2> HIDE DEF T
  <2>1. \A k \in Nat : k \in T
    BY <1>3, <1>4, NatSetInduction
  <2> QED
    BY <2>1
<1> QED
  BY <1>5 DEF s, r

(* Taking the last record away, putting another in its place, or adding    *)
(* one leaves what the others hold.                                        *)
LEMMA FrontIs ==
  ASSUME NEW S, NEW c \in Seq(S), c # <<>>
  PROVE  /\ Front(c) \in Seq(S) /\ Len(Front(c)) = Len(c) - 1
         /\ Len(c) \in Nat \ {0} /\ DOMAIN c = 1 .. Len(c)
         /\ \A j \in 1 .. Len(c) - 1 : Front(c)[j] = c[j]
         /\ Last(c) = c[Len(c)]
         /\ Last(c) \in S
<1>1. Len(c) \in Nat \ {0} /\ DOMAIN c = 1 .. Len(c) /\ Front(c) = SubSeq(c, 1, Len(c) - 1) /\ Last(c) = c[Len(c)]
  BY DEF Front, Last
<1>2. Last(c) \in S
  BY <1>1
<1>3. Len(c) - 1 \in Nat /\ Len(c) - 1 <= Len(c)
  BY <1>1
<1>4. \A n \in Nat : n <= Len(c) =>
        /\ SubSeq(c, 1, n) \in Seq(S) /\ Len(SubSeq(c, 1, n)) = n
        /\ \A j \in 1 .. n : SubSeq(c, 1, n)[j] = c[j]
  OBVIOUS
<1> QED
  BY <1>1, <1>2, <1>3, <1>4

LEMMA ReplacedIs ==
  ASSUME NEW S, NEW c \in Seq(S), c # <<>>, NEW g \in S
  PROVE  /\ Replaced(c, g) \in Seq(S) /\ Replaced(c, g) # <<>>
         /\ Last(Replaced(c, g)) = g /\ Front(Replaced(c, g)) = Front(c)
<1> DEFINE d == Replaced(c, g)
<1>1. Len(c) \in Nat \ {0} /\ DOMAIN c = 1 .. Len(c)
  OBVIOUS
<1>2. /\ d \in Seq(S) /\ Len(d) = Len(c)
      /\ \A j \in DOMAIN c : d[j] = IF j = Len(c) THEN g ELSE c[j]
  BY <1>1 DEF Replaced
<1> HIDE DEF d
<1>3. d # <<>>
  BY <1>1, <1>2
<1>4. Last(d) = g
  <2>1. Last(d) = d[Len(d)]
    BY DEF Last
  <2>2. Len(c) \in DOMAIN c
    BY <1>1
  <2> QED
    BY <1>2, <2>1, <2>2
<1>5. Front(d) = Front(c)
  <2>1. /\ Front(d) \in Seq(S) /\ Len(Front(d)) = Len(c) - 1
        /\ \A j \in 1 .. Len(c) - 1 : Front(d)[j] = d[j]
    BY <1>2, <1>3, FrontIs
  <2>2. /\ Front(c) \in Seq(S) /\ Len(Front(c)) = Len(c) - 1
        /\ \A j \in 1 .. Len(c) - 1 : Front(c)[j] = c[j]
    BY FrontIs
  <2>3. \A j \in 1 .. Len(c) - 1 : Front(d)[j] = Front(c)[j]
    <3>1. \A j \in 1 .. Len(c) - 1 : j \in DOMAIN c /\ j # Len(c)
      <4>1. \A n \in Nat : \A j \in 1 .. n - 1 : j \in 1 .. n /\ j # n
        OBVIOUS
      <4> QED
        BY <1>1, <4>1
    <3> QED
      BY <1>2, <2>1, <2>2, <3>1
  <2> DEFINE u == Front(d)
             w == Front(c)
  <2>4. u \in Seq(S) /\ w \in Seq(S) /\ Len(u) = Len(w) /\ \A j \in 1 .. Len(u) : u[j] = w[j]
    BY <2>1, <2>2, <2>3
  <2> HIDE DEF u, w
  <2>5. u = w
    BY <2>4, SeqEqual
  <2> QED
    BY <2>5 DEF u, w
<1> QED
  BY <1>2, <1>3, <1>4, <1>5 DEF d

LEMMA AppendedIs ==
  ASSUME NEW S, NEW c \in Seq(S), NEW e \in S
  PROVE  /\ Append(c, e) \in Seq(S) /\ Append(c, e) # <<>>
         /\ Last(Append(c, e)) = e /\ Front(Append(c, e)) = c
<1> DEFINE d == Append(c, e)
<1>1. /\ Len(c) \in Nat /\ d \in Seq(S) /\ Len(d) = Len(c) + 1 /\ d[Len(c) + 1] = e
      /\ \A j \in 1 .. Len(c) : d[j] = c[j]
  OBVIOUS
<1> HIDE DEF d
<1>2. d # <<>>
  BY <1>1
<1>3. /\ Front(d) \in Seq(S) /\ Len(Front(d)) = Len(c) /\ Last(d) = e
      /\ \A j \in 1 .. Len(c) : Front(d)[j] = d[j]
  BY <1>1, <1>2, FrontIs
<1>4. Front(d) = c
  BY <1>1, <1>3, SeqEqual
<1> QED
  BY <1>1, <1>2, <1>3, <1>4 DEF d

LEMMA FitFront ==
  ASSUME NEW h, NEW c, Fit(h, c), c # <<>>
  PROVE  Fit(h, Front(c)) /\ HoldsIn(h, Last(c)) \in Seq(Value)
<1>1. c \in Seq(Frame)
  BY DEF Fit
<1> DEFINE f == Front(c)
<1>2. /\ f \in Seq(Frame) /\ Len(f) = Len(c) - 1
      /\ Len(c) \in Nat \ {0} /\ DOMAIN c = 1 .. Len(c)
      /\ \A j \in 1 .. Len(c) - 1 : f[j] = c[j]
      /\ Last(c) = c[Len(c)]
  BY <1>1, FrontIs
<1> HIDE DEF f
<1>3. DOMAIN f = 1 .. Len(c) - 1
  BY <1>2
<1>4. \A j \in DOMAIN f : j \in DOMAIN c /\ f[j] = c[j]
  BY <1>2, <1>3
<1>5. Fit(h, f)
  BY <1>2, <1>4 DEF Fit
<1>6. Len(c) \in DOMAIN c
  BY <1>2
<1> QED
  BY <1>2, <1>5, <1>6 DEF Fit, f

LEMMA HeldEmpty ==
  ASSUME NEW h, NEW t
  PROVE  Fit(h, <<>>) /\ HeldIn(h, <<>>, t) = <<>>
<1>1. Fit(h, <<>>) /\ Len(<<>>) = 0
  BY DEF Fit
<1>2. HeldUpto(h, <<>>, t)[0] = <<>>
  BY <1>1, HeldSteps
<1> QED
  BY <1>1, <1>2 DEF HeldIn

LEMMA HeldType ==
  ASSUME NEW h, NEW c, Fit(h, c), NEW t
  PROVE  HeldIn(h, c, t) \in Seq(Value)
<1>1. Len(c) \in 0 .. Len(c)
  BY DEF Fit
<1> QED
  BY <1>1, HeldExists DEF HeldIn

LEMMA HeldTop ==
  ASSUME NEW h, NEW c, Fit(h, c), c # <<>>, NEW t
  PROVE  HeldIn(h, c, t) = IF Last(c).L = t
                           THEN HeldIn(h, Front(c), t) \o HoldsIn(h, Last(c))
                           ELSE HeldIn(h, Front(c), t)
<1> DEFINE f == Front(c)
           s == HeldUpto(h, c, t)
           r == HeldUpto(h, f, t)
<1>1. /\ f \in Seq(Frame) /\ Len(f) = Len(c) - 1
      /\ Len(c) \in Nat \ {0} /\ DOMAIN c = 1 .. Len(c)
      /\ \A j \in 1 .. Len(c) - 1 : f[j] = c[j]
      /\ Last(c) = c[Len(c)]
  BY FrontIs DEF Fit
<1>2. Fit(h, f)
  BY FitFront
<1> HIDE DEF f
<1>3. PICK n \in Nat : n = Len(c) - 1 /\ n + 1 = Len(c)
  BY <1>1
<1>4. r[n] = s[n]
  <2>1. n <= Len(c) /\ n <= Len(f) /\ n \in 0 .. n /\ \A j \in 1 .. n : c[j] = f[j]
    BY <1>1, <1>3
  <2> HIDE DEF r, s
  <2>2. \A j \in 0 .. n : s[j] = r[j]
    BY <1>2, <2>1, HeldAgrees DEF r, s
  <2> QED
    BY <2>1, <2>2
<1>5. s[Len(c)] = IF c[Len(c)].L = t THEN s[n] \o HoldsIn(h, c[Len(c)]) ELSE s[n]
  <2>1. \A j \in 1 .. Len(c) : s[j] = IF c[j].L = t THEN s[j - 1] \o HoldsIn(h, c[j]) ELSE s[j - 1]
    BY HeldSteps
  <2>2. Len(c) \in 1 .. Len(c)
    BY <1>1
  <2> QED
    BY <1>3, <2>1, <2>2
<1>6. HeldIn(h, c, t) = s[Len(c)] /\ HeldIn(h, f, t) = r[n]
  BY <1>1, <1>3 DEF HeldIn
<1> HIDE DEF r, s
<1>7. HeldIn(h, c, t) = IF Last(c).L = t THEN HeldIn(h, f, t) \o HoldsIn(h, Last(c)) ELSE HeldIn(h, f, t)
  BY <1>1, <1>4, <1>5, <1>6
<1> QED
  BY <1>7 DEF f

(* Room(h, c): what lies below the object of a record leaves the room that *)
(* luaL_checkstack was asked for.  A table may be entered without asking:  *)
(* from mark_userdata, whose own object has that room below it.            *)
OwnSlot(h, f) == IF h.kind[f.obj] = "table" THEN 0 ELSE 1

Room(h, c) ==
  \A j \in DOMAIN c :
    Len(HeldUpto(h, c, c[j].L)[j - 1]) + OwnSlot(h, c[j]) + MinStack <= MaxStack

(* The stacks are what the records hold and count on, and there is room. *)
Disc(h, c, s) == (\A t \in Obj : s[t] = HeldIn(h, c, t)) /\ Room(h, c)

LEMMA OwnSlotIs ==
  ASSUME NEW h, NEW f
  PROVE  OwnSlot(h, f) \in {0, 1} /\ (h.kind[f.obj] = "table" => OwnSlot(h, f) = 0)
BY DEF OwnSlot

LEMMA StackNats == MinStack \in Nat /\ MaxStack \in Nat /\ 3 <= MinStack /\ MinStack <= MaxStack
BY SnapshotAssumption

LEMMA RoomEmpty == ASSUME NEW h PROVE Room(h, <<>>)
BY DEF Room

LEMMA RoomTop ==
  ASSUME NEW h, NEW c, Fit(h, c), c # <<>>
  PROVE  Room(h, c) <=>
           /\ Room(h, Front(c))
           /\ Len(HeldIn(h, Front(c), Last(c).L)) + OwnSlot(h, Last(c)) + MinStack <= MaxStack
<1> DEFINE f == Front(c)
<1>1. /\ f \in Seq(Frame) /\ Len(f) = Len(c) - 1
      /\ Len(c) \in Nat \ {0} /\ DOMAIN c = 1 .. Len(c)
      /\ \A j \in 1 .. Len(c) - 1 : f[j] = c[j]
      /\ Last(c) = c[Len(c)]
  BY FrontIs DEF Fit
<1>2. Fit(h, f)
  BY FitFront
<1> HIDE DEF f
<1>3. PICK n \in Nat : n = Len(c) - 1 /\ n + 1 = Len(c)
  BY <1>1
<1>4. DOMAIN f = 1 .. n /\ Len(f) = n /\ DOMAIN c = 1 .. n + 1 /\ \A j \in 1 .. n : c[j] = f[j]
  BY <1>1, <1>3
<1>5. \A t : \A j \in 0 .. n : HeldUpto(h, c, t)[j] = HeldUpto(h, f, t)[j]
  <2> TAKE t
  <2>1. n <= Len(c) /\ n <= Len(f)
    BY <1>3, <1>4
  <2> QED
    BY <1>2, <1>4, <2>1, HeldAgrees
<1>6. HeldIn(h, f, c[n + 1].L) = HeldUpto(h, c, c[n + 1].L)[n]
  <2>1. n \in 0 .. n
    OBVIOUS
  <2> QED
    BY <1>4, <1>5, <2>1 DEF HeldIn
<1> DEFINE P(d, j) == Len(HeldUpto(h, d, d[j].L)[j - 1]) + OwnSlot(h, d[j]) + MinStack <= MaxStack
<1>7. \A j \in 1 .. n : P(c, j) <=> P(f, j)
  <2> TAKE j \in 1 .. n
  <2>1. j - 1 \in 0 .. n
    OBVIOUS
  <2>2. c[j] = f[j]
    BY <1>4
  <2>3. HeldUpto(h, c, c[j].L)[j - 1] = HeldUpto(h, f, f[j].L)[j - 1]
    BY <1>5, <2>1, <2>2
  <2> QED
    BY <2>2, <2>3
<1>8. P(c, n + 1) <=> Len(HeldIn(h, f, Last(c).L)) + OwnSlot(h, Last(c)) + MinStack <= MaxStack
  <2>1. n + 1 - 1 = n
    OBVIOUS
  <2>2. Last(c) = c[n + 1]
    BY <1>1, <1>3
  <2> QED
    BY <1>6, <2>1, <2>2
<1> HIDE DEF P
<1>9. (\A j \in 1 .. n + 1 : P(c, j)) <=> (\A j \in 1 .. n : P(f, j)) /\ P(c, n + 1)
  <2>1. \A j : j \in 1 .. n + 1 <=> j \in 1 .. n \/ j = n + 1
    OBVIOUS
  <2> QED
    BY <1>7, <2>1
<1>10. Room(h, c) <=> \A j \in 1 .. n + 1 : P(c, j)
  BY <1>4 DEF Room, P
<1>11. Room(h, f) <=> \A j \in 1 .. n : P(f, j)
  BY <1>4 DEF Room, P
<1> QED
  BY <1>8, <1>9, <1>10, <1>11 DEF f

LEMMA HoldsLen ==
  ASSUME NEW h, NEW f
  PROVE  Len(HoldsIn(h, f)) <= 2 /\ Len(HoldsIn(h, f)) >= 1 /\ Len(HoldsIn(h, f)) \in Nat
BY DEF HoldsIn

(* A stack has at most an object and a key above that room. *)
LEMMA RoomBound ==
  ASSUME NEW h, NEW c, Fit(h, c), Room(h, c), NEW t
  PROVE  HeldIn(h, c, t) \in Seq(Value) /\ Len(HeldIn(h, c, t)) + MinStack <= MaxStack + 2
<1> DEFINE s == HeldUpto(h, c, t)
           T == {n \in Nat : n <= Len(c) => Len(s[n]) + MinStack <= MaxStack + 2}
<1>1. Len(c) \in Nat /\ DOMAIN c = 1 .. Len(c)
  BY DEF Fit
<1>0. \A j \in 1 .. Len(c) : s[j] = IF c[j].L = t THEN s[j - 1] \o HoldsIn(h, c[j]) ELSE s[j - 1]
  BY HeldSteps
<1>2. s[0] = <<>> /\ \A j \in 0 .. Len(c) : s[j] \in Seq(Value)
  BY HeldSteps, HeldExists
<1>3. \A j \in 1 .. Len(c) : c[j].L = t => Len(s[j - 1]) + OwnSlot(h, c[j]) + MinStack <= MaxStack
  BY <1>1 DEF Room
<1>4. \A j \in 1 .. Len(c) : HoldsIn(h, c[j]) \in Seq(Value)
  BY <1>1 DEF Fit
<1> HIDE DEF s
<1>5. 0 \in T
  BY <1>2, StackNats
<1>6. ASSUME NEW n \in Nat, n \in T PROVE n + 1 \in T
  <2>1. ASSUME n + 1 <= Len(c) PROVE Len(s[n + 1]) + MinStack <= MaxStack + 2
    <3>1. n + 1 \in 1 .. Len(c) /\ n \in 0 .. Len(c) /\ n <= Len(c) /\ n + 1 - 1 = n
      BY <1>1, <2>1
    <3>2. s[n] \in Seq(Value) /\ HoldsIn(h, c[n + 1]) \in Seq(Value)
      BY <1>2, <1>4, <3>1
    <3> DEFINE k == n + 1
    <3>0. s[k] = IF c[k].L = t THEN s[n] \o HoldsIn(h, c[k]) ELSE s[n]
      <4>1. k \in 1 .. Len(c) /\ k - 1 = n
        BY <3>1
      <4> HIDE DEF k
      <4> QED
        BY <1>0, <4>1
    <3>3. CASE c[n + 1].L = t
      <4>1. s[n + 1] = s[n] \o HoldsIn(h, c[n + 1])
        BY <3>0, <3>3
      <4>2. Len(s[n + 1]) = Len(s[n]) + Len(HoldsIn(h, c[n + 1])) /\ Len(s[n]) \in Nat
        BY <3>2, <4>1
      <4>3. Len(s[n]) + OwnSlot(h, c[n + 1]) + MinStack <= MaxStack
        BY <1>3, <3>1, <3>3
      <4> DEFINE a == Len(s[n + 1])
                 b == Len(s[n])
                 d == Len(HoldsIn(h, c[n + 1]))
                 e == OwnSlot(h, c[n + 1])
      <4>4. a = b + d /\ b \in Nat /\ d \in Nat /\ d <= 2 /\ e \in {0, 1} /\ b + e + MinStack <= MaxStack
        BY <4>2, <4>3, HoldsLen, OwnSlotIs
      <4> HIDE DEF a, b, d, e
      <4>5. a + MinStack <= MaxStack + 2
        BY <4>4, StackNats
      <4> QED
        BY <4>5 DEF a
    <3>4. CASE c[n + 1].L # t
      <4>1. s[n + 1] = s[n]
        BY <3>0, <3>4
      <4> QED
        BY <1>6, <3>1, <4>1
    <3> QED
      BY <3>3, <3>4
  <2> QED
    BY <2>1
<1>7. Len(c) \in T
  <2> HIDE DEF T
  <2>1. \A n \in Nat : n \in T
    BY <1>5, <1>6, NatSetInduction
  <2> QED
    BY <1>1, <2>1
<1>8. Len(s[Len(c)]) + MinStack <= MaxStack + 2
  BY <1>7
<1> QED
  BY <1>8, HeldType DEF HeldIn, s

LEMMA DiscFits ==
  ASSUME NEW h, NEW c, Fit(h, c), NEW s, Disc(h, c, s)
  PROVE  \A t \in Obj : Len(s[t]) <= MaxStack
<1> TAKE t \in Obj
<1>1. s[t] = HeldIn(h, c, t) /\ HeldIn(h, c, t) \in Seq(Value) /\ Len(HeldIn(h, c, t)) + MinStack <= MaxStack + 2
  BY RoomBound DEF Disc
<1>2. Len(s[t]) \in Nat /\ Len(s[t]) + MinStack <= MaxStack + 2
  BY <1>1
<1> QED
  BY <1>2, StackNats
-----------------------------------------------------------------------------
DInv == (phase # "broken" => Disc(heap, calls, lua)) /\ StackFits

LEMMA FitCalls == ASSUME IInv, phase # "broken" PROVE Fit(heap, calls)
<1>1. heap \in HeapType
  BY SnapshotAssumption DEF IInv, TypeOK
<1>2. Good(heap, calls, marked)
  BY DEF IInv
<1> QED
  BY <1>1, <1>2, GoodFits

LEMMA DiscIsDInv ==
  ASSUME IInv', Disc(heap', calls', lua'), phase' # "broken"
  PROVE  DInv'
<1>1. Fit(heap', calls')
  <2>1. heap' \in HeapType
    BY SnapshotAssumption DEF IInv, TypeOK
  <2>2. Good(heap', calls', marked')
    BY DEF IInv
  <2> QED
    BY <2>1, <2>2, GoodFits
<1>2. \A t \in Obj : Len(lua'[t]) <= MaxStack
  BY <1>1, DiscFits
<1> QED
  BY <1>2 DEF DInv, StackFits

(* c with g on top instead: x is what the others that work on t = Last(c).L *)
(* hold there.                                                              *)
Under(h, c, s, g, t, x, d) ==
  /\ Fit(h, d) /\ d # <<>> /\ Front(d) = Front(c) /\ Last(d) = g
  /\ x \in Seq(Value)
  /\ s[t] = x \o HoldsIn(h, Last(c)) /\ HeldIn(h, d, t) = x \o HoldsIn(h, g)
  /\ Len(x) + OwnSlot(h, Last(c)) + MinStack <= MaxStack
  /\ \A u \in Obj : u # t => HeldIn(h, d, u) = s[u]
  /\ Room(h, d)
  /\ HeldIn(h, Front(c), t) = x
  /\ \A u \in Obj : u # t => HeldIn(h, Front(c), u) = s[u]
  /\ Fit(h, Front(c)) /\ Room(h, Front(c))

LEMMA MovesUnder ==
  ASSUME NEW h \in HeapType, NEW c, Fit(h, c), c # <<>>, NEW s, Disc(h, c, s),
         NEW g \in Frame, HoldsIn(h, g) \in Seq(Value), Last(c).L \in Obj,
         g.L = Last(c).L, g.obj = Last(c).obj, NEW d, d = Replaced(c, g)
  PROVE  \E x : Under(h, c, s, g, Last(c).L, x, d)
<1> DEFINE t == Last(c).L
           f == Front(c)
           x == HeldIn(h, f, t)
<1>1. c \in Seq(Frame)
  BY DEF Fit
<1>2. d \in Seq(Frame) /\ d # <<>> /\ Last(d) = g /\ Front(d) = f
  BY <1>1, ReplacedIs
<1>3. Fit(h, d)
  <2>1. DOMAIN c = 1 .. Len(c) /\ Len(c) \in Nat
    BY <1>1
  <2>2. DOMAIN d = DOMAIN c /\ \A j \in DOMAIN c : d[j] = IF j = Len(c) THEN g ELSE c[j]
    BY <2>1 DEF Replaced
  <2>3. \A j \in DOMAIN c : HoldsIn(h, c[j]) \in Seq(Value)
    BY DEF Fit
  <2>4. \A j \in DOMAIN d : HoldsIn(h, d[j]) \in Seq(Value)
    BY <2>2, <2>3
  <2> QED
    BY <1>2, <2>4 DEF Fit
<1>4. Fit(h, f) /\ x \in Seq(Value)
  BY FitFront, HeldType
<1> HIDE DEF f
<1>5. \A u : HeldIn(h, c, u) = IF t = u THEN HeldIn(h, f, u) \o HoldsIn(h, Last(c)) ELSE HeldIn(h, f, u)
  BY HeldTop DEF f
<1>6. \A u : HeldIn(h, d, u) = IF t = u THEN HeldIn(h, f, u) \o HoldsIn(h, g) ELSE HeldIn(h, f, u)
  <2>1. \A u : HeldIn(h, d, u) = IF Last(d).L = u THEN HeldIn(h, Front(d), u) \o HoldsIn(h, Last(d))
                                 ELSE HeldIn(h, Front(d), u)
    <3>1. Fit(h, d) /\ d # <<>>
      BY <1>2, <1>3
    <3> QED
      BY ONLY <3>1, HeldTop
  <2>2. Last(d).L = t /\ Last(d) = g
    BY <1>2
  <2> HIDE DEF t
  <2> QED
    BY <1>2, <2>1, <2>2
<1>7. \A u \in Obj : s[u] = HeldIn(h, c, u)
  BY DEF Disc
<1>8. Room(h, f) /\ Len(x) + OwnSlot(h, Last(c)) + MinStack <= MaxStack
  BY RoomTop DEF Disc, f
<1>9. Room(h, d)
  <2>1. OwnSlot(h, g) = OwnSlot(h, Last(c)) /\ Last(d).L = t
    BY <1>2 DEF OwnSlot
  <2>2. Room(h, d) <=> Room(h, f) /\ Len(HeldIn(h, f, t)) + OwnSlot(h, g) + MinStack <= MaxStack
    BY <1>2, <1>3, <2>1, RoomTop
  <2> QED
    BY <1>8, <2>1, <2>2
<1> HIDE DEF x
<1>10. Under(h, c, s, g, t, x, d)
  <2>1. s[t] = x \o HoldsIn(h, Last(c)) /\ HeldIn(h, d, t) = x \o HoldsIn(h, g)
    BY <1>5, <1>6, <1>7 DEF x
  <2>2. \A u \in Obj : u # t => HeldIn(h, d, u) = s[u] /\ HeldIn(h, f, u) = s[u]
    BY <1>5, <1>6, <1>7
  <2>3. HeldIn(h, f, t) = x
    BY DEF x
  <2> QED
    BY <1>2, <1>3, <1>4, <1>8, <1>9, <2>1, <2>2, <2>3 DEF Under, f
<1> QED
  BY <1>10

(* c is calls with the caller advanced and s the stack of L with v pushed. *)
Ready(L, v, c, s) ==
  /\ L \in Obj /\ v \in Value
  /\ Fit(heap, c) /\ Room(heap, c)
  /\ \A t \in Obj : t # L => HeldIn(heap, c, t) = lua[t]
  /\ s = Append(HeldIn(heap, c, L), v)

(* readobject, for which the stack of L has room, *)
LEMMA EnterDisc ==
  ASSUME IInv, IInv', phase = "marking", phase' = phase, heap' = heap,
         NEW L, NEW v, NEW c, NEW s, Ready(L, v, c, s),
         Len(HeldIn(heap, c, L)) + MinStack <= MaxStack,
         v \in Obj \ marked /\ heap.kind[v] # "table" => Len(s) + MinStack <= MaxStack,
         Enter(L, v, c, s)
  PROVE  DInv'
<1>0. /\ L \in Obj /\ v \in Value /\ Fit(heap, c) /\ Room(heap, c)
      /\ \A t \in Obj : t # L => HeldIn(heap, c, t) = lua[t]
      /\ s = Append(HeldIn(heap, c, L), v)
  BY DEF Ready
<1> USE <1>0
<1> DEFINE x == HeldIn(heap, c, L)
<1>1. x \in Seq(Value) /\ c \in Seq(Frame) /\ lua \in [Obj -> Seq(Value)]
  BY HeldType DEF Fit, IInv, TypeOK
<1>2. phase' # "broken" /\ lua' \in [Obj -> Seq(Value)]
  BY DEF IInv, TypeOK
<1>3. CASE v \in Obj \ marked
  <2> DEFINE e == Called(L, v)
             d == Append(c, e)
  <2>1. calls' = d /\ lua' = [lua EXCEPT ![L] = s]
    BY <1>3 DEF Enter
  <2>2. e \in Frame /\ e.obj = v /\ e.L = L /\ e.i = 0
    <3>1. v \in marked \cup {v}
      OBVIOUS
    <3> QED
      BY <1>3, <3>1, CalledIs DEF Called
  <2>3. HoldsIn(heap, e) = <<v>>
    BY <2>2 DEF HoldsIn
  <2> HIDE DEF e
  <2>4. d \in Seq(Frame) /\ d # <<>> /\ Last(d) = e /\ Front(d) = c
    BY <1>1, <2>2, AppendedIs
  <2>5. Fit(heap, d)
    <3>1. heap' \in HeapType /\ Good(heap', calls', marked')
      BY <1>2, SnapshotAssumption DEF IInv, TypeOK
    <3> QED
      BY <2>1, <3>1, GoodFits
  <2> HIDE DEF d
  <2>6. \A t : HeldIn(heap, d, t) = IF L = t THEN HeldIn(heap, c, t) \o <<v>> ELSE HeldIn(heap, c, t)
    BY ZenonT(30), <2>2, <2>3, <2>4, <2>5, HeldTop
  <2>7. s = x \o <<v>>
    BY <1>1
  <2>8. \A t \in Obj : lua'[t] = HeldIn(heap, d, t)
    BY <1>1, <2>1, <2>6, <2>7
  <2>9. Len(x) + OwnSlot(heap, e) + MinStack <= MaxStack
    <3>1. CASE heap.kind[v] = "table"
      <4>1. OwnSlot(heap, e) = 0
        BY <2>2, <3>1 DEF OwnSlot
      <4>2. Len(x) \in Nat
        BY <1>1
      <4> QED
        BY <4>1, <4>2, StackNats
    <3>2. CASE heap.kind[v] # "table"
      <4>1. OwnSlot(heap, e) = 1
        BY <2>2, <3>2 DEF OwnSlot
      <4>2. Len(x) \in Nat /\ Len(s) = Len(x) + 1 /\ Len(s) + MinStack <= MaxStack
        BY <1>1, <1>3, <3>2
      <4> QED
        BY <4>1, <4>2, StackNats
    <3> QED
      BY <3>1, <3>2
  <2>10. Room(heap, d)
    BY <2>2, <2>4, <2>5, <2>9, RoomTop
  <2>11. Disc(heap', calls', lua')
    BY <2>1, <2>8, <2>10 DEF Disc
  <2> QED
    BY <1>2, <2>11, DiscIsDInv
<1>4. CASE v \notin Obj \ marked
  <2>1. calls' = c /\ lua' = [lua EXCEPT ![L] = Front(s)]
    BY <1>4 DEF Enter
  <2> HIDE DEF x
  <2>2. Front(s) = x
    <3>1. s = Append(x, v)
      BY DEF x
    <3> QED
      BY <1>1, <3>1, AppendedIs
  <2>3. \A t \in Obj : lua'[t] = HeldIn(heap, c, t)
    BY <1>1, <2>1, <2>2 DEF x
  <2>4. Disc(heap', calls', lua')
    BY <2>1, <2>3 DEF Disc
  <2> QED
    BY <1>2, <2>4, DiscIsDInv
<1> QED
  BY <1>3, <1>4

(* ... and mark_object, which asks for it. *)
LEMMA MarkObjectDisc ==
  ASSUME IInv, IInv', phase = "marking", heap' = heap, StackFits,
         NEW L, NEW v, NEW c, NEW s, Ready(L, v, c, s),
         MarkObject(L, v, c, s)
  PROVE  DInv'
<1>0. /\ L \in Obj /\ v \in Value /\ Fit(heap, c) /\ Room(heap, c)
      /\ \A t \in Obj : t # L => HeldIn(heap, c, t) = lua[t]
      /\ s = Append(HeldIn(heap, c, L), v)
  BY DEF Ready
<1> USE <1>0
<1> DEFINE x == HeldIn(heap, c, L)
<1>1. x \in Seq(Value) /\ Len(x) \in Nat /\ Len(x) + MinStack <= MaxStack + 2
  BY RoomBound
<1>2. Len(s) = Len(x) + 1 /\ Len(s) \in Nat
  BY <1>1
<1>3. CASE Len(s) + MinStack <= MaxStack /\ Enter(L, v, c, s)
  <2> HIDE DEF x
  <2>1. Len(x) + MinStack <= MaxStack
    BY <1>1, <1>2, <1>3, StackNats
  <2>2. phase' = phase
    BY <1>3 DEF Enter
  <2> QED
    BY <1>3, <2>1, <2>2, EnterDisc DEF x
<1>4. CASE /\ phase' = "broken"
           /\ lua' = [lua EXCEPT ![L] = s, ![Caller] = <<>>]
  <2>1. Len(s) <= MaxStack
    <3> HIDE DEF x
    <3> QED
      BY <1>1, <1>2, StackNats
  <2>2. Len(<<>>) <= MaxStack
    BY StackNats
  <2>3. lua \in [Obj -> Seq(Value)] /\ \A t \in Obj : Len(lua[t]) <= MaxStack
    BY DEF StackFits, IInv, TypeOK
  <2>4. \A t \in Obj : lua'[t] = s \/ lua'[t] = <<>> \/ lua'[t] = lua[t]
    BY <1>4, <2>3
  <2>5. \A t \in Obj : Len(lua'[t]) <= MaxStack
    BY <2>1, <2>2, <2>3, <2>4
  <2> QED
    BY <1>4, <2>5 DEF DInv, StackFits
<1> QED
  BY <1>3, <1>4 DEF MarkObject
-----------------------------------------------------------------------------
LEMMA StackFacts ==
  ASSUME NEW x \in Seq(Value), NEW a \in Value, NEW b \in Value, NEW v \in Value
  PROVE  /\ x \o <<a>> \in Seq(Value) /\ x \o <<a, b>> \in Seq(Value)
         /\ Len(x \o <<a>>) = Len(x) + 1
         /\ Append(x \o <<a>>, b) = x \o <<a, b>>
         /\ (x \o <<a>>) \o <<b, v>> = Append(x \o <<a, b>>, v)
         /\ Front(x \o <<a>>) = x
         /\ Front(x \o <<a, b>>) = x \o <<a>>
<1>1. x \o <<a>> \in Seq(Value) /\ x \o <<a, b>> \in Seq(Value) /\ Len(x \o <<a>>) = Len(x) + 1
  OBVIOUS
<1>2. Append(x \o <<a>>, b) = x \o <<a, b>> /\ x \o <<a>> = Append(x, a)
  OBVIOUS
<1>3. (x \o <<a>>) \o <<b, v>> = Append(x \o <<a, b>>, v)
  OBVIOUS
<1>4. Front(x \o <<a>>) = x
  <2>1. Front(Append(x, a)) = x
    BY AppendedIs
  <2> QED
    BY <1>2, <2>1
<1>5. Front(x \o <<a, b>>) = x \o <<a>>
  <2> DEFINE y == x \o <<a>>
  <2>1. y \in Seq(Value) /\ x \o <<a, b>> = Append(y, b)
    BY <1>1, <1>2
  <2> HIDE DEF y
  <2>2. Front(Append(y, b)) = y
    BY <2>1, AppendedIs
  <2> QED
    BY <2>1, <2>2 DEF y
<1> QED
  BY <1>1, <1>2, <1>3, <1>4, <1>5

LEMMA StepUnder ==
  ASSUME IInv, DInv, calls # <<>>, NEW at \in {"meta", "next", "key", "refs"}, NEW i \in Nat,
         HoldsIn(heap, Moved(Top, at, i)) \in Seq(Value)
  PROVE  \E x : Under(heap, calls, lua, Moved(Top, at, i), Top.L, x, Advanced(at, i))
<1>1. phase = "marking" /\ heap \in HeapType /\ Top \in Frame /\ Top.L \in Obj /\ Top = Last(calls)
  BY InCalls DEF Top
<1>2. Fit(heap, calls) /\ Disc(heap, calls, lua)
  BY <1>1, FitCalls DEF DInv
<1> DEFINE g == Moved(Top, at, i)
<1>3. Advanced(at, i) = Replaced(calls, g) /\ g \in Frame /\ g.obj = Last(calls).obj
  BY AdvancedIs
<1>4. g.L = Last(calls).L
  BY <1>1 DEF Moved, Frame
<1> HIDE DEF g
<1>5. HoldsIn(heap, g) \in Seq(Value)
  BY DEF g
<1>6. \E x : Under(heap, calls, lua, g, Last(calls).L, x, Advanced(at, i))
  BY <1>1, <1>2, <1>3, <1>4, <1>5, MovesUnder
<1> QED
  BY <1>1, <1>6 DEF g

LEMMA MovedIs ==
  ASSUME NEW g \in Frame, NEW at, NEW i
  PROVE  Moved(g, at, i).at = at /\ Moved(g, at, i).i = i /\ Moved(g, at, i).obj = g.obj
BY DEF Moved, Frame

(* On a way of g that leaves what it holds alone, the stacks do not change. *)
LEMMA SameHeld ==
  ASSUME NEW h, NEW c, NEW s, NEW g, NEW t, NEW x, NEW d, Under(h, c, s, g, t, x, d),
         HoldsIn(h, g) = HoldsIn(h, Last(c))
  PROVE  (\A u \in Obj : HeldIn(h, d, u) = s[u]) /\ Disc(h, d, s)
<1>1. HeldIn(h, d, t) = s[t] /\ Room(h, d) /\ \A u \in Obj : u # t => HeldIn(h, d, u) = s[u]
  BY DEF Under
<1>2. \A u \in Obj : HeldIn(h, d, u) = s[u]
  BY <1>1
<1> QED
  BY <1>1, <1>2 DEF Disc

LEMMA MetatableDisc ==
  ASSUME IInv, IInv', DInv, MarkMetatable
  PROVE  DInv'
<1> DEFINE meta == heap.meta[Top.obj]
           s == Append(lua[Top.L], meta)
<1>1. calls # <<>> /\ Top.at = "meta" /\ heap' = heap
  BY DEF MarkMetatable
<1>2. /\ phase = "marking" /\ heap \in Heap /\ heap \in HeapType /\ Top \in Frame /\ Top = Last(calls)
      /\ Top.obj \in Obj /\ Top.obj \in Value /\ Top.L \in Obj /\ lua[Top.L] \in Seq(Value)
  BY <1>1, InCalls DEF Top, Value
<1>3. meta \in Obj \cup {Nil}
  BY <1>2 DEF HeapType
<1>4. StackFits
  BY DEF DInv
<1>5. \A at \in {"next", "refs"} :
        /\ HoldsIn(heap, Moved(Top, at, 0)) = <<Top.obj>> /\ HoldsIn(heap, Last(calls)) = <<Top.obj>>
        /\ <<Top.obj>> \in Seq(Value)
  BY <1>1, <1>2, MovedIs DEF HoldsIn
<1>6. \A at \in {"next", "refs"} :
        \E x : Under(heap, calls, lua, Moved(Top, at, 0), Top.L, x, Advanced(at, 0))
  BY <1>1, <1>5, StepUnder
<1>7. \A at \in {"next", "refs"} :
        /\ \A u \in Obj : HeldIn(heap, Advanced(at, 0), u) = lua[u]
        /\ Disc(heap, Advanced(at, 0), lua)
        /\ Fit(heap, Advanced(at, 0))
  <2> TAKE at \in {"next", "refs"}
  <2>1. PICK x : Under(heap, calls, lua, Moved(Top, at, 0), Top.L, x, Advanced(at, 0))
    BY <1>6
  <2>2. HoldsIn(heap, Moved(Top, at, 0)) = HoldsIn(heap, Last(calls))
    BY <1>5
  <2>3. Fit(heap, Advanced(at, 0))
    BY <2>1 DEF Under
  <2> QED
    BY <2>1, <2>2, <2>3, SameHeld
<1>8. CASE /\ UNCHANGED <<phase, marked, lua>>
           /\ \E at \in {"next", "refs"} : calls' = Advanced(at, 0)
  <2>1. Disc(heap', calls', lua') /\ phase' # "broken"
    BY <1>1, <1>2, <1>7, <1>8
  <2> QED
    BY <2>1, DiscIsDInv
<1>9. ASSUME meta # Nil
      PROVE  meta \in Value /\ meta \in Obj /\ heap.kind[meta] = "table"
  BY <1>2, <1>3, <1>9, SnapshotAssumption DEF Value
<1> DEFINE c == Advanced("next", 0)
           e == Advanced("refs", 0)
<1>10. meta # Nil => Ready(Top.L, meta, c, s) /\ Ready(Top.L, meta, e, s)
  BY <1>2, <1>7, <1>9 DEF Disc, Ready
<1> HIDE DEF s, meta, c, e
<1>11. CASE meta # Nil /\ MarkObject(Top.L, meta, c, s)
  BY <1>1, <1>2, <1>4, <1>9, <1>10, <1>11, MarkObjectDisc
<1>12. CASE meta # Nil /\ heap.kind[Top.obj] = "userdata" /\ Enter(Top.L, meta, e, s)
  <2>1. Len(HeldIn(heap, e, Top.L)) + MinStack <= MaxStack
    <3>1. PICK x : Under(heap, calls, lua, Moved(Top, "refs", 0), Top.L, x, e)
      BY <1>6 DEF e
    <3>2. x \in Seq(Value) /\ Len(x) + OwnSlot(heap, Top) + MinStack <= MaxStack
          /\ HeldIn(heap, e, Top.L) = x \o <<Top.obj>>
      BY <1>2, <1>5, <3>1 DEF Under
    <3>3. OwnSlot(heap, Top) = 1
      BY <1>12 DEF OwnSlot
    <3>4. Len(x) \in Nat /\ Len(HeldIn(heap, e, Top.L)) = Len(x) + 1
      BY <1>2, <3>2, StackFacts
    <3> QED
      BY <3>2, <3>3, <3>4, StackNats
  <2>2. phase' = phase
    BY <1>12 DEF Enter
  <2> QED
    BY <1>1, <1>2, <1>9, <1>10, <1>12, <2>1, <2>2, EnterDisc
<1> QED
  BY <1>8, <1>11, <1>12 DEF MarkMetatable, meta, s, c, e

LEMMA ValueDisc ==
  ASSUME IInv, IInv', DInv, MarkValue
  PROVE  DInv'
<1> DEFINE i == Top.i + 1
           k == Pairs[i][1]
           v == Pairs[i][2]
           c == Advanced("key", i)
           o == Top.obj
<1>1. calls # <<>> /\ Top.at = "next" /\ Top.i < Len(Pairs) /\ heap' = heap
  BY DEF MarkValue
<1>2. /\ phase = "marking" /\ heap \in Heap /\ heap \in HeapType /\ Top \in Frame /\ Top = Last(calls)
      /\ o \in Obj /\ o \in Value /\ Top.L \in Obj /\ lua \in [Obj -> Seq(Value)]
  BY <1>1, InCalls DEF Top, Value, IInv, TypeOK
<1>3. /\ Top.i \in Nat /\ i \in Nat /\ i > 0 /\ Pairs = heap.pairs[o]
      /\ i \in 1 .. Len(heap.pairs[o]) /\ (Top.i > 0 => Top.i \in 1 .. Len(heap.pairs[o]))
  <2>1. Len(heap.pairs[o]) \in Nat /\ Top.i \in Nat
    BY <1>2 DEF HeapType, Frame
  <2> QED
    BY <1>1, <2>1 DEF Pairs
<1>4. v \in Value /\ k \in Value /\ Pairs[i] = <<k, v>>
  BY <1>2, <1>3, PairFacts
<1>5. HoldsIn(heap, Moved(Top, "key", i)) = <<o, k>> /\ <<o, k>> \in Seq(Value)
  <2> DEFINE g == Moved(Top, "key", i)
  <2>1. HoldsIn(heap, g) = <<o, k>>
    <3>1. g.at = "key" /\ g.i = i /\ g.obj = o
      BY <1>2, MovedIs
    <3> HIDE DEF g
    <3> QED
      BY <1>3, <3>1 DEF HoldsIn
  <2> QED
    BY <1>2, <1>4, <2>1
<1>6. PICK x : Under(heap, calls, lua, Moved(Top, "key", i), Top.L, x, c)
  BY <1>1, <1>3, <1>5, StepUnder
<1>7. x \in Seq(Value) /\ lua[Top.L] = x \o HoldsIn(heap, Top)
  BY <1>2, <1>6 DEF Under
<1>8. HeldIn(heap, c, Top.L) = x \o <<o, k>> /\ Fit(heap, c) /\ Room(heap, c)
      /\ \A u \in Obj : u # Top.L => HeldIn(heap, c, u) = lua[u]
  BY <1>5, <1>6 DEF Under
<1> HIDE DEF o, k, v, c
<1>9. BeforeNext = x \o <<o>>
  <2>1. CASE Top.i = 0
    <3>1. HoldsIn(heap, Top) = <<o>>
      BY <2>1 DEF HoldsIn, o
    <3> QED
      BY <1>7, <2>1, <3>1 DEF BeforeNext
  <2>2. CASE Top.i # 0
    <3>1. Top.i > 0
      BY <1>3, <2>2
    <3> DEFINE b == heap.pairs[Top.obj][Top.i][1]
    <3>2. HoldsIn(heap, Top) = <<o, b>>
      BY <1>1, <3>1 DEF HoldsIn, o
    <3>3. b \in Value
      BY <1>2, <1>3, <3>1, PairFacts DEF o
    <3> HIDE DEF b
    <3>4. Front(x \o <<o, b>>) = x \o <<o>>
      BY <1>2, <1>7, <3>3, StackFacts
    <3> QED
      BY <1>7, <2>2, <3>2, <3>4 DEF BeforeNext
  <2> QED
    BY <2>1, <2>2
<1>10. /\ Append(BeforeNext, k) = x \o <<o, k>>
       /\ BeforeNext \o <<k, v>> = Append(x \o <<o, k>>, v)
  BY <1>2, <1>4, <1>7, <1>9, StackFacts
<1>11. CASE /\ calls' = c
            /\ lua' = [lua EXCEPT ![Top.L] = Append(BeforeNext, k)]
            /\ UNCHANGED <<phase, marked>>
  <2>1. \A u \in Obj : lua'[u] = HeldIn(heap, c, u)
    BY <1>2, <1>8, <1>10, <1>11
  <2>2. Disc(heap', calls', lua') /\ phase' # "broken"
    BY <1>1, <1>2, <1>8, <1>11, <2>1 DEF Disc
  <2> QED
    BY <2>2, DiscIsDInv
<1>12. CASE MarkObject(Top.L, v, c, BeforeNext \o Pairs[i])
  <2> DEFINE s == BeforeNext \o Pairs[i]
  <2>1. s = Append(HeldIn(heap, c, Top.L), v)
    BY <1>4, <1>8, <1>10
  <2> HIDE DEF s
  <2>2. Ready(Top.L, v, c, s)
    BY <1>2, <1>4, <1>8, <2>1 DEF Ready
  <2>3. MarkObject(Top.L, v, c, s) /\ StackFits
    BY <1>12 DEF s, DInv
  <2> QED
    BY <1>1, <1>2, <2>2, <2>3, MarkObjectDisc
<1> QED
  BY <1>11, <1>12 DEF MarkValue, k, v, c

LEMMA KeyDisc ==
  ASSUME IInv, IInv', DInv, MarkKey
  PROVE  DInv'
<1> DEFINE k == Pairs[Top.i][1]
           c == Advanced("next", Top.i)
           s == Append(lua[Top.L], k)
<1>1. calls # <<>> /\ Top.at = "key" /\ heap' = heap
  BY DEF MarkKey
<1>2. /\ phase = "marking" /\ heap \in Heap /\ heap \in HeapType /\ Top \in Frame /\ Top = Last(calls)
      /\ Top.obj \in Obj /\ Top.obj \in Value /\ Top.L \in Obj /\ lua \in [Obj -> Seq(Value)]
      /\ Sound(heap, Top, marked)
  BY <1>1, InCalls DEF Top, Value, IInv, TypeOK
<1>3. Top.i \in 1 .. Len(heap.pairs[Top.obj]) /\ Top.i \in Nat /\ Top.i > 0 /\ Pairs = heap.pairs[Top.obj]
  <2>1. Len(heap.pairs[Top.obj]) \in Nat /\ Top.i \in Nat
    BY <1>2 DEF HeapType, Frame
  <2>2. Top.i >= 1 /\ Top.i <= Len(heap.pairs[Top.obj])
    BY <1>1, <1>2 DEF Sound
  <2> QED
    BY <2>1, <2>2 DEF Pairs
<1>4. k \in Value
  BY <1>2, <1>3, PairFacts
<1>5. /\ HoldsIn(heap, Moved(Top, "next", Top.i)) = <<Top.obj, k>>
      /\ HoldsIn(heap, Top) = <<Top.obj, k>> /\ <<Top.obj, k>> \in Seq(Value)
  <2> DEFINE g == Moved(Top, "next", Top.i)
  <2>1. HoldsIn(heap, g) = <<Top.obj, k>>
    <3>1. g.at = "next" /\ g.i = Top.i /\ g.obj = Top.obj
      BY <1>2, MovedIs
    <3> HIDE DEF g
    <3> QED
      BY <1>3, <3>1 DEF HoldsIn
  <2>2. HoldsIn(heap, Top) = <<Top.obj, k>>
    BY <1>1, <1>3 DEF HoldsIn
  <2> QED
    BY <1>2, <1>4, <2>1, <2>2
<1>6. PICK x : Under(heap, calls, lua, Moved(Top, "next", Top.i), Top.L, x, c)
  BY <1>1, <1>3, <1>5, StepUnder
<1>7. (\A u \in Obj : HeldIn(heap, c, u) = lua[u]) /\ Disc(heap, c, lua) /\ Fit(heap, c)
  <2>1. HoldsIn(heap, Moved(Top, "next", Top.i)) = HoldsIn(heap, Last(calls))
    BY <1>2, <1>5
  <2>2. Fit(heap, c)
    BY <1>6 DEF Under
  <2> QED
    BY <1>6, <2>1, <2>2, SameHeld
<1> HIDE DEF k, c, s
<1>8. CASE calls' = c /\ UNCHANGED <<phase, marked, lua>>
  <2>1. Disc(heap', calls', lua') /\ phase' # "broken"
    BY <1>1, <1>2, <1>7, <1>8
  <2> QED
    BY <2>1, DiscIsDInv
<1>9. CASE MarkObject(Top.L, k, c, s)
  <2>1. Ready(Top.L, k, c, s)
    BY <1>2, <1>4, <1>7 DEF Ready, Disc, s
  <2> QED
    BY <1>1, <1>2, <1>9, <2>1, MarkObjectDisc DEF DInv
<1> QED
  BY <1>8, <1>9 DEF MarkKey, k, c, s

LEMMA RefDisc ==
  ASSUME IInv, IInv', DInv, MarkRef \/ MarkUservalue
  PROVE  DInv'
<1> DEFINE v == Refs[Top.i + 1]
           c == Advanced("refs", Top.i + 1)
           g == Moved(Top, "refs", Top.i + 1)
<1>1. calls # <<>> /\ Top.at = "refs" /\ Top.i < Len(Refs) /\ heap' = heap
  BY DEF MarkRef, MarkUservalue, AtUservalue
<1>2. /\ phase = "marking" /\ heap \in Heap /\ heap \in HeapType /\ Top \in Frame /\ Top = Last(calls)
      /\ Top.obj \in Obj /\ Top.obj \in Value /\ Top.L \in Obj /\ lua \in [Obj -> Seq(Value)]
      /\ Top.i \in Nat
  BY <1>1, InCalls DEF Top, Value, IInv, TypeOK, Frame
<1>3. v \in Value
  BY <1>1, RefFacts
<1>4. /\ HoldsIn(heap, g) = <<Top.obj>> /\ HoldsIn(heap, Top) = <<Top.obj>> /\ <<Top.obj>> \in Seq(Value)
  BY <1>1, <1>2, MovedIs DEF HoldsIn
<1>5. PICK x : Under(heap, calls, lua, g, Top.L, x, c)
  <2>1. Top.i + 1 \in Nat
    BY <1>2
  <2>2. HoldsIn(heap, g) \in Seq(Value)
    <3> HIDE DEF g
    <3> QED
      BY <1>4
  <2> QED
    BY <1>1, <2>1, <2>2, StepUnder
<1>6. (\A u \in Obj : HeldIn(heap, c, u) = lua[u]) /\ Disc(heap, c, lua) /\ Fit(heap, c)
  <2>1. HoldsIn(heap, g) = HoldsIn(heap, Last(calls))
    BY <1>2, <1>4
  <2>2. Fit(heap, c)
    BY <1>5 DEF Under
  <2> QED
    BY <1>5, <2>1, <2>2, SameHeld
<1>7. x \in Seq(Value) /\ Len(x) + OwnSlot(heap, Top) + MinStack <= MaxStack /\ HeldIn(heap, c, Top.L) = x \o <<Top.obj>>
  BY <1>2, <1>4, <1>5 DEF Under
<1> HIDE DEF v, c, g
<1>8. \A L \in Obj : Ready(L, v, c, Append(lua[L], v))
  BY <1>3, <1>6 DEF Ready, Disc
<1>9. CASE MarkRef
  <2>1. PICK L \in Obj : MarkObject(L, v, c, Append(lua[L], v))
    BY <1>2, <1>9 DEF MarkRef, v, c
  <2>2. Ready(L, v, c, Append(lua[L], v)) /\ StackFits
    BY <1>8 DEF DInv
  <2> QED
    BY <1>1, <1>2, <2>1, <2>2, MarkObjectDisc
<1>10. CASE MarkUservalue
  <2> DEFINE s == Append(lua[Top.L], v)
  <2>1. Enter(Top.L, v, c, s) /\ heap.kind[Top.obj] = "userdata" /\ Suits(v)
    BY <1>10 DEF MarkUservalue, AtUservalue, v, c
  <2>2. Ready(Top.L, v, c, s)
    BY <1>2, <1>8
  <2>3. Len(HeldIn(heap, c, Top.L)) + MinStack <= MaxStack
    <3>1. OwnSlot(heap, Top) = 1
      BY <2>1 DEF OwnSlot
    <3>2. Len(x) \in Nat /\ Len(HeldIn(heap, c, Top.L)) = Len(x) + 1
      BY <1>2, <1>7, StackFacts
    <3> QED
      BY <1>7, <3>1, <3>2, StackNats
  <2>4. v \in Obj \ marked => heap.kind[v] = "table"
    BY <2>1 DEF Suits
  <2> HIDE DEF s
  <2>5. phase' = phase
    BY <2>1 DEF Enter
  <2> QED
    BY <1>1, <1>2, <2>1, <2>2, <2>3, <2>4, <2>5, EnterDisc
<1> QED
  BY <1>9, <1>10

LEMMA LeaveDisc ==
  ASSUME IInv, IInv', DInv, Leave
  PROVE  DInv'
<1> DEFINE c == Front(calls)
           o == Top.obj
<1>1. calls # <<>> /\ calls' = c /\ UNCHANGED <<phase, heap>>
  BY DEF Leave
<1>2. /\ phase = "marking" /\ heap \in Heap /\ heap \in HeapType /\ Top \in Frame /\ Top = Last(calls)
      /\ o \in Obj /\ o \in Value /\ Top.L \in Obj /\ lua \in [Obj -> Seq(Value)]
      /\ Sound(heap, Top, marked)
  BY <1>1, InCalls DEF Top, Value, IInv, TypeOK
<1>3. Fit(heap, calls) /\ Disc(heap, calls, lua)
  BY <1>2, FitCalls DEF DInv
<1> DEFINE x == HeldIn(heap, c, Top.L)
<1>4. Fit(heap, c) /\ Room(heap, c) /\ x \in Seq(Value)
  <2>1. Fit(heap, c) /\ Room(heap, c)
    BY <1>1, <1>3, FitFront, RoomTop DEF Disc
  <2> QED
    BY <2>1, HeldType
<1>5. /\ lua[Top.L] = x \o HoldsIn(heap, Top)
      /\ \A u \in Obj : u # Top.L => lua[u] = HeldIn(heap, c, u)
  <2>1. \A u : HeldIn(heap, calls, u) = IF Last(calls).L = u THEN HeldIn(heap, c, u) \o HoldsIn(heap, Last(calls))
                                        ELSE HeldIn(heap, c, u)
    BY <1>1, <1>3, HeldTop
  <2>2. \A u \in Obj : lua[u] = HeldIn(heap, calls, u)
    BY <1>3 DEF Disc
  <2> HIDE DEF c
  <2>3. \A u \in Obj : lua[u] = IF Top.L = u THEN HeldIn(heap, c, u) \o HoldsIn(heap, Top) ELSE HeldIn(heap, c, u)
    BY <1>2, <2>1, <2>2
  <2> QED
    BY <1>2, <2>3
<1> HIDE DEF o, c, x
<1>6. ASSUME ~(Top.at \in {"next", "key"} /\ Top.i > 0)
      PROVE  Front(lua[Top.L]) = x
  <2>1. HoldsIn(heap, Top) = <<o>>
    BY <1>6 DEF HoldsIn, o
  <2>2. Front(x \o <<o>>) = x
    BY <1>2, <1>4, StackFacts
  <2> QED
    BY <1>5, <2>1, <2>2
<1>7. ASSUME Top.at = "next"
      PROVE  Front(BeforeNext) = x
  <2>1. CASE Top.i = 0
    <3>1. Front(lua[Top.L]) = x
      BY <1>6, <2>1
    <3> QED
      BY <2>1, <3>1 DEF BeforeNext
  <2>2. CASE Top.i # 0
    <3>1. Top.i > 0 /\ Top.i \in 1 .. Len(heap.pairs[o])
      <4>1. Top.i \in Nat /\ Len(heap.pairs[o]) \in Nat
        BY <1>2 DEF Frame, HeapType, o
      <4>2. Top.i <= Len(heap.pairs[o])
        BY <1>2, <1>7 DEF Sound, o
      <4> QED
        BY <2>2, <4>1, <4>2
    <3> DEFINE b == heap.pairs[o][Top.i][1]
    <3>2. HoldsIn(heap, Top) = <<o, b>>
      BY <1>7, <3>1 DEF HoldsIn, o
    <3>3. b \in Value
      BY <1>2, <3>1, PairFacts
    <3> HIDE DEF b
    <3>4. Front(x \o <<o, b>>) = x \o <<o>> /\ Front(x \o <<o>>) = x
      BY <1>2, <1>4, <3>3, StackFacts
    <3>5. BeforeNext = x \o <<o>>
      BY <1>5, <2>2, <3>2, <3>4 DEF BeforeNext
    <3> QED
      BY <3>4, <3>5
  <2> QED
    BY <2>1, <2>2
<1>8. lua' = [lua EXCEPT ![Top.L] = x]
  <2>1. Top.at = "refs" => Front(lua[Top.L]) = x
    BY <1>6
  <2> QED
    BY <1>7, <2>1 DEF Leave
<1>9. \A u \in Obj : lua'[u] = HeldIn(heap, c, u)
  <2>1. x = HeldIn(heap, c, Top.L)
    BY DEF x
  <2> QED
    BY <1>2, <1>5, <1>8, <2>1
<1>10. Disc(heap', calls', lua') /\ phase' # "broken"
  BY <1>1, <1>2, <1>4, <1>9 DEF Disc
<1> QED
  BY <1>10, DiscIsDInv

LEMMA BeginDisc ==
  ASSUME IInv, IInv', DInv, Begin
  PROVE  DInv'
<1> DEFINE e == Called(Caller, Registry)
<1>1. /\ phase = "idle" /\ calls = <<>> /\ heap' = heap /\ phase' # "broken"
      /\ Registry \in Obj /\ Caller \in Obj /\ lua \in [Obj -> Seq(Value)] /\ heap \in Heap
  BY SnapshotAssumption DEF Begin, IInv, TypeOK
<1>2. Disc(heap, calls, lua)
  BY <1>1 DEF DInv
<1>3. CASE UNCHANGED <<calls, lua>>
  <2>1. Disc(heap', calls', lua')
    BY <1>1, <1>2, <1>3
  <2> QED
    BY <1>1, <2>1, DiscIsDInv
<1>4. CASE calls' = <<e>> /\ lua' = [lua EXCEPT ![Caller] = <<Registry>>]
  <2>1. e \in Frame /\ e.obj = Registry /\ e.L = Caller /\ e.i = 0
    <3>1. Registry \in {Registry}
      OBVIOUS
    <3> QED
      BY <1>1, <3>1, CalledIs DEF Called
  <2>2. HoldsIn(heap, e) = <<Registry>>
    BY <2>1 DEF HoldsIn
  <2>3. OwnSlot(heap, e) = 0
    BY <1>1, <2>1, SnapshotAssumption DEF OwnSlot
  <2> HIDE DEF e
  <2> DEFINE d == calls'
  <2>4. d # <<>> /\ Last(d) = e /\ Front(d) = <<>>
    <3>1. d = Append(<<>>, e) /\ <<>> \in Seq(Frame)
      BY <1>4, <2>1
    <3> HIDE DEF d
    <3> QED
      BY <2>1, <3>1, AppendedIs
  <2>5. Fit(heap, d)
    <3>1. heap' \in HeapType /\ Good(heap', calls', marked')
      BY <1>1, SnapshotAssumption DEF IInv, TypeOK
    <3> QED
      BY <1>1, <3>1, GoodFits
  <2> HIDE DEF d
  <2>6. \A u : HeldIn(heap, d, u) = IF Caller = u THEN <<>> \o <<Registry>> ELSE <<>>
    <3>1. \A u : HeldIn(heap, d, u) = IF Last(d).L = u THEN HeldIn(heap, Front(d), u) \o HoldsIn(heap, Last(d))
                                      ELSE HeldIn(heap, Front(d), u)
      BY <2>4, <2>5, HeldTop
    <3>2. \A u : HeldIn(heap, Front(d), u) = <<>>
      BY <2>4, HeldEmpty
    <3> QED
      BY <2>1, <2>2, <2>4, <3>1, <3>2
  <2>7. \A u \in Obj : lua[u] = <<>>
    BY <1>1, <1>2, HeldEmpty DEF Disc
  <2>8. \A u \in Obj : lua'[u] = HeldIn(heap, d, u)
    <3>1. <<>> \o <<Registry>> = <<Registry>>
      OBVIOUS
    <3> QED
      BY <1>1, <1>4, <2>6, <2>7, <3>1
  <2>9. Room(heap, d)
    <3>1. HeldIn(heap, Front(d), Last(d).L) = <<>> /\ Len(<<>>) = 0
      BY <2>4, HeldEmpty
    <3>2. Len(HeldIn(heap, Front(d), Last(d).L)) + OwnSlot(heap, Last(d)) + MinStack <= MaxStack
      BY <2>3, <2>4, <3>1, StackNats
    <3>3. Room(heap, Front(d))
      BY <2>4, RoomEmpty
    <3> QED
      BY <2>4, <2>5, <3>2, <3>3, RoomTop
  <2>10. Disc(heap', calls', lua')
    BY <1>1, <2>8, <2>9 DEF Disc, d
  <2> QED
    BY <1>1, <2>10, DiscIsDInv
<1> QED
  BY <1>3, <1>4 DEF Begin
-----------------------------------------------------------------------------
LEMMA InitDInv == Init => DInv
<1> SUFFICES ASSUME Init PROVE DInv
  OBVIOUS
<1>1. \A t \in Obj : lua[t] = HeldIn(heap, calls, t)
  BY HeldEmpty DEF Init
<1>2. Room(heap, calls)
  BY RoomEmpty DEF Init
<1>3. StackFits
  BY StackNats DEF Init, StackFits
<1> QED
  BY <1>1, <1>2, <1>3 DEF DInv, Disc

LEMMA NextDInv == IInv /\ IInv' /\ DInv /\ [Next]_vars => DInv'
<1> SUFFICES ASSUME IInv, IInv', DInv, [Next]_vars PROVE DInv'
  OBVIOUS
<1>1. CASE Begin
  BY <1>1, BeginDisc
<1>2. CASE MarkMetatable
  BY <1>2, MetatableDisc
<1>3. CASE MarkValue
  BY <1>3, ValueDisc
<1>4. CASE MarkKey
  BY <1>4, KeyDisc
<1>5. CASE MarkUservalue \/ MarkRef
  BY <1>5, RefDisc
<1>6. CASE Leave
  BY <1>6, LeaveDisc
<1>7. CASE End
  <2>1. phase = "marking" /\ phase' = "done" /\ UNCHANGED <<heap, calls, lua>>
    BY <1>7 DEF End
  <2>2. Disc(heap', calls', lua') /\ phase' # "broken"
    BY <2>1 DEF DInv
  <2> QED
    BY <2>2, DiscIsDInv
<1>8. CASE UNCHANGED vars
  BY <1>8 DEF vars, DInv, StackFits
<1>9. CASE UservalueMisfits
  BY <1>9 DEF UservalueMisfits, DInv, StackFits
<1> QED
  BY <1>1, <1>2, <1>3, <1>4, <1>5, <1>6, <1>7, <1>8, <1>9 DEF Next

(* The stack of each thread holds what the mark_ functions at work on it   *)
(* count on and nothing else, and no push leaves a stack, although room is *)
(* not asked for before each: what is pushed without asking fits into what *)
(* was asked for below (lua50_profiler.c:448-706).                         *)
THEOREM SnapshotStacksConsistent == Spec => []StacksConsistent
<1>1. IInv /\ DInv => StacksConsistent
  <2> SUFFICES ASSUME IInv, DInv PROVE StacksConsistent
    OBVIOUS
  <2>1. StackDiscipline
    BY HeldIs DEF StackDiscipline, DInv, Disc
  <2> QED
    BY <2>1 DEF StacksConsistent, IInv, DInv
<1> QED
  BY <1>1, InitIInv, NextIInv, InitDInv, NextDInv, PTL DEF Spec
=============================================================================
