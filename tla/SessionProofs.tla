--------------------------- MODULE SessionProofs ---------------------------
(***************************************************************************)
(* Session, proved for every bound.  SessionConsistent is about the flags  *)
(* and pointers alone; what holds as long as no session has asked for a    *)
(* thread rests on one more fact: then a hook that is installed handles    *)
(* its events itself, in the call.                                         *)
(***************************************************************************)
EXTENDS Session, WellFoundedInduction, TLAPS

(* Sessions are numbered from 1, so that a new one is none of the old.     *)
Numbers == session \in Nat /\ registry \in 0 .. session /\ readers \in Nat

(* What SessionConsistent needs. *)
ControlInv == Numbers /\ SessionConsistent

(* What holds until a start asks for a thread. *)
Alone ==
  readers = 0 =>
    /\ hookOn => ~multithread
    /\ reported \in Nat /\ hookCnt \in Nat /\ executed \in Nat
    /\ reported + hookCnt = executed
    /\ "EventWithoutState" \notin bad

SInv == ControlInv /\ Alone
-----------------------------------------------------------------------------
(* An event dispatched while the hook is installed and no thread was asked *)
(* for is handled at once, on the state in the registry.                   *)
LEMMA DispatchAlone ==
  ASSUME SInv, readers = 0, hookOn, NEW e, Dispatch(e)
  PROVE  /\ bad' = bad
         /\ reported' = IF e.type = "frame" THEN reported + e.hook_cnt ELSE reported
<1>1. ~multithread /\ gS \in live
  BY DEF SInv, Alone, ControlInv, Numbers, SessionConsistent, Nil
<1>2. HandleEvent(e)
  BY <1>1 DEF Dispatch
<1> QED
  BY <1>1, <1>2 DEF HandleEvent

(* Where it is only the numbers that matter. *)
LEMMA SumAlone ==
  ASSUME SInv, readers = 0
  PROVE  /\ reported \in Nat /\ hookCnt \in Nat /\ executed \in Nat
         /\ reported + hookCnt = executed
  BY DEF SInv, Alone

LEMMA HookAlone ==
  ASSUME SInv, readers = 0, NEW e, e.type # "frame", Hook(e), UNCHANGED <<readers, hookOn, multithread>>
  PROVE  Alone'
<1>1. CASE hookOn
  <2>1. bad' = bad /\ reported' = reported
    BY <1>1, DispatchAlone DEF Hook
  <2>2. hookCnt' = hookCnt + 1 /\ executed' = executed + 1
    BY <1>1 DEF Hook
  <2>3. reported' \in Nat /\ hookCnt' \in Nat /\ executed' \in Nat
        /\ reported' + hookCnt' = executed'
    BY <2>1, <2>2, SumAlone
  <2>4. hookOn' => ~multithread'
    BY DEF SInv, Alone
  <2>5. "EventWithoutState" \notin bad'
    BY <2>1 DEF SInv, Alone
  <2> QED
    BY <2>3, <2>4, <2>5 DEF Alone
<1>2. CASE ~hookOn
  BY <1>2 DEF Hook, SInv, Alone, statVars
<1> QED
  BY <1>1, <1>2
-----------------------------------------------------------------------------
LEMMA SessionInit == Init => SInv
  BY DEF Init, SInv, Alone, ControlInv, Numbers, SessionConsistent, Nil

(* Flags and pointers: only the calls of the API touch them. *)
LEMMA ControlStep == ControlInv /\ [Next]_vars => ControlInv'
<1> SUFFICES ASSUME ControlInv, [Next]_vars
             PROVE  ControlInv'
  OBVIOUS
<1> USE DEF ControlInv, Numbers, SessionConsistent, Nil
<1>1. ASSUME UNCHANGED <<controlVars, gS>>
      PROVE  ControlInv'
  BY <1>1 DEF controlVars
<1>2. ASSUME NEW e, Hook(e), UNCHANGED controlVars
      PROVE  ControlInv'
  BY <1>1, <1>2 DEF Hook, Dispatch, HandleEvent, imageVars
<1>3. ASSUME NEW kind, LuaCall(kind)
      PROVE  ControlInv'
  BY <1>2, <1>3 DEF LuaCall
<1>4. CASE LuaReturn
  BY <1>2, <1>4 DEF LuaReturn
<1>5. CASE ConsumerHandles
  BY <1>1, <1>5 DEF ConsumerHandles, HandleEvent
<1>6. ASSUME NEW threads \in BOOLEAN, Start(threads)
      PROVE  ControlInv'
  BY <1>6 DEF Start
<1>7. ASSUME NEW threads \in BOOLEAN, StartFails(threads)
      PROVE  ControlInv'
  BY <1>7 DEF StartFails
<1>14. CASE ProfilerFrame
  BY <1>1, <1>14 DEF ProfilerFrame, imageVars
<1>8. CASE NothingToDo
  BY <1>1, <1>8 DEF NothingToDo, imageVars
<1>9. CASE Stop
  BY <1>9 DEF Stop
<1>10. CASE Frame
  BY <1>1, <1>10 DEF Frame, Dispatch, HandleEvent, imageVars
<1>11. ASSUME NEW paused \in BOOLEAN, PauseOrResume(paused)
       PROVE  ControlInv'
  BY <1>11 DEF PauseOrResume, imageVars
<1>12. CASE InitProfiler
  BY <1>12 DEF InitProfiler, imageVars
<1>13. CASE UNCHANGED vars
  BY <1>1, <1>13 DEF vars, imageVars
<1> QED
  BY <1>3, <1>4, <1>5, <1>6, <1>7, <1>8, <1>9, <1>10, <1>11, <1>12, <1>13, <1>14 DEF Next

(* Counters and errors: before and after the step no thread was asked for. *)
LEMMA AloneStep == SInv /\ [Next]_vars => Alone'
<1> SUFFICES ASSUME SInv, [Next]_vars, readers' = 0
             PROVE  Alone'
  BY DEF Alone
<1>1. ASSUME readers = 0, UNCHANGED <<hookOn, multithread, statVars, bad>>
      PROVE  Alone'
  BY <1>1 DEF SInv, Alone, statVars
<1>2. ASSUME readers = 0, ~hookOn', UNCHANGED <<statVars, bad>>
      PROVE  Alone'
  BY <1>2 DEF SInv, Alone, statVars
<1>3. ASSUME NEW kind, LuaCall(kind)
      PROVE  Alone'
  BY <1>3, HookAlone DEF LuaCall, CallEvent, controlVars
<1>4. CASE LuaReturn
  BY <1>4, HookAlone DEF LuaReturn, ReturnEvent, controlVars
<1>5. CASE ConsumerHandles
  BY <1>5 DEF ConsumerHandles, controlVars, SInv, ControlInv, Numbers
<1>6. ASSUME NEW threads \in BOOLEAN, Start(threads)
      PROVE  Alone'
  <2>1. ~threads /\ readers = 0
    BY <1>6 DEF Start, SInv, ControlInv, Numbers
  <2> QED
    BY <1>6, <2>1 DEF Start, SInv, Alone, statVars
<1>7. ASSUME NEW threads \in BOOLEAN, StartFails(threads)
      PROVE  Alone'
  <2>1. ~hookOn'
    BY <1>7 DEF StartFails, SInv, ControlInv, SessionConsistent
  <2> QED
    BY <1>2, <1>7, <2>1 DEF StartFails
<1>8. CASE NothingToDo
  BY <1>1, <1>8 DEF NothingToDo, controlVars
<1>9. CASE Stop
  BY <1>2, <1>9 DEF Stop
<1>10. CASE Frame
  <2>1. readers = 0 /\ hookOn /\ UNCHANGED <<hookOn, multithread, executed>>
    BY <1>10 DEF Frame, FrameCall, controlVars, SInv, ControlInv, SessionConsistent
  <2>2. bad' = bad /\ reported' = reported + hookCnt
    BY <1>10, <2>1, DispatchAlone DEF Frame, FrameEvent
  <2>3. reported' \in Nat /\ hookCnt' \in Nat /\ executed' \in Nat
        /\ reported' + hookCnt' = executed'
    BY <1>10, <2>1, <2>2, SumAlone DEF Frame
  <2>4. hookOn' => ~multithread'
    BY <2>1 DEF SInv, Alone
  <2>5. "EventWithoutState" \notin bad'
    BY <2>1, <2>2 DEF SInv, Alone
  <2> QED
    BY <2>3, <2>4, <2>5 DEF Alone
<1>11. ASSUME NEW paused \in BOOLEAN, PauseOrResume(paused)
       PROVE  Alone'
  <2>1. bad' \subseteq bad \cup {"PausedWithoutState", "PausedOnEmptyStack"}
    BY <1>11 DEF PauseOrResume
  <2> QED
    BY <1>11, <2>1 DEF PauseOrResume, SInv, Alone, statVars
<1>12. CASE InitProfiler
  BY <1>1, <1>12 DEF InitProfiler
<1>13. CASE UNCHANGED vars
  BY <1>1, <1>13 DEF vars, controlVars
<1>14. CASE ProfilerFrame
  BY <1>1, <1>14 DEF ProfilerFrame, controlVars
<1> QED
  BY <1>3, <1>4, <1>5, <1>6, <1>7, <1>8, <1>9, <1>10, <1>11, <1>12, <1>13, <1>14 DEF Next

LEMMA SessionInvariant == Spec => []SInv
<1>1. SInv /\ [Next]_vars => SInv'
  BY ControlStep, AloneStep DEF SInv
<1> QED
  BY SessionInit, <1>1, PTL DEF Spec
-----------------------------------------------------------------------------
(* Without threads a profiler function that runs has its call on the stack. *)
StackFound ==
  readers = 0 =>
    /\ depth \in Nat
    /\ api = "called" /\ registry # Nil => depth > 0
    /\ "PausedOnEmptyStack" \notin bad

LEMMA HookStackFound ==
  ASSUME SInv, StackFound, readers = 0, NEW e, Hook(e), UNCHANGED controlVars
  PROVE  /\ "PausedOnEmptyStack" \notin bad'
         /\ depth' = IF registry # Nil THEN DepthAfter(e) ELSE depth
<1>1. CASE registry # Nil
  <2>1. hookOn /\ ~multithread
    BY <1>1 DEF SInv, Alone, ControlInv, SessionConsistent
  <2>2. HandleEvent(e)
    BY <2>1 DEF Hook, Dispatch
  <2> QED
    BY <1>1, <2>2 DEF HandleEvent, StackFound
<1>2. CASE registry = Nil
  <2>1. ~hookOn
    BY <1>2 DEF SInv, ControlInv, SessionConsistent
  <2> QED
    BY <1>2, <2>1 DEF Hook, imageVars, StackFound
<1> QED
  BY <1>1, <1>2

LEMMA StackFoundStep == SInv /\ StackFound /\ [Next]_vars => StackFound'
<1> SUFFICES ASSUME SInv, StackFound, [Next]_vars, readers' = 0
             PROVE  StackFound'
  BY DEF StackFound
<1>1. ASSUME readers = 0, api' # "called", depth' \in {0, depth}, bad' = bad
      PROVE  StackFound'
  BY <1>1 DEF StackFound
<1>2. ASSUME NEW kind, LuaCall(kind)
      PROVE  StackFound'
  <2>1. readers = 0 /\ registry' = registry
    BY <1>2 DEF LuaCall, controlVars
  <2>2. "PausedOnEmptyStack" \notin bad' /\ depth' = IF registry # Nil THEN depth + 1 ELSE depth
    BY <1>2, <2>1, HookStackFound DEF LuaCall, CallEvent, DepthAfter
  <2> QED
    BY <2>1, <2>2 DEF StackFound
<1>3. CASE LuaReturn
  <2>1. readers = 0 /\ api' = "none"
    BY <1>3 DEF LuaReturn, controlVars
  <2>2. "PausedOnEmptyStack" \notin bad' /\ depth' = IF registry # Nil THEN DepthAfter(ReturnEvent) ELSE depth
    BY <1>3, <2>1, HookStackFound DEF LuaReturn
  <2> QED
    BY <2>1, <2>2 DEF StackFound, DepthAfter, ReturnEvent
<1>4. CASE ConsumerHandles
  BY <1>4 DEF ConsumerHandles, controlVars, SInv, ControlInv, Numbers
<1>5. ASSUME NEW threads \in BOOLEAN, Start(threads)
      PROVE  StackFound'
  <2>1. ~threads /\ readers = 0
    BY <1>5 DEF Start, SInv, ControlInv, Numbers
  <2>2. depth' = 1 /\ api' = "done" /\ bad' = bad
    BY <1>5, <2>1 DEF Start, Body
  <2> QED
    BY <2>1, <2>2 DEF StackFound
<1>6. ASSUME NEW threads \in BOOLEAN, StartFails(threads)
      PROVE  StackFound'
  BY <1>1, <1>6 DEF StartFails, Raises
<1>13. CASE ProfilerFrame
  BY <1>1, <1>13 DEF ProfilerFrame, Raises, controlVars, imageVars
<1>7. CASE NothingToDo
  BY <1>1, <1>7 DEF NothingToDo, Body, controlVars, imageVars
<1>8. CASE Stop
  BY <1>1, <1>8 DEF Stop, Body
<1>9. CASE Frame
  <2>1. readers = 0 /\ hookOn /\ api' # "called"
    BY <1>9 DEF Frame, FrameCall, programVars, controlVars, SInv, ControlInv, SessionConsistent
  <2>2. ~multithread
    BY <2>1 DEF SInv, Alone
  <2>3. depth' = DepthAfter(FrameEvent(hookCnt)) /\ bad' \subseteq bad \cup {"EventWithoutState"}
    BY <1>9, <2>2 DEF Frame, Dispatch, HandleEvent
  <2> QED
    BY <2>1, <2>3 DEF StackFound, DepthAfter, FrameEvent
<1>10. ASSUME NEW paused \in BOOLEAN, PauseOrResume(paused)
       PROVE  StackFound'
  <2>1. readers = 0 /\ api = "called" /\ api' = "done" /\ depth' = depth
    BY <1>10 DEF PauseOrResume, Body, Begun, imageVars
  <2>2. registry # Nil => depth > 0
    BY <2>1 DEF StackFound
  <2>3. "PausedOnEmptyStack" \notin bad'
    BY <1>10, <2>1, <2>2 DEF PauseOrResume, StackFound
  <2> QED
    BY <2>1, <2>3 DEF StackFound
<1>11. CASE InitProfiler
  BY <1>1, <1>11 DEF InitProfiler, imageVars, programVars
<1>12. CASE UNCHANGED vars
  BY <1>12 DEF vars, controlVars, imageVars, programVars, StackFound
<1> QED
  BY <1>2, <1>3, <1>4, <1>5, <1>6, <1>7, <1>8, <1>9, <1>10, <1>11, <1>12, <1>13 DEF Next
-----------------------------------------------------------------------------
(* lua50_profiler.c:272-406: hook, registry, g_S and the allocated state   *)
(* stay together over every order of starts, failed starts, stops and      *)
(* re-initialisations, in both modes.                                      *)
THEOREM SessionStaysConsistent == Spec => []SessionConsistent
<1>1. SInv => SessionConsistent
  BY DEF SInv, ControlInv
<1> QED
  BY SessionInvariant, <1>1, PTL

(* lua50_profiler.c:87-110: without threads no event meets a freed state.  *)
THEOREM SessionEventsFindState == Spec => []EventsFindState
<1>1. SInv => EventsFindState
  BY DEF SInv, Alone, EventsFindState
<1> QED
  BY SessionInvariant, <1>1, PTL

(* lua50_profiler.c:206, 903-907: without threads every call of the hook is *)
(* reported once.                                                          *)
THEOREM SessionHookCallsReported == Spec => []HookCallsReported
<1>1. SInv => HookCallsReported
  BY DEF SInv, Alone, HookCallsReported
<1> QED
  BY SessionInvariant, <1>1, PTL
(* function_meter.c:94: without threads a pause finds a call on the stack.  *)
THEOREM SessionPauseFindsCall == Spec => []PauseFindsCall
<1>1. Init => StackFound
  BY DEF Init, StackFound
<1>2. StackFound => PauseFindsCall
  BY DEF StackFound, PauseFindsCall
<1> QED
  BY SessionInvariant, <1>1, StackFoundStep, <1>2, PTL DEF Spec
-----------------------------------------------------------------------------
(* Induction over the numbers, for a set instead of an operator.           *)
LEMMA NatSetInduction ==
  ASSUME NEW T, 0 \in T, \A n \in Nat : n \in T => n + 1 \in T
  PROVE  \A n \in Nat : n \in T
<1> DEFINE U == {n \in Nat : n \notin T}
<1> SUFFICES ASSUME U # {} PROVE FALSE
  OBVIOUS
<1>1. U \subseteq Nat
  OBVIOUS
<1>2. PICK n \in U : \A m \in U : <<m, n>> \notin OpToRel(<, Nat)
  BY <1>1, NatLessThanWellFounded, WFMin
<1>3. \A m \in U : m \in Nat /\ n \in Nat /\ ~(m < n)
  BY <1>2 DEF OpToRel
<1>4. n \in Nat /\ n # 0
  OBVIOUS
<1>5. n - 1 \in Nat /\ n - 1 \notin U
  BY <1>3, <1>4
<1> QED
  BY <1>4, <1>5

(* The events the hook and the frames put in the queue. *)
Event == {CallEvent, ReturnEvent} \cup {FrameEvent(n) : n \in Nat}

(* The sums of Carried, for any queue.  The recursive function is a CHOOSE: *)
(* the sums are what it chooses, if there are any.                         *)
Sums(q, f) == f = [k \in 0 .. Len(q) |-> IF k = 0 THEN 0 ELSE f[k - 1] + FrameCount(q[k])]
SumsOf(q) == CHOOSE f : Sums(q, f)

LEMMA CarriedIs == Carried = SumsOf(queue)[Len(queue)]
  BY DEF Carried, SumsOf, Sums

LEMMA EventCount == \A e \in Event : FrameCount(e) \in Nat
  BY DEF Event, FrameCount, CallEvent, ReturnEvent, FrameEvent

LEMMA SumsExist ==
  ASSUME NEW q \in Seq(Event)
  PROVE  Sums(q, SumsOf(q)) /\ \A k \in 0 .. Len(q) : SumsOf(q)[k] \in Nat
<1> DEFINE Upto(n, f) == f = [k \in 0 .. n |-> IF k = 0 THEN 0 ELSE f[k - 1] + FrameCount(q[k])]
           T == {n \in Nat : \E f : Upto(n, f)}
<1>1. 0 \in T
  <2> DEFINE g == [k \in 0 .. 0 |-> 0]
  <2>1. Upto(0, g)
    OBVIOUS
  <2> QED
    BY <2>1
<1>2. ASSUME NEW n \in Nat, n \in T PROVE n + 1 \in T
  <2>1. PICK f : Upto(n, f)
    BY <1>2
  <2> DEFINE g == [k \in 0 .. n + 1 |-> IF k \in 0 .. n THEN f[k] ELSE f[n] + FrameCount(q[n + 1])]
  <2>2. \A k \in 0 .. n + 1 : g[k] = IF k = 0 THEN 0 ELSE g[k - 1] + FrameCount(q[k])
    <3> SUFFICES ASSUME NEW k \in 0 .. n + 1
                 PROVE  g[k] = IF k = 0 THEN 0 ELSE g[k - 1] + FrameCount(q[k])
      OBVIOUS
    <3>1. CASE k = n + 1
      <4>1. k # 0 /\ k \notin 0 .. n /\ k - 1 = n /\ n \in 0 .. n /\ n \in 0 .. n + 1
        BY <3>1
      <4>2. g[k] = f[n] + FrameCount(q[n + 1]) /\ g[k - 1] = f[n]
        BY <4>1
      <4> QED
        BY <3>1, <4>1, <4>2
    <3>2. CASE k \in 0 .. n
      <4>1. g[k] = f[k] /\ (k # 0 => k - 1 \in 0 .. n)
        BY <3>2
      <4>2. f[k] = IF k = 0 THEN 0 ELSE f[k - 1] + FrameCount(q[k])
        BY <2>1, <3>2
      <4> QED
        BY <4>1, <4>2
    <3> QED
      BY <3>1, <3>2
  <2>3. Upto(n + 1, g)
    <3>1. g = [k \in 0 .. n + 1 |-> g[k]]
      OBVIOUS
    <3> HIDE DEF g
    <3> QED
      BY <2>2, <3>1
  <2> HIDE DEF g, Upto
  <2> QED
    BY <2>3
<1>3. Len(q) \in T
  <2> HIDE DEF T
  <2>1. \A n \in Nat : n \in T
    BY <1>1, <1>2, NatSetInduction
  <2> QED
    BY <2>1
<1>4. Sums(q, SumsOf(q))
  BY <1>3 DEF Sums, SumsOf
<1> DEFINE s == SumsOf(q)
           V == {n \in Nat : n <= Len(q) => s[n] \in Nat}
<1>5. \A k \in 0 .. Len(q) : s[k] = IF k = 0 THEN 0 ELSE s[k - 1] + FrameCount(q[k])
  BY <1>4 DEF Sums
<1> HIDE DEF s
<1>6. 0 \in V
  BY <1>5
<1>7. ASSUME NEW n \in Nat, n \in V PROVE n + 1 \in V
  <2>1. ASSUME n + 1 <= Len(q) PROVE s[n + 1] \in Nat
    <3>1. n + 1 \in 1 .. Len(q) /\ n + 1 # 0 /\ n <= Len(q)
      BY <2>1
    <3>2. s[n + 1] = s[n] + FrameCount(q[n + 1])
      BY <1>5, <3>1
    <3>3. q[n + 1] \in Event
      BY <3>1
    <3> QED
      BY <1>7, <3>1, <3>2, <3>3, EventCount
  <2> QED
    BY <2>1
<1>8. \A k \in 0 .. Len(q) : k \in V
  <2> HIDE DEF V
  <2> QED
    BY <1>6, <1>7, NatSetInduction
<1> QED
  BY <1>4, <1>8 DEF s

LEMMA SumsStep ==
  ASSUME NEW q \in Seq(Event)
  PROVE  /\ SumsOf(q)[0] = 0
         /\ \A k \in 1 .. Len(q) : SumsOf(q)[k] = SumsOf(q)[k - 1] + FrameCount(q[k])
  BY SumsExist DEF Sums

(* An event at the end adds its count. *)
LEMMA SumsAppend ==
  ASSUME NEW q \in Seq(Event), NEW e \in Event
  PROVE  SumsOf(Append(q, e))[Len(q) + 1] = SumsOf(q)[Len(q)] + FrameCount(e)
<1> DEFINE r == Append(q, e)
           s == SumsOf(q)
           t == SumsOf(r)
           T == {n \in Nat : n <= Len(q) => t[n] = s[n]}
<1>1. r \in Seq(Event) /\ Len(r) = Len(q) + 1 /\ r[Len(q) + 1] = e
      /\ \A k \in 1 .. Len(q) : r[k] = q[k]
  OBVIOUS
<1> HIDE DEF r
<1>2. /\ s[0] = 0 /\ t[0] = 0
      /\ \A k \in 1 .. Len(q) : s[k] = s[k - 1] + FrameCount(q[k])
      /\ \A k \in 1 .. Len(r) : t[k] = t[k - 1] + FrameCount(r[k])
  BY <1>1, SumsStep
<1> HIDE DEF s, t
<1>3. 0 \in T
  BY <1>2
<1>4. ASSUME NEW n \in Nat, n \in T PROVE n + 1 \in T
  <2>1. ASSUME n + 1 <= Len(q) PROVE t[n + 1] = s[n + 1]
    <3>1. n + 1 \in 1 .. Len(q) /\ n + 1 \in 1 .. Len(r) /\ n <= Len(q) /\ n + 1 - 1 = n
      BY <1>1, <2>1
    <3> QED
      BY <1>1, <1>2, <1>4, <3>1
  <2> QED
    BY <2>1
<1>5. Len(q) \in T
  <2> HIDE DEF T
  <2>1. \A n \in Nat : n \in T
    BY <1>3, <1>4, NatSetInduction
  <2> QED
    BY <2>1
<1>6. t[Len(q)] = s[Len(q)]
  BY <1>5
<1>7. Len(q) + 1 \in 1 .. Len(r) /\ Len(q) + 1 - 1 = Len(q)
  BY <1>1
<1>8. t[Len(q) + 1] = t[Len(q)] + FrameCount(e)
  BY <1>1, <1>2, <1>7
<1> QED
  BY <1>6, <1>8 DEF r, s, t

(* The event at the head takes its count with it. *)
LEMMA SumsTail ==
  ASSUME NEW q \in Seq(Event), q # <<>>
  PROVE  SumsOf(q)[Len(q)] = FrameCount(Head(q)) + SumsOf(Tail(q))[Len(q) - 1]
<1> DEFINE r == Tail(q)
           s == SumsOf(q)
           t == SumsOf(r)
           T == {n \in Nat : n < Len(q) => s[n + 1] = FrameCount(q[1]) + t[n]}
<1>1. /\ r \in Seq(Event) /\ Len(r) = Len(q) - 1 /\ Head(q) = q[1]
      /\ \A k \in 1 .. Len(q) - 1 : r[k] = q[k + 1]
      /\ Len(q) \in Nat /\ Len(q) >= 1 /\ q[1] \in Event
  OBVIOUS
<1> HIDE DEF r
<1>2. /\ s[0] = 0 /\ t[0] = 0
      /\ \A k \in 1 .. Len(q) : s[k] = s[k - 1] + FrameCount(q[k])
      /\ \A k \in 1 .. Len(r) : t[k] = t[k - 1] + FrameCount(r[k])
  BY <1>1, SumsStep
<1>3. \A k \in 0 .. Len(r) : t[k] \in Nat
  BY <1>1, SumsExist
<1>a. \A k \in 1 .. Len(r) : FrameCount(r[k]) \in Nat
  <2>1. \A k \in 1 .. Len(r) : r[k] \in Event
    BY <1>1
  <2> QED
    BY <2>1, EventCount
<1>b. FrameCount(q[1]) \in Nat
  BY <1>1, EventCount
<1> HIDE DEF s, t
<1>4. 0 \in T
  <2>1. s[1] = s[1 - 1] + FrameCount(q[1])
    BY <1>1, <1>2
  <2> QED
    BY <1>2, <1>b, <2>1
<1>5. ASSUME NEW n \in Nat, n \in T PROVE n + 1 \in T
  <2>1. ASSUME n + 1 < Len(q) PROVE s[n + 1 + 1] = FrameCount(q[1]) + t[n + 1]
    <3>1. /\ n + 1 + 1 \in 1 .. Len(q) /\ n + 1 + 1 - 1 = n + 1
          /\ n + 1 \in 1 .. Len(r) /\ n + 1 \in 1 .. Len(q) - 1 /\ n + 1 - 1 = n
          /\ n \in 0 .. Len(r) /\ n < Len(q)
      BY <1>1, <2>1
    <3>2. s[n + 1 + 1] = s[n + 1] + FrameCount(q[n + 1 + 1])
      BY <1>2, <3>1
    <3>3. t[n + 1] = t[n] + FrameCount(q[n + 1 + 1])
      BY SMTT(30), <1>1, <1>2, <3>1
    <3>4. s[n + 1] = FrameCount(q[1]) + t[n]
      BY <1>5, <3>1
    <3>5. FrameCount(q[n + 1 + 1]) \in Nat /\ t[n] \in Nat
      BY <1>1, <1>3, <1>a, <3>1
    <3> QED
      BY <1>b, <3>2, <3>3, <3>4, <3>5
  <2> QED
    BY <2>1
<1>6. Len(q) - 1 \in T
  <2> HIDE DEF T
  <2>1. \A n \in Nat : n \in T
    BY <1>4, <1>5, NatSetInduction
  <2> QED
    BY <1>1, <2>1
<1>7. s[Len(q)] = FrameCount(q[1]) + t[Len(q) - 1]
  BY <1>1, <1>6
<1> QED
  BY <1>1, <1>7 DEF r, s, t
-----------------------------------------------------------------------------
(* The counters: TypeOK is inductive, ReportedAtMostOnce with it. *)
CountInv == TypeOK /\ queue \in Seq(Event) /\ ReportedAtMostOnce

LEMMA CarriedType ==
  ASSUME queue \in Seq(Event)
  PROVE  Carried \in Nat
  BY SumsExist, CarriedIs

LEMMA CarriedAppend ==
  ASSUME queue \in Seq(Event), NEW e \in Event, queue' = Append(queue, e)
  PROVE  queue' \in Seq(Event) /\ Carried' = Carried + FrameCount(e)
<1>1. queue' \in Seq(Event) /\ Len(queue') = Len(queue) + 1
  OBVIOUS
<1>2. Carried' = SumsOf(queue')[Len(queue')]
  BY DEF Carried, SumsOf, Sums
<1> QED
  BY <1>1, <1>2, CarriedIs, SumsAppend

LEMMA CarriedTail ==
  ASSUME queue \in Seq(Event), queue # <<>>, queue' = Tail(queue)
  PROVE  /\ Head(queue) \in Event /\ queue' \in Seq(Event)
         /\ Carried = FrameCount(Head(queue)) + Carried'
<1>1. Head(queue) \in Event /\ queue' \in Seq(Event) /\ Len(queue') = Len(queue) - 1
  OBVIOUS
<1>2. Carried' = SumsOf(queue')[Len(queue')]
  BY DEF Carried, SumsOf, Sums
<1> QED
  BY <1>1, <1>2, CarriedIs, SumsTail

LEMMA CarriedSame ==
  ASSUME queue' = queue
  PROVE  Carried' = Carried
  BY DEF Carried

(* What a step that leaves queue and counters alone has to show is TypeOK. *)
LEMMA DispatchCounts ==
  ASSUME CountInv, NEW e \in Event, Dispatch(e)
  PROVE  /\ queue' \in Seq(Event) /\ depth' \in Nat /\ reported' \in Nat /\ gS' = gS
         /\ Carried' \in Nat
         /\ reported' + Carried' = reported + Carried + FrameCount(e)
<1>1. Carried \in Nat /\ reported \in Nat /\ depth \in Nat /\ FrameCount(e) \in Nat
      /\ queue \in Seq(Event)
  BY CarriedType, EventCount DEF CountInv, TypeOK
<1>2. CASE multithread
  <2>1. queue' = Append(queue, e) /\ gS' = gS /\ depth' = depth /\ reported' = reported
    BY <1>2 DEF Dispatch, imageVars
  <2> QED
    BY <1>1, <2>1, CarriedAppend
<1>3. CASE ~multithread
  <2>1. HandleEvent(e) /\ queue' = queue
    BY <1>3 DEF Dispatch
  <2>2. depth' = DepthAfter(e) /\ gS' = gS /\ reported' = reported + FrameCount(e)
    BY <1>1, <2>1 DEF HandleEvent, FrameCount
  <2>3. DepthAfter(e) \in Nat
    BY <1>1 DEF DepthAfter
  <2>4. Carried' = Carried
    BY <2>1, CarriedSame
  <2> QED
    BY <1>1, <2>1, <2>2, <2>3, <2>4
<1> QED
  BY <1>2, <1>3

LEMMA HookCounts ==
  ASSUME CountInv, NEW e \in {CallEvent, ReturnEvent}, Hook(e)
  PROVE  /\ queue' \in Seq(Event) /\ depth' \in Nat /\ gS' = gS
         /\ hookCnt' \in Nat /\ executed' \in Nat /\ reported' \in Nat
         /\ ReportedAtMostOnce'
<1>1. /\ Carried \in Nat /\ reported \in Nat /\ hookCnt \in Nat /\ executed \in Nat
      /\ reported + Carried + hookCnt <= executed
      /\ depth \in Nat /\ queue \in Seq(Event)
  BY CarriedType DEF CountInv, TypeOK, ReportedAtMostOnce
<1>2. e \in Event /\ FrameCount(e) = 0
  BY DEF Event, FrameCount, CallEvent, ReturnEvent
<1>3. CASE hookOn
  <2>1. Dispatch(e) /\ hookCnt' = hookCnt + 1 /\ executed' = executed + 1
    BY <1>3 DEF Hook
  <2>2. /\ queue' \in Seq(Event) /\ depth' \in Nat /\ reported' \in Nat /\ gS' = gS
        /\ Carried' \in Nat
        /\ reported' + Carried' = reported + Carried + FrameCount(e)
    BY <1>2, <2>1, DispatchCounts
  <2>3. reported' + Carried' + hookCnt' <= executed'
    <3>1. PICK c \in Nat, d \in Nat, n \in Nat : c = Carried /\ d = Carried' /\ n = FrameCount(e)
      BY <1>1, <2>2, <1>2
    <3>2. /\ reported' + d = reported + c + n
          /\ reported + c + hookCnt <= executed
      BY <1>1, <2>2, <3>1
    <3>3. /\ reported \in Nat /\ hookCnt \in Nat /\ executed \in Nat /\ reported' \in Nat
          /\ hookCnt' = hookCnt + 1 /\ executed' = executed + 1 /\ n = 0
      BY <1>1, <1>2, <2>1, <2>2, <3>1
    <3>5. PICK r \in Nat, h \in Nat, x \in Nat : r = reported' /\ h = hookCnt' /\ x = executed'
      BY <3>3
    <3>6. r + d = reported + c + n
      BY <3>2, <3>5
    <3>7. reported + c + hookCnt <= executed
      BY <3>2
    <3>9. /\ c \in Nat /\ d \in Nat /\ n \in Nat
          /\ reported \in Nat /\ hookCnt \in Nat /\ executed \in Nat
          /\ r \in Nat /\ h \in Nat /\ x \in Nat
      BY <3>1, <3>3, <3>5
    <3>10. h + n = hookCnt + (x - executed)
      BY <3>3, <3>5
    <3>8. r + d + h <= x
      BY <3>6, <3>7, <3>9, <3>10
    <3>4. reported' + d + hookCnt' <= executed'
      BY <3>5, <3>8
    <3> QED
      BY <3>1, <3>4
  <2>4. ReportedAtMostOnce'
    BY <2>3 DEF ReportedAtMostOnce
  <2>5. hookCnt' \in Nat /\ executed' \in Nat
    BY <1>1, <2>1
  <2> QED
    BY <2>2, <2>4, <2>5
<1>4. CASE ~hookOn
  <2>1. UNCHANGED <<imageVars, statVars, queue>>
    BY <1>4 DEF Hook
  <2>2. Carried' = Carried
    BY <2>1, CarriedSame
  <2> QED
    BY <1>1, <2>1, <2>2 DEF imageVars, statVars, ReportedAtMostOnce
<1> QED
  BY <1>3, <1>4

(* Without an event nothing is counted. *)
LEMMA QuietCounts ==
  ASSUME CountInv, UNCHANGED <<statVars, queue>>
  PROVE  /\ queue' \in Seq(Event)
         /\ hookCnt' \in Nat /\ executed' \in Nat /\ reported' \in Nat
         /\ ReportedAtMostOnce'
<1>1. Carried' = Carried
  BY CarriedSame
<1> QED
  BY <1>1 DEF CountInv, TypeOK, ReportedAtMostOnce, statVars

LEMMA CountInit == Init => CountInv
<1> SUFFICES ASSUME Init PROVE CountInv
  OBVIOUS
<1>1. queue = <<>> /\ queue \in Seq(Event) /\ Len(queue) = 0
  BY DEF Init
<1>2. Carried = 0
  BY <1>1, CarriedIs, SumsStep
<1>3. TypeOK
  <2>1. {isStart, isPause, multithread, hookOn} \subseteq BOOLEAN /\ api \in {"none", "called", "done"}
    BY DEF Init
  <2>2. registry = 0 /\ gS = 0 /\ live = {} /\ session = 0 /\ readers = 0
    BY DEF Init, Nil
  <2>3. osExit \in {"exit", "exit_profiler"} /\ exitId \in {"none", "exit", "exit_profiler"}
    BY DEF Init
  <2>4. depth = 0 /\ lua = 0 /\ hookCnt = 0 /\ executed = 0 /\ reported = 0
    BY DEF Init
  <2> QED
    BY <2>1, <2>2, <2>3, <2>4 DEF TypeOK
<1>4. reported = 0 /\ hookCnt = 0 /\ executed = 0
  BY DEF Init
<1> QED
  BY <1>1, <1>2, <1>3, <1>4 DEF CountInv, ReportedAtMostOnce

(* What TypeOK says beside the counters. *)
FlagsOK ==
  /\ {isStart, isPause, multithread, hookOn} \subseteq BOOLEAN
  /\ api \in {"none", "called", "done"}
  /\ registry \in 0 .. session /\ gS \in 0 .. session /\ live \subseteq 1 .. session
  /\ osExit \in {"exit", "exit_profiler"} /\ exitId \in {"none", "exit", "exit_profiler"}
  /\ session \in Nat /\ readers \in 0 .. session /\ lua \in Nat

LEMMA CountStep == SInv /\ CountInv /\ [Next]_vars => CountInv'
<1> SUFFICES ASSUME SInv, CountInv, [Next]_vars PROVE CountInv'
  OBVIOUS
<1>f. FlagsOK /\ depth \in Nat
  BY DEF CountInv, TypeOK, FlagsOK
<1>q. ASSUME FlagsOK', depth' \in Nat, UNCHANGED <<statVars, queue>>
      PROVE  CountInv'
  BY <1>q, QuietCounts DEF CountInv, TypeOK, FlagsOK
<1>h. ASSUME NEW e \in {CallEvent, ReturnEvent}, Hook(e), UNCHANGED controlVars,
             lua' \in Nat, api' \in {"none", "called", "done"}
      PROVE  CountInv'
  <2>1. /\ queue' \in Seq(Event) /\ depth' \in Nat /\ gS' = gS
        /\ hookCnt' \in Nat /\ executed' \in Nat /\ reported' \in Nat
        /\ ReportedAtMostOnce'
    BY <1>h, HookCounts
  <2>2. FlagsOK'
    BY <1>f, <1>h, <2>1 DEF FlagsOK, controlVars
  <2> QED
    BY <2>1, <2>2 DEF CountInv, TypeOK, FlagsOK
<1>1. ASSUME NEW kind \in {"none", "called"}, LuaCall(kind)
      PROVE  CountInv'
  <2>1. lua' \in Nat /\ api' \in {"none", "called", "done"} /\ UNCHANGED controlVars /\ Hook(CallEvent)
    BY <1>f, <1>1 DEF LuaCall, FlagsOK
  <2> QED
    BY <1>h, <2>1
<1>2. CASE LuaReturn
  <2>1. lua' \in Nat /\ api' \in {"none", "called", "done"} /\ UNCHANGED controlVars /\ Hook(ReturnEvent)
    BY <1>f, <1>2 DEF LuaReturn, FlagsOK
  <2> QED
    BY <1>h, <2>1
<1>3. CASE ConsumerHandles
  <2> DEFINE e == Head(queue)
  <2>1. /\ queue # <<>> /\ queue' = Tail(queue) /\ HandleEvent(e)
        /\ hookCnt' \in {0, hookCnt} /\ executed' = executed
        /\ UNCHANGED <<controlVars, programVars>>
    BY <1>3 DEF ConsumerHandles
  <2>2. /\ Carried \in Nat /\ reported \in Nat /\ hookCnt \in Nat /\ executed \in Nat
        /\ reported + Carried + hookCnt <= executed
        /\ queue \in Seq(Event)
    BY CarriedType DEF CountInv, TypeOK, ReportedAtMostOnce
  <2>3. e \in Event /\ queue' \in Seq(Event) /\ Carried = FrameCount(e) + Carried'
    BY <2>1, <2>2, CarriedTail
  <2>4. Carried' \in Nat
    <3>1. SumsOf(queue')[Len(queue')] \in Nat
      BY <2>3, SumsExist
    <3>2. Carried' = SumsOf(queue')[Len(queue')]
      BY DEF Carried, SumsOf, Sums
    <3> QED
      BY <3>1, <3>2
  <2>5. FrameCount(e) \in Nat
    BY <2>3, EventCount
  <2> HIDE DEF e
  <2>6. reported' = reported + FrameCount(e) /\ depth' = DepthAfter(e) /\ gS' = gS
    BY <2>1, <2>2 DEF HandleEvent, FrameCount
  <2>7. depth' \in Nat
    BY <1>f, <2>6 DEF DepthAfter
  <2>8. reported' \in Nat /\ hookCnt' \in Nat /\ executed' \in Nat
        /\ reported' + Carried' + hookCnt' <= executed'
    <3>1. PICK c \in Nat, d \in Nat, n \in Nat : c = Carried /\ d = Carried' /\ n = FrameCount(e)
      BY <2>2, <2>4, <2>5
    <3>2. reported' = reported + n /\ c = n + d /\ reported + c + hookCnt <= executed
      BY <2>2, <2>3, <2>6, <3>1
    <3>3. hookCnt' \in Nat /\ hookCnt' <= hookCnt /\ executed' = executed
      BY <2>1, <2>2
    <3>5. reported \in Nat /\ hookCnt \in Nat /\ executed \in Nat
      BY <2>2
    <3>4. reported' \in Nat /\ reported' + d + hookCnt' <= executed'
      BY <3>1, <3>2, <3>3, <3>5
    <3> QED
      BY <3>1, <3>3, <3>4, <3>5
  <2>9. FlagsOK'
    BY <1>f, <2>1, <2>6 DEF FlagsOK, controlVars, programVars
  <2> QED
    BY <2>3, <2>7, <2>8, <2>9 DEF CountInv, TypeOK, FlagsOK, ReportedAtMostOnce
<1>4. ASSUME NEW threads \in BOOLEAN, Start(threads)
      PROVE  CountInv'
  <2>1. FlagsOK'
    BY <1>f, <1>4 DEF FlagsOK, Start, Body
  <2>2. depth' \in Nat
    BY <1>4 DEF Start
  <2>3. UNCHANGED statVars
    BY <1>4 DEF Start
  <2>4. CASE threads
    <3>1. queue' = <<CallEvent>>
      BY <1>4, <2>4 DEF Start
    <3>2. queue' \in Seq(Event) /\ Len(queue') = 1 /\ queue'[1] = CallEvent
      BY <3>1 DEF Event
    <3>3. Carried' = SumsOf(queue')[Len(queue')]
      BY DEF Carried, SumsOf, Sums
    <3>4. PICK q : q = queue'
      OBVIOUS
    <3>8. q \in Seq(Event) /\ Len(q) = 1 /\ q[1] = CallEvent
      BY <3>2, <3>4
    <3>9. SumsOf(q)[1] = SumsOf(q)[1 - 1] + FrameCount(q[1]) /\ SumsOf(q)[0] = 0
      BY SMTT(30), <3>8, SumsStep
    <3>10. FrameCount(CallEvent) = 0
      BY DEF FrameCount, CallEvent
    <3>5. Carried' = 0
      BY <3>3, <3>4, <3>8, <3>9, <3>10
    <3>6. /\ Carried \in Nat /\ reported \in Nat /\ hookCnt \in Nat /\ executed \in Nat
          /\ reported + Carried + hookCnt <= executed
      BY CarriedType DEF CountInv, TypeOK, ReportedAtMostOnce
    <3>7. reported + 0 + hookCnt <= executed
      BY <3>6
    <3> QED
      BY <2>1, <2>2, <2>3, <3>2, <3>5, <3>6, <3>7
      DEF CountInv, TypeOK, FlagsOK, ReportedAtMostOnce, statVars
  <2>5. CASE ~threads
    <3>1. UNCHANGED queue
      BY <1>4, <2>5 DEF Start
    <3> QED
      BY <1>q, <2>1, <2>2, <2>3, <3>1
  <2> QED
    BY <2>4, <2>5
<1>5. ASSUME NEW threads \in BOOLEAN, StartFails(threads)
      PROVE  CountInv'
  <2>1. lua' \in Nat
    BY <1>f, <1>5 DEF FlagsOK, StartFails, Raises
  <2>2. FlagsOK' /\ depth' \in Nat
    <3>1. {isStart', isPause', multithread', hookOn'} \subseteq BOOLEAN /\ api' = "none"
      BY <1>f, <1>5 DEF FlagsOK, StartFails, Raises
    <3>2. /\ registry' = 0 /\ gS' = gS /\ live' \subseteq live /\ session' = session /\ readers' = readers
          /\ osExit' = osExit /\ exitId' = exitId /\ depth' \in {0, depth}
      BY <1>5 DEF StartFails, Nil
    <3> QED
      BY <1>f, <2>1, <3>1, <3>2 DEF FlagsOK
  <2> QED
    BY <1>q, <1>5, <2>2 DEF StartFails
<1>6. CASE NothingToDo
  <2>1. FlagsOK' /\ depth' \in Nat
    BY <1>f, <1>6 DEF FlagsOK, NothingToDo, Body, controlVars, imageVars
  <2> QED
    BY <1>q, <1>6, <2>1 DEF NothingToDo
<1>7. CASE Stop
  <2>1. FlagsOK' /\ depth' \in Nat
    <3>1. {isStart', isPause', multithread', hookOn'} \subseteq BOOLEAN /\ api' = "done"
      BY <1>f, <1>7 DEF FlagsOK, Stop, Body
    <3>2. /\ registry' = 0 /\ gS' = gS /\ live' \subseteq live /\ session' = session /\ readers' = readers
          /\ osExit' = osExit /\ exitId' = exitId /\ depth' \in {0, depth} /\ lua' = lua
      BY <1>7 DEF Stop, Nil
    <3> QED
      BY <1>f, <3>1, <3>2 DEF FlagsOK
  <2> QED
    BY <1>q, <1>7, <2>1 DEF Stop
<1>8. CASE Frame
  <2>1. /\ Carried \in Nat /\ reported \in Nat /\ hookCnt \in Nat /\ executed \in Nat
        /\ reported + Carried + hookCnt <= executed
    BY CarriedType DEF CountInv, TypeOK, ReportedAtMostOnce
  <2> DEFINE e == FrameEvent(hookCnt)
  <2>2. e \in Event /\ FrameCount(e) = hookCnt
    BY <2>1 DEF Event, FrameCount, FrameEvent
  <2>3. /\ Dispatch(e) /\ hookCnt' = 0 /\ executed' = executed /\ lua' = lua
        /\ UNCHANGED controlVars /\ api' \in {"none", "called", "done"}
    BY <1>f, <1>8 DEF Frame, FrameCall, programVars, FlagsOK
  <2> HIDE DEF e
  <2>4. /\ queue' \in Seq(Event) /\ depth' \in Nat /\ reported' \in Nat /\ gS' = gS
        /\ Carried' \in Nat
        /\ reported' + Carried' = reported + Carried + FrameCount(e)
    BY <2>2, <2>3, DispatchCounts
  <2>5. reported' + Carried' + hookCnt' <= executed'
    <3>1. PICK c \in Nat, d \in Nat, n \in Nat : c = Carried /\ d = Carried' /\ n = FrameCount(e)
      BY <2>1, <2>4, <2>2
    <3>2. /\ reported' + d = reported + c + n
          /\ reported + c + hookCnt <= executed
      BY <2>1, <2>4, <3>1
    <3>3. /\ reported \in Nat /\ hookCnt \in Nat /\ executed \in Nat /\ reported' \in Nat
          /\ hookCnt' = 0 /\ executed' = executed /\ n = hookCnt
      BY <2>1, <2>2, <2>3, <2>4, <3>1
    <3>5. PICK r \in Nat, h \in Nat, x \in Nat : r = reported' /\ h = hookCnt' /\ x = executed'
      BY <3>3
    <3>6. r + d = reported + c + n
      BY <3>2, <3>5
    <3>7. reported + c + hookCnt <= executed
      BY <3>2
    <3>9. /\ c \in Nat /\ d \in Nat /\ n \in Nat
          /\ reported \in Nat /\ hookCnt \in Nat /\ executed \in Nat
          /\ r \in Nat /\ h \in Nat /\ x \in Nat
      BY <3>1, <3>3, <3>5
    <3>10. h + n = hookCnt + (x - executed)
      BY <3>3, <3>5
    <3>8. r + d + h <= x
      BY <3>6, <3>7, <3>9, <3>10
    <3>4. reported' + d + hookCnt' <= executed'
      BY <3>5, <3>8
    <3> QED
      BY <3>1, <3>4
  <2>6. FlagsOK'
    BY <1>f, <2>3, <2>4 DEF FlagsOK, controlVars
  <2> QED
    BY <2>1, <2>3, <2>4, <2>5, <2>6 DEF CountInv, TypeOK, FlagsOK, ReportedAtMostOnce
<1>9. ASSUME NEW paused \in BOOLEAN, PauseOrResume(paused)
      PROVE  CountInv'
  <2>1. FlagsOK' /\ depth' \in Nat
    BY <1>f, <1>9 DEF FlagsOK, PauseOrResume, Body, imageVars
  <2> QED
    BY <1>q, <1>9, <2>1 DEF PauseOrResume
<1>10. CASE InitProfiler
  <2>1. FlagsOK' /\ depth' \in Nat
    BY <1>f, <1>10 DEF FlagsOK, InitProfiler, imageVars, programVars
  <2> QED
    BY <1>q, <1>10, <2>1 DEF InitProfiler
<1>12. CASE ProfilerFrame
  <2>1. lua' \in Nat /\ api' = "none"
    BY <1>f, <1>12 DEF FlagsOK, ProfilerFrame, Raises
  <2>2. FlagsOK' /\ depth' \in Nat
    BY <1>f, <1>12, <2>1 DEF FlagsOK, ProfilerFrame, controlVars, imageVars
  <2> QED
    BY <1>q, <1>12, <2>2 DEF ProfilerFrame
<1>11. CASE UNCHANGED vars
  <2>1. FlagsOK' /\ depth' \in Nat /\ UNCHANGED <<statVars, queue>>
    BY <1>f, <1>11 DEF FlagsOK, vars, controlVars, imageVars, programVars
  <2> QED
    BY <1>q, <2>1
<1> QED
  BY <1>1, <1>2, <1>3, <1>4, <1>5, <1>6, <1>7, <1>8, <1>9, <1>10, <1>11, <1>12 DEF Next

(* lua50_profiler.c:206, 905-907, stack.c:568: over all sessions of either *)
(* mode, however the consumer lags behind, the counts that frames have     *)
(* carried and still carry and what has been counted since never exceed    *)
(* the calls of the hook.                                                  *)
THEOREM SessionCountsConsistent == Spec => []CountsConsistent
<1>1. CountInv => CountsConsistent
  BY DEF CountInv, CountsConsistent
<1> QED
  BY SessionInvariant, CountInit, CountStep, <1>1, PTL DEF Spec
=============================================================================
