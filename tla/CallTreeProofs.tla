--------------------------- MODULE CallTreeProofs ---------------------------
(***************************************************************************)
(* Theorems about CallTree: whatever events arrive, the level of g_S, the  *)
(* records of its stack, the pointers to the tree and the nodes on the     *)
(* heap agree, and CallTree implements CallNesting.                        *)
(*                                                                         *)
(* LevelIsDepth is not inductive.  lprofT_add takes a new root from malloc *)
(* while there is none, so one has to know that what malloc returns is not *)
(* Null: the allocator of the model starts over when the tree is gone.     *)
(*                                                                         *)
(* Nor is HeapFitsStack: it speaks of the path and of end times only, and  *)
(* an array of children that is shared, hangs in the air or leads back up  *)
(* would spoil it later.  TreeInv adds that no node is held twice, that    *)
(* the levels rise from a node to its children, that children of an ended  *)
(* node have ended and that every node but the root is held by another.    *)
(* Rising levels make the recursions of treeTojson and lprofT_free end,    *)
(* and the induction on them needs nothing but the order of the numbers.   *)
(***************************************************************************)
EXTENDS CallTree, SequenceTheorems, WellFoundedInduction, TLAPS

Record == [fn : Fun, level : Nat]

(* The counter counts, the stack holds records, and without a tree the     *)
(* allocator is at its beginning.                                          *)
StackTypeOK ==
  /\ level \in Nat
  /\ stack \in Seq(Record)
  /\ root = Null => brk = Null

LevelInv == StackTypeOK /\ LevelIsDepth

LEMMA FrontOfStack ==
  ASSUME NEW s \in Seq(Record), s # <<>>
  PROVE  /\ Front(s) \in Seq(Record)
         /\ Len(Front(s)) = Len(s) - 1
         /\ \A i \in 1 .. Len(s) - 1 : Front(s)[i] = s[i]
<1>1. Len(s) \in Nat /\ Len(s) > 0
  OBVIOUS
<1>2. \A i \in 1 .. Len(s) - 1 : s[i] \in Record
  BY <1>1
<1> DEFINE n == Len(s) - 1
<1>3. n \in Int /\ n >= 0
  BY <1>1
<1> HIDE DEF n
<1>4. \A i \in 1 .. n : s[i] \in Record
  BY <1>2 DEF n
<1>5. /\ SubSeq(s, 1, n) \in Seq(Record)
      /\ Len(SubSeq(s, 1, n)) = IF 1 <= n THEN n - 1 + 1 ELSE 0
      /\ \A i \in 1 .. n - 1 + 1 : SubSeq(s, 1, n)[i] = s[1 + i - 1]
  BY <1>3, <1>4, SubSeqProperties
<1>6. Len(SubSeq(s, 1, n)) = n
  BY <1>3, <1>5
<1>7. \A i \in 1 .. n : SubSeq(s, 1, n)[i] = s[i]
  BY <1>3, <1>5
<1> QED
  BY <1>5, <1>6, <1>7 DEF Front, n

LEMMA LevelInit == Init => LevelInv
BY DEF Init, LevelInv, StackTypeOK, LevelIsDepth, Null

(* Adding a node gives a tree its root and never takes it away. *)
LEMMA AddNodeKeepsRoot ==
  ASSUME NEW n, AddNode(n), root = Null => brk = Null
  PROVE  root' # Null
<1>1. CASE root = Null
  BY <1>1 DEF AddNode, Null
<1>2. CASE root # Null
  BY <1>2 DEF AddNode, AddChild
<1> QED
  BY <1>1, <1>2

LEMMA LevelStep == LevelInv /\ [Next]_callTreeVars => LevelInv'
<1> SUFFICES ASSUME LevelInv, [Next]_callTreeVars PROVE LevelInv'
  OBVIOUS
<1> USE DEF LevelInv, StackTypeOK, LevelIsDepth
<1>1. ASSUME NEW f \in Fun, CallhookIN(f) PROVE LevelInv'
  <2>1. stack' = Append(stack, [fn |-> f, level |-> level + 1]) /\ level' = level + 1
    BY <1>1 DEF CallhookIN
  <2>2. [fn |-> f, level |-> level + 1] \in Record
    BY DEF Record
  <2>3. stack' \in Seq(Record) /\ Len(stack') = Len(stack) + 1
    BY <2>1, <2>2
  <2>4. \A i \in 1 .. Len(stack') : stack'[i].level = i
    BY <2>1, <2>3
  <2>5. root' # Null
    BY <1>1, AddNodeKeepsRoot DEF CallhookIN
  <2> QED
    BY <2>1, <2>3, <2>4, <2>5
<1>2. CASE CallhookOUTUnmatched
  BY <1>2 DEF CallhookOUTUnmatched, stackVars, treeVars
<1>3. CASE CallhookOUTInner
  <2>1. stack # <<>> /\ level > 1 /\ level' = level - 1 /\ stack' = Front(stack)
        /\ root' = root /\ brk' = brk
    BY <1>3 DEF CallhookOUTInner
  <2>2. /\ stack' \in Seq(Record) /\ Len(stack') = Len(stack) - 1
        /\ \A i \in 1 .. Len(stack) - 1 : stack'[i] = stack[i]
    BY <2>1, FrontOfStack
  <2>3. stack' # <<>> /\ root' # Null
    BY <2>1, <2>2
  <2> QED
    BY <2>1, <2>2, <2>3
<1>4. CASE CallhookOUTOuter
  <2>1. stack # <<>> /\ level = 1 /\ level' = 0 /\ stack' = Front(stack) /\ root # Null
    BY <1>4 DEF CallhookOUTOuter
  <2>2. stack' \in Seq(Record) /\ Len(stack') = Len(stack) - 1
    BY <2>1, FrontOfStack
  <2>3. stack' = <<>>
    BY <2>1, <2>2
  <2>4. root' = Null /\ brk' = Null
    BY <1>4, <2>1 DEF CallhookOUTOuter, FreeTree
  <2>5. StackTypeOK'
    BY <2>1, <2>2, <2>4
  <2>6. level' = Len(stack') /\ \A i \in 1 .. Len(stack') : stack'[i].level = i
    BY <2>1, <2>3
  <2>7. (root' = Null) <=> (stack' = <<>>)
    BY <2>3, <2>4
  <2> QED
    BY <2>5, <2>6, <2>7
<1>5. ASSUME NEW id \in FrameId, Frame(id) PROVE LevelInv'
  <2>1. level' = 0 /\ stack' = <<>>
    BY <1>5 DEF Frame, FrameStack
  <2>2. root' = Null /\ brk' = Null
    BY <1>5 DEF Frame, FreeTree
  <2> QED
    BY <2>1, <2>2
<1>6. CASE Restart
  BY <1>6 DEF Restart
<1>7. CASE UNCHANGED callTreeVars
  BY <1>7 DEF callTreeVars, stackVars, treeVars
<1> QED
  BY <1>1, <1>2, <1>3, <1>4, <1>5, <1>6, <1>7 DEF Next, CallhookOUT

(* The level of g_S counts the records of its stack, each record knows its *)
(* depth, and a tree is under construction exactly while a call is open, for *)
(* every program and any bounds (core_profiler.c:114-149, stack.c:569-597). *)
THEOREM LevelTheorem == Spec => []LevelIsDepth
<1>1. LevelInv => LevelIsDepth
  BY DEF LevelInv
<1> QED
  BY LevelInit, LevelStep, <1>1, PTL DEF Spec
-----------------------------------------------------------------------------
NodeRecord == [fn : Fun, level : Nat, parent : Nat, kids : Seq(Nat), ended : BOOLEAN]

(* Below brk; the levels are those of the calls. *)
NodesOK ==
  \A a \in DOMAIN heap :
    /\ a \in 1 .. brk
    /\ heap[a] \in NodeRecord
    /\ heap[a].level \in 1 .. MaxDepth

(* The children of a node are nodes one level down, ended if it has, and   *)
(* nobody else's children.                                                 *)
KidsOK ==
  \A a \in DOMAIN heap : \A i \in DOMAIN heap[a].kids :
    /\ heap[a].kids[i] \in DOMAIN heap
    /\ heap[heap[a].kids[i]].level = heap[a].level + 1
    /\ heap[a].ended => heap[heap[a].kids[i]].ended
    /\ \A b \in DOMAIN heap : \A j \in DOMAIN heap[b].kids :
         heap[a].kids[i] = heap[b].kids[j] => a = b /\ i = j

(* Every node but the root is somebody's child.                            *)
HeldByRoot ==
  \A a \in DOMAIN heap :
    a = root \/ \E b \in DOMAIN heap : \E i \in DOMAIN heap[b].kids : heap[b].kids[i] = a

(* The nodes p[1] .. p[level] are the open calls, from the root to the     *)
(* current node; all others have ended.                                    *)
OnPath(p) ==
  /\ p[1] = root /\ p[level] = node
  /\ heap[root].parent = Null
  /\ \A i \in 1 .. level :
       heap[p[i]].level = i /\ heap[p[i]].fn = stack[i].fn /\ ~heap[p[i]].ended
  /\ \A i \in 2 .. level :
       /\ heap[p[i]].parent = p[i - 1]
       /\ heap[p[i - 1]].kids # <<>> /\ Last(heap[p[i - 1]].kids) = p[i]
  /\ \A a \in DOMAIN heap : ~heap[a].ended => \E i \in 1 .. level : a = p[i]

(* The inductive invariant of the tree.                                    *)
TreeInv ==
  /\ NodesOK /\ KidsOK /\ HeldByRoot
  /\ node \in Nat /\ brk \in Nat
  /\ root = Null => DOMAIN heap = {}
  /\ root # Null => \E p \in [1 .. level -> DOMAIN heap] : OnPath(p)
-----------------------------------------------------------------------------
(* A set of numbers that is not empty has a least one.                     *)
LEMMA LeastNumber ==
  ASSUME NEW T, T \subseteq Nat, T # {}
  PROVE  \E n \in T : \A m \in T : n <= m
<1>1. PICK n \in T : \A m \in T : <<m, n>> \notin OpToRel(<, Nat)
  BY NatLessThanWellFounded, WFMin
<1>2. \A m \in T : m \in Nat /\ n \in Nat /\ ~(m < n)
  BY <1>1 DEF OpToRel
<1> QED
  BY <1>2

(* Induction over the numbers, for a set instead of an operator: the       *)
(* library's theorem takes an operator as a parameter, which no prover here*)
(* can instantiate; a set can be.                                          *)
LEMMA NatSetInduction ==
  ASSUME NEW T, 0 \in T, \A n \in Nat : n \in T => n + 1 \in T
  PROVE  \A n \in Nat : n \in T
<1> DEFINE U == {n \in Nat : n \notin T}
<1> SUFFICES ASSUME U # {} PROVE FALSE
  OBVIOUS
<1>1. PICK n \in U : \A m \in U : n <= m
  BY LeastNumber
<1>2. n \in Nat /\ n # 0
  BY <1>1
<1>3. n - 1 \in Nat /\ n - 1 \notin U
  BY <1>1, <1>2
<1>4. n \in T
  BY <1>2, <1>3
<1> QED
  BY <1>1, <1>4

(* The same as FrontOfStack, of a sequence of addresses.                   *)
LEMMA FrontOfNumbers ==
  ASSUME NEW s \in Seq(Nat), s # <<>>
  PROVE  /\ Front(s) \in Seq(Nat)
         /\ Len(Front(s)) = Len(s) - 1
         /\ \A i \in 1 .. Len(s) - 1 : Front(s)[i] = s[i]
<1>1. Len(s) \in Nat /\ Len(s) > 0
  OBVIOUS
<1>2. \A i \in 1 .. Len(s) - 1 : s[i] \in Nat
  BY <1>1
<1> DEFINE n == Len(s) - 1
<1>3. n \in Int /\ n >= 0
  BY <1>1
<1> HIDE DEF n
<1>4. \A i \in 1 .. n : s[i] \in Nat
  BY <1>2 DEF n
<1>5. /\ SubSeq(s, 1, n) \in Seq(Nat)
      /\ Len(SubSeq(s, 1, n)) = IF 1 <= n THEN n - 1 + 1 ELSE 0
      /\ \A i \in 1 .. n - 1 + 1 : SubSeq(s, 1, n)[i] = s[1 + i - 1]
  BY <1>3, <1>4, SubSeqProperties
<1>6. Len(SubSeq(s, 1, n)) = n
  BY <1>3, <1>5
<1>7. \A i \in 1 .. n : SubSeq(s, 1, n)[i] = s[i]
  BY <1>3, <1>5
<1> QED
  BY <1>5, <1>6, <1>7 DEF Front, n
-----------------------------------------------------------------------------
(* Json and Reachable as operators of the heap.  A recursive function is a *)
(* CHOOSE: IsJson says what is chosen, and the lemmas below that there is  *)
(* such a function.                                                        *)
JsonNode(h, f, a) ==
  [fn |-> h[a].fn, sub |-> [i \in DOMAIN h[a].kids |-> f[h[a].kids[i]]]]
IsJson(h, f) == f = [a \in DOMAIN h |-> JsonNode(h, f, a)]
JsonOf(h) == CHOOSE f : IsJson(h, f)

BelowNode(h, f, a) == {a} \cup UNION {f[h[a].kids[i]] : i \in DOMAIN h[a].kids}
IsBelow(h, f) == f = [a \in DOMAIN h |-> BelowNode(h, f, a)]
BelowOf(h) == CHOOSE f : IsBelow(h, f)

(* A heap in which the level rises by one from a node to its children and  *)
(* has a bound: the arrays of children cannot lead in a circle, and a      *)
(* recursion over them ends.                                               *)
Layered(h, M) ==
  \A a \in DOMAIN h :
    /\ h[a].level \in 1 .. M
    /\ \A i \in DOMAIN h[a].kids :
         /\ h[a].kids[i] \in DOMAIN h
         /\ h[h[a].kids[i]].level = h[a].level + 1

(* The recursion of treeTojson ends (induction on the height over the      *)
(* deepest level), so that the tree of a node is made of the trees of its  *)
(* children.                                                               *)
LEMMA JsonExists ==
  ASSUME NEW h, NEW M \in Nat, Layered(h, M)
  PROVE  IsJson(h, JsonOf(h))
<1> DEFINE D(n) == {a \in DOMAIN h : h[a].level > M - n}
           T == {n \in Nat : \E f : \A a \in D(n) : f[a] = JsonNode(h, f, a)}
<1>1. 0 \in T
  <2>1. D(0) = {}
    BY DEF Layered
  <2> QED
    BY <2>1
<1>2. ASSUME NEW n \in Nat, n \in T PROVE n + 1 \in T
  <2>1. PICK f : \A a \in D(n) : f[a] = JsonNode(h, f, a)
    BY <1>2
  <2> DEFINE g == [a \in D(n + 1) |-> JsonNode(h, f, a)]
  <2>2. ASSUME NEW a \in D(n + 1) PROVE g[a] = JsonNode(h, g, a)
    <3>1. ASSUME NEW i \in DOMAIN h[a].kids PROVE g[h[a].kids[i]] = f[h[a].kids[i]]
      <4> DEFINE k == h[a].kids[i]
      <4>1. a \in DOMAIN h /\ k \in DOMAIN h /\ h[k].level = h[a].level + 1 /\ h[a].level \in Int
        BY DEF Layered
      <4>2. k \in D(n) /\ k \in D(n + 1)
        BY <4>1
      <4> QED
        BY <2>1, <4>2
    <3>2. g[a] = JsonNode(h, f, a)
      OBVIOUS
    <3> HIDE DEF g
    <3>3. JsonNode(h, g, a) = JsonNode(h, f, a)
      BY <3>1 DEF JsonNode
    <3> QED
      BY <3>2, <3>3
  <2> HIDE DEF g
  <2>3. n + 1 \in Nat /\ \E q : \A a \in D(n + 1) : q[a] = JsonNode(h, q, a)
    BY <2>2
  <2> QED
    BY <2>3
<1> HIDE DEF T
<1>3. M \in T
  BY <1>1, <1>2, NatSetInduction
<1>4. PICK f : \A a \in D(M) : f[a] = JsonNode(h, f, a)
  BY <1>3 DEF T
<1>5. D(M) = DOMAIN h
  BY DEF Layered
<1> DEFINE g == [a \in DOMAIN h |-> JsonNode(h, f, a)]
<1>6. ASSUME NEW a \in DOMAIN h PROVE g[a] = JsonNode(h, g, a)
  <2>1. ASSUME NEW i \in DOMAIN h[a].kids PROVE g[h[a].kids[i]] = f[h[a].kids[i]]
    <3> h[a].kids[i] \in DOMAIN h
      BY DEF Layered
    <3> QED
      BY <1>4, <1>5
  <2>2. g[a] = JsonNode(h, f, a)
    OBVIOUS
  <2> HIDE DEF g
  <2> QED
    BY <2>1, <2>2 DEF JsonNode
<1>7. g = [a \in DOMAIN h |-> g[a]]
  OBVIOUS
<1>8. IsJson(h, g)
  <2> HIDE DEF g
  <2> QED
    BY <1>6, <1>7 DEF IsJson
<1> QED
  BY <1>8, Zenon DEF JsonOf

(* The same of the recursion of lprofT_free.                               *)
LEMMA BelowExists ==
  ASSUME NEW h, NEW M \in Nat, Layered(h, M)
  PROVE  IsBelow(h, BelowOf(h))
<1> DEFINE Closed(S) == \A a \in S : \A i \in DOMAIN h[a].kids : h[a].kids[i] \in S
           g == [a \in DOMAIN h |->
                   {b \in DOMAIN h : \A S \in SUBSET DOMAIN h : a \in S /\ Closed(S) => b \in S}]
<1>1. ASSUME NEW a \in DOMAIN h PROVE g[a] = BelowNode(h, g, a)
  <2>1. \A i \in DOMAIN h[a].kids : h[a].kids[i] \in DOMAIN h
    BY DEF Layered
  <2>2. ASSUME NEW b \in BelowNode(h, g, a) PROVE b \in g[a]
    <3>1. CASE b = a
      BY <3>1
    <3>2. ASSUME NEW i \in DOMAIN h[a].kids, b \in g[h[a].kids[i]] PROVE b \in g[a]
      <4>1. b \in DOMAIN h /\ \A S \in SUBSET DOMAIN h : h[a].kids[i] \in S /\ Closed(S) => b \in S
        BY <2>1, <3>2
      <4> QED
        BY <4>1
    <3> QED
      BY <2>2, <3>1, <3>2 DEF BelowNode
  <2>3. ASSUME NEW b \in g[a] PROVE b \in BelowNode(h, g, a)
    <3> DEFINE S == BelowNode(h, g, a)
    <3>1. a \in S
      BY DEF BelowNode
    <3>2. S \subseteq DOMAIN h
      BY <2>1 DEF BelowNode
    <3>3. Closed(S)
      <4> SUFFICES ASSUME NEW c \in S, NEW j \in DOMAIN h[c].kids
                   PROVE  h[c].kids[j] \in S
        OBVIOUS
      <4>1. h[c].kids[j] \in DOMAIN h
        BY <3>2 DEF Layered
      <4>2. CASE c = a
        <5>1. h[c].kids[j] \in g[h[c].kids[j]]
          BY <4>1
        <5> QED
          BY <4>2, <5>1 DEF BelowNode
      <4>3. ASSUME NEW i \in DOMAIN h[a].kids, c \in g[h[a].kids[i]] PROVE h[c].kids[j] \in S
        <5>1. h[c].kids[j] \in g[h[a].kids[i]]
          BY <2>1, <4>1, <4>3
        <5> HIDE DEF g
        <5> QED
          BY <5>1 DEF BelowNode
      <4> QED
        BY <4>2, <4>3 DEF BelowNode
    <3> HIDE DEF S
    <3>4. \A R \in SUBSET DOMAIN h : a \in R /\ Closed(R) => b \in R
      BY <2>3
    <3>5. b \in S
      BY <3>1, <3>2, <3>3, <3>4
    <3> QED
      BY <3>5 DEF S
  <2> HIDE DEF g
  <2> QED
    BY <2>2, <2>3
<1>2. g = [a \in DOMAIN h |-> g[a]]
  OBVIOUS
<1> HIDE DEF g
<1>3. IsBelow(h, g)
  BY <1>1, <1>2 DEF IsBelow
<1> QED
  BY <1>3, Zenon DEF BelowOf

(* lprofT_free reaches every node from a root if every other node is       *)
(* somebody's child: a node that is not reached would have a holder above  *)
(* it that is not reached either, and so on up.                            *)
LEMMA BelowIsAll ==
  ASSUME NEW h, NEW M \in Nat, Layered(h, M), NEW r \in DOMAIN h,
         \A a \in DOMAIN h :
           a = r \/ \E b \in DOMAIN h : \E i \in DOMAIN h[b].kids : h[b].kids[i] = a
  PROVE  BelowOf(h)[r] = DOMAIN h
<1> DEFINE f == BelowOf(h)
           D(n) == {a \in DOMAIN h : h[a].level > M - n}
           T == {n \in Nat : \A a \in D(n) :
                   /\ f[a] \subseteq DOMAIN h
                   /\ \A b \in f[a] : \A i \in DOMAIN h[b].kids : h[b].kids[i] \in f[a]}
<1>1. \A a \in DOMAIN h : f[a] = BelowNode(h, f, a)
  BY BelowExists DEF IsBelow
<1> HIDE DEF f
<1>2. \A a \in DOMAIN h : h[a].level \in Nat /\ h[a].level >= 1 /\ h[a].level <= M
  BY DEF Layered
<1>3. 0 \in T
  BY <1>2
<1>4. ASSUME NEW n \in Nat, n \in T PROVE n + 1 \in T
  <2> SUFFICES ASSUME NEW a \in D(n + 1)
               PROVE  /\ f[a] \subseteq DOMAIN h
                      /\ \A b \in f[a] : \A i \in DOMAIN h[b].kids : h[b].kids[i] \in f[a]
    OBVIOUS
  <2>1. f[a] = BelowNode(h, f, a)
    BY <1>1
  <2>2. ASSUME NEW i \in DOMAIN h[a].kids
        PROVE  /\ h[a].kids[i] \in DOMAIN h /\ h[a].kids[i] \in D(n)
               /\ h[a].kids[i] \in f[h[a].kids[i]]
    <3>1. h[a].kids[i] \in DOMAIN h /\ h[h[a].kids[i]].level = h[a].level + 1
      BY DEF Layered
    <3>2. h[a].level \in Nat /\ h[a].level > M - (n + 1)
      BY <1>2
    <3>3. h[a].kids[i] \in D(n)
      BY <3>1, <3>2
    <3> QED
      BY <1>1, <3>1, <3>3 DEF BelowNode
  <2>3. ASSUME NEW i \in DOMAIN h[a].kids
        PROVE  /\ f[h[a].kids[i]] \subseteq DOMAIN h
               /\ \A b \in f[h[a].kids[i]] : \A j \in DOMAIN h[b].kids : h[b].kids[j] \in f[h[a].kids[i]]
    BY <1>4, <2>2
  <2>4. f[a] \subseteq DOMAIN h
    BY <2>1, <2>3 DEF BelowNode
  <2>5. ASSUME NEW b \in f[a], NEW j \in DOMAIN h[b].kids PROVE h[b].kids[j] \in f[a]
    <3>1. CASE b = a
      BY <2>1, <2>2, <3>1 DEF BelowNode
    <3>2. ASSUME NEW i \in DOMAIN h[a].kids, b \in f[h[a].kids[i]] PROVE h[b].kids[j] \in f[a]
      <4>1. h[b].kids[j] \in f[h[a].kids[i]]
        BY <2>3, <3>2
      <4> QED
        BY <2>1, <4>1 DEF BelowNode
    <3> QED
      BY <2>1, <3>1, <3>2 DEF BelowNode
  <2> QED
    BY <2>4, <2>5
<1> HIDE DEF T
<1>5. M \in T
  BY <1>3, <1>4, NatSetInduction
<1>6. r \in D(M)
  BY <1>2
<1>7. /\ f[r] \subseteq DOMAIN h
      /\ \A b \in f[r] : \A i \in DOMAIN h[b].kids : h[b].kids[i] \in f[r]
  BY <1>5, <1>6 DEF T
<1> DEFINE U == {n \in Nat : \A a \in DOMAIN h : h[a].level <= n => a \in f[r]}
<1>8. 0 \in U
  BY <1>2
<1>9. ASSUME NEW n \in Nat, n \in U PROVE n + 1 \in U
  <2> SUFFICES ASSUME NEW a \in DOMAIN h, h[a].level <= n + 1 PROVE a \in f[r]
    OBVIOUS
  <2>1. CASE a = r
    BY <1>1, <2>1 DEF BelowNode
  <2>2. ASSUME NEW b \in DOMAIN h, NEW i \in DOMAIN h[b].kids, h[b].kids[i] = a PROVE a \in f[r]
    <3>1. h[a].level = h[b].level + 1
      BY <2>2 DEF Layered
    <3>2. h[b].level <= n
      BY <1>2, <3>1
    <3>3. b \in f[r]
      BY <1>9, <3>2
    <3> QED
      BY <1>7, <2>2, <3>3
  <2> QED
    BY <2>1, <2>2
<1> HIDE DEF U
<1>10. M \in U
  BY <1>8, <1>9, NatSetInduction
<1>11. DOMAIN h \subseteq f[r]
  BY <1>2, <1>10 DEF U
<1> QED
  BY <1>7, <1>11 DEF f

(* The nodes S of h correspond by m to nodes of g with the same functions  *)
(* and corresponding children.                                             *)
Corresponds(h, g, S, m) ==
  /\ S \subseteq DOMAIN h
  /\ \A a \in S :
       /\ m[a] \in DOMAIN g
       /\ g[m[a]].fn = h[a].fn
       /\ DOMAIN g[m[a]].kids = DOMAIN h[a].kids
       /\ \A i \in DOMAIN h[a].kids :
            h[a].kids[i] \in S /\ m[h[a].kids[i]] = g[m[a]].kids[i]

(* Nodes that correspond have the same trees, wherever they are.           *)
LEMMA JsonAgrees ==
  ASSUME NEW h, NEW g, NEW M \in Nat, Layered(h, M), Layered(g, M),
         NEW S, NEW m, Corresponds(h, g, S, m)
  PROVE  \A a \in S : JsonOf(g)[m[a]] = JsonOf(h)[a]
<1> DEFINE f == JsonOf(h)
           q == JsonOf(g)
           D(n) == {a \in S : h[a].level > M - n}
           T == {n \in Nat : \A a \in D(n) : q[m[a]] = f[a]}
<1> USE DEF Corresponds
<1>1. \A a \in DOMAIN h : f[a] = JsonNode(h, f, a)
  BY JsonExists DEF IsJson
<1>2. \A a \in DOMAIN g : q[a] = JsonNode(g, q, a)
  BY JsonExists DEF IsJson
<1> HIDE DEF f, q
<1>3. \A a \in S : h[a].level \in Nat /\ h[a].level >= 1 /\ h[a].level <= M
  BY DEF Layered
<1>4. 0 \in T
  BY <1>3
<1>5. ASSUME NEW n \in Nat, n \in T PROVE n + 1 \in T
  <2> SUFFICES ASSUME NEW a \in D(n + 1) PROVE q[m[a]] = f[a]
    OBVIOUS
  <2>1. ASSUME NEW i \in DOMAIN h[a].kids PROVE q[g[m[a]].kids[i]] = f[h[a].kids[i]]
    <3>1. h[a].kids[i] \in S /\ m[h[a].kids[i]] = g[m[a]].kids[i] /\ a \in DOMAIN h
      OBVIOUS
    <3>2. h[h[a].kids[i]].level = h[a].level + 1
      BY <3>1 DEF Layered
    <3>3. h[a].kids[i] \in D(n)
      BY <1>3, <3>1, <3>2
    <3> QED
      BY <1>5, <3>1, <3>3
  <2>2. JsonNode(g, q, m[a]) = JsonNode(h, f, a)
    BY <2>1 DEF JsonNode
  <2> QED
    BY <1>1, <1>2, <2>2
<1> HIDE DEF T
<1>6. M \in T
  BY <1>4, <1>5, NatSetInduction
<1>7. \A a \in S : a \in D(M)
  BY <1>3
<1> QED
  BY <1>6, <1>7 DEF T, f, q
-----------------------------------------------------------------------------
(* What lprofT_addchild does, with m[a] the new address of the node at a.  *)
Moved(m, n) ==
  /\ node' = brk' /\ root' = root /\ brk' \in Nat /\ brk' > brk
  /\ m[node] = node
  /\ \A a \in DOMAIN heap : m[a] \in 1 .. brk' - 1
  /\ \A a, b \in DOMAIN heap : m[a] = m[b] => a = b
  /\ \A a \in DOMAIN heap : m[a] = a \/ \E i \in DOMAIN heap[node].kids : heap[node].kids[i] = a
  /\ DOMAIN heap' = {m[a] : a \in DOMAIN heap} \cup {brk'}
  /\ heap'[brk'] = [n EXCEPT !.parent = node]
  /\ \A a \in DOMAIN heap : a # node => heap'[m[a]] = heap[a]
  /\ heap'[node] = [heap[node] EXCEPT !.kids =
                      Append([i \in 1 .. Len(heap[node].kids) |-> m[heap[node].kids[i]]], brk')]

(* Whether realloc moves the array or not, there is such an m, and it gives*)
(* no two nodes the same address.                                          *)
LEMMA AddChildMoves ==
  ASSUME NodesOK, KidsOK, brk \in Nat, node \in DOMAIN heap, NEW n, AddChild(node, n)
  PROVE  \E m : Moved(m, n)
<1> DEFINE K == heap[node].kids
           L == Len(K)
           new == brk + L + 1
<1>1. node # Null /\ node <= brk /\ heap[node] \in NodeRecord
  BY DEF NodesOK, Null
<1>2. K \in Seq(Nat) /\ L \in Nat /\ DOMAIN K = 1 .. L
  BY <1>1 DEF NodeRecord
<1>3. \A i \in 1 .. L : K[i] \in DOMAIN heap /\ K[i] # node
  BY <1>1, <1>2 DEF KidsOK, NodeRecord
<1>4. \A i, j \in 1 .. L : K[i] = K[j] => i = j
  BY <1>2 DEF KidsOK
<1>5. \A a \in DOMAIN heap : a \in Nat /\ 1 <= a /\ a <= brk
  BY DEF NodesOK
<1>6. PICK moved \in BOOLEAN :
        LET where == [i \in 1 .. L |-> IF moved THEN brk + i ELSE K[i]]
        IN /\ heap' = [a \in (DOMAIN heap \ Range(K)) \cup Range(where) \cup {new} |->
                          IF a = new THEN [n EXCEPT !.parent = node]
                          ELSE IF a = node THEN [heap[node] EXCEPT !.kids = Append(where, new)]
                          ELSE IF a \in Range(where)
                               THEN heap[K[CHOOSE i \in DOMAIN where : where[i] = a]]
                          ELSE heap[a]]
           /\ node' = new /\ brk' = new
           /\ root' = root
  BY <1>1, Zenon DEF AddChild
<1> DEFINE where == [i \in 1 .. L |-> IF moved THEN brk + i ELSE K[i]]
           old == [n EXCEPT !.parent = node]
           m == [a \in DOMAIN heap |->
                   IF \E i \in 1 .. L : K[i] = a THEN where[CHOOSE i \in 1 .. L : K[i] = a] ELSE a]
<1>7. /\ DOMAIN heap' = (DOMAIN heap \ Range(K)) \cup Range(where) \cup {new}
      /\ \A a \in DOMAIN heap' :
           heap'[a] = IF a = new THEN old
                          ELSE IF a = node THEN [heap[node] EXCEPT !.kids = Append(where, new)]
                          ELSE IF a \in Range(where)
                               THEN heap[K[CHOOSE i \in DOMAIN where : where[i] = a]]
                          ELSE heap[a]
      /\ node' = new /\ brk' = new /\ root' = root
  BY <1>6
<1>8. \A i \in 1 .. L : m[K[i]] = where[i]
  BY <1>3, <1>4
<1>9. \A a \in DOMAIN heap : (~ \E i \in 1 .. L : K[i] = a) => m[a] = a
  OBVIOUS
<1>10. \A i \in 1 .. L : /\ where[i] \in Nat /\ 1 <= where[i] /\ where[i] < new
                         /\ where[i] = brk + i \/ where[i] = K[i]
  BY <1>2, <1>3, <1>5
<1>11. \A i, j \in 1 .. L : where[i] = where[j] => i = j
  BY <1>2, <1>4, <1>3, <1>5
<1>12. \A i \in 1 .. L : \A a \in DOMAIN heap : where[i] = a => K[i] = a
  BY <1>2, <1>3, <1>5
<1>13. DOMAIN where = 1 .. L /\ Range(where) = {where[i] : i \in 1 .. L} /\ Range(K) = {K[i] : i \in 1 .. L}
  BY <1>2 DEF Range
<1>14. new \in Nat /\ new > brk
  BY <1>2
<1> HIDE DEF where, new, m, old
<1>15. m[node] = node
  BY <1>3, <1>9
<1>16. \A a \in DOMAIN heap : m[a] \in 1 .. new - 1
  <2> SUFFICES ASSUME NEW a \in DOMAIN heap PROVE m[a] \in 1 .. new - 1
    OBVIOUS
  <2>1. CASE \E i \in 1 .. L : K[i] = a
    BY <1>8, <1>10, <1>14, <2>1
  <2>2. CASE ~ \E i \in 1 .. L : K[i] = a
    BY <1>9, <1>5, <1>14, <2>2
  <2> QED
    BY <2>1, <2>2
<1>17. \A a, b \in DOMAIN heap : m[a] = m[b] => a = b
  <2> SUFFICES ASSUME NEW a \in DOMAIN heap, NEW b \in DOMAIN heap, m[a] = m[b] PROVE a = b
    OBVIOUS
  <2>1. CASE (\E i \in 1 .. L : K[i] = a) /\ \E i \in 1 .. L : K[i] = b
    BY <1>8, <1>11, <2>1
  <2>2. CASE (\E i \in 1 .. L : K[i] = a) /\ ~ \E i \in 1 .. L : K[i] = b
    BY <1>8, <1>9, <1>12, <2>2
  <2>3. CASE (\E i \in 1 .. L : K[i] = b) /\ ~ \E i \in 1 .. L : K[i] = a
    BY <1>8, <1>9, <1>12, <2>3
  <2>4. CASE (~ \E i \in 1 .. L : K[i] = b) /\ ~ \E i \in 1 .. L : K[i] = a
    BY <1>9, <2>4
  <2> QED
    BY <2>1, <2>2, <2>3, <2>4
<1>18. \A a \in DOMAIN heap : m[a] = a \/ \E i \in DOMAIN heap[node].kids : heap[node].kids[i] = a
  BY <1>2, <1>9
<1>19. DOMAIN heap' = {m[a] : a \in DOMAIN heap} \cup {new}
  <2>1. (DOMAIN heap \ Range(K)) \cup Range(where) \subseteq {m[a] : a \in DOMAIN heap}
    <3>1. ASSUME NEW a \in DOMAIN heap, a \notin Range(K) PROVE m[a] = a
      BY <1>9, <1>13, <3>1
    <3>2. ASSUME NEW i \in 1 .. L PROVE where[i] \in {m[a] : a \in DOMAIN heap}
      BY <1>3, <1>8
    <3> QED
      BY <1>13, <3>1, <3>2
  <2>2. {m[a] : a \in DOMAIN heap} \subseteq (DOMAIN heap \ Range(K)) \cup Range(where)
    <3> SUFFICES ASSUME NEW a \in DOMAIN heap PROVE m[a] \in (DOMAIN heap \ Range(K)) \cup Range(where)
      OBVIOUS
    <3>1. CASE \E i \in 1 .. L : K[i] = a
      BY <1>8, <1>13, <3>1
    <3>2. CASE ~ \E i \in 1 .. L : K[i] = a
      BY <1>9, <1>13, <3>2
    <3> QED
      BY <3>1, <3>2
  <2> QED
    BY <1>7, <2>1, <2>2
<1>20. heap'[new] = old
  BY <1>7
<1>21. ASSUME NEW a \in DOMAIN heap, a # node PROVE heap'[m[a]] = heap[a]
  <2>1. m[a] \in DOMAIN heap' /\ m[a] # new /\ m[a] # node
    BY <1>14, <1>15, <1>16, <1>17, <1>19, <1>21
  <2>2. CASE \E i \in 1 .. L : K[i] = a
    <3>1. PICK i \in 1 .. L : K[i] = a
      BY <2>2
    <3>2. m[a] = where[i]
      BY <1>8, <3>1
    <3>3. m[a] \in Range(where)
      BY <1>13, <3>2
    <3>4. (CHOOSE j \in DOMAIN where : where[j] = m[a]) = i
      BY <1>11, <1>13, <3>2
    <3> QED
      BY <1>7, <2>1, <3>1, <3>3, <3>4
  <2>3. CASE ~ \E i \in 1 .. L : K[i] = a
    <3>1. m[a] = a
      BY <1>9, <2>3
    <3>2. a \notin Range(where)
      BY <1>12, <1>13, <2>3
    <3> QED
      BY <1>7, <2>1, <3>1, <3>2
  <2> QED
    BY <2>2, <2>3
<1>22. heap'[node] = [heap[node] EXCEPT !.kids = Append([i \in 1 .. L |-> m[K[i]]], new)]
  <2>1. node \in DOMAIN heap' /\ node # new
    BY <1>1, <1>5, <1>14, <1>15, <1>19
  <2>2. where = [i \in 1 .. L |-> m[K[i]]]
    BY <1>8 DEF where
  <2> QED
    BY <1>7, <2>1, <2>2
<1>23. Moved(m, n)
  BY <1>7, <1>14, <1>15, <1>16, <1>17, <1>18, <1>19, <1>20, <1>21, <1>22, Zenon DEF Moved, old
<1> QED
  BY <1>23

(* The nodes keep what they hold, and their children move with the array. *)
LEMMA MovedNodes ==
  ASSUME NodesOK, KidsOK, node \in DOMAIN heap, NEW n, NEW m, Moved(m, n)
  PROVE  /\ \A a \in DOMAIN heap :
              /\ heap'[m[a]] \in NodeRecord
              /\ heap'[m[a]].fn = heap[a].fn /\ heap'[m[a]].level = heap[a].level
              /\ heap'[m[a]].parent = heap[a].parent /\ heap'[m[a]].ended = heap[a].ended
              /\ a # node => DOMAIN heap'[m[a]].kids = DOMAIN heap[a].kids
              /\ \A i \in DOMAIN heap[a].kids :
                   i \in DOMAIN heap'[m[a]].kids /\ heap'[m[a]].kids[i] = m[heap[a].kids[i]]
         /\ DOMAIN heap'[node].kids = DOMAIN heap[node].kids \cup {Len(heap[node].kids) + 1}
         /\ Len(heap'[node].kids) = Len(heap[node].kids) + 1
         /\ heap'[node].kids[Len(heap[node].kids) + 1] = brk'
<1> DEFINE K == heap[node].kids
           moved == [i \in 1 .. Len(K) |-> m[K[i]]]
<1>1. /\ m[node] = node /\ brk' \in Nat
      /\ \A a \in DOMAIN heap : m[a] \in 1 .. brk' - 1
      /\ \A a \in DOMAIN heap : a # node => heap'[m[a]] = heap[a]
      /\ heap'[node] = [heap[node] EXCEPT !.kids = Append(moved, brk')]
      /\ \A a \in DOMAIN heap : m[a] = a \/ \E i \in DOMAIN K : K[i] = a
  BY DEF Moved
<1>2. \A a \in DOMAIN heap : heap[a] \in NodeRecord
  BY DEF NodesOK
<1>3. K \in Seq(Nat) /\ Len(K) \in Nat /\ DOMAIN K = 1 .. Len(K)
  BY <1>2 DEF NodeRecord
<1>4. \A i \in 1 .. Len(K) : m[K[i]] \in Nat
  BY <1>1, <1>3 DEF KidsOK
<1>5. moved \in Seq(Nat) /\ Len(moved) = Len(K)
  BY <1>3, <1>4
<1>6. \A i \in 1 .. Len(K) : moved[i] = m[K[i]]
  OBVIOUS
<1> HIDE DEF moved
<1> DEFINE new == Append(moved, brk')
<1>7. /\ new \in Seq(Nat) /\ Len(new) = Len(K) + 1
      /\ \A i \in 1 .. Len(K) : new[i] = m[K[i]]
      /\ new[Len(K) + 1] = brk'
  BY <1>1, <1>3, <1>5, <1>6
<1> HIDE DEF new
<1>8. DOMAIN new = DOMAIN K \cup {Len(K) + 1}
  <2>1. DOMAIN new = 1 .. (Len(K) + 1)
    BY <1>7
  <2>2. 1 .. (Len(K) + 1) = (1 .. Len(K)) \cup {Len(K) + 1}
    BY <1>3
  <2> QED
    BY <1>3, <2>1, <2>2
<1>9. /\ heap'[node].kids = new /\ heap'[node].fn = heap[node].fn
      /\ heap'[node].level = heap[node].level /\ heap'[node].parent = heap[node].parent
      /\ heap'[node].ended = heap[node].ended /\ heap'[node] \in NodeRecord
  <2>1. heap'[node] = [heap[node] EXCEPT !.kids = new]
    BY <1>1 DEF new
  <2> QED
    BY <1>2, <1>7, <2>1 DEF NodeRecord
<1>10. ASSUME NEW a \in DOMAIN heap, a # node, NEW i \in DOMAIN heap[a].kids
       PROVE  m[heap[a].kids[i]] = heap[a].kids[i]
  <2>1. heap[a].kids[i] \in DOMAIN heap
    BY DEF KidsOK
  <2>2. ~ \E j \in DOMAIN K : K[j] = heap[a].kids[i]
    BY <1>10 DEF KidsOK
  <2> QED
    BY <1>1, <2>1, <2>2
<1>11. ASSUME NEW a \in DOMAIN heap, a # node
       PROVE  /\ heap'[m[a]] = heap[a]
              /\ \A i \in DOMAIN heap[a].kids : heap'[m[a]].kids[i] = m[heap[a].kids[i]]
  BY <1>1, <1>10, <1>11
<1>12. ASSUME NEW a \in DOMAIN heap, a = node
       PROVE  \A i \in DOMAIN heap[a].kids :
                i \in DOMAIN heap'[m[a]].kids /\ heap'[m[a]].kids[i] = m[heap[a].kids[i]]
  BY <1>1, <1>3, <1>7, <1>8, <1>9, <1>12
<1>13. ASSUME NEW a \in DOMAIN heap
       PROVE  /\ heap'[m[a]] \in NodeRecord
              /\ heap'[m[a]].fn = heap[a].fn /\ heap'[m[a]].level = heap[a].level
              /\ heap'[m[a]].parent = heap[a].parent /\ heap'[m[a]].ended = heap[a].ended
              /\ a # node => DOMAIN heap'[m[a]].kids = DOMAIN heap[a].kids
              /\ \A i \in DOMAIN heap[a].kids :
                   i \in DOMAIN heap'[m[a]].kids /\ heap'[m[a]].kids[i] = m[heap[a].kids[i]]
  <2>1. CASE a = node
    BY <1>1, <1>9, <1>12, <2>1
  <2>2. CASE a # node
    BY <1>2, <1>11, <2>2
  <2> QED
    BY <2>1, <2>2
<1> QED
  BY <1>7, <1>8, <1>9, <1>13

(* Every node on the path stays where it is. *)
LEMMA PathStays ==
  ASSUME NodesOK, KidsOK, level \in Nat \ {0}, NEW p \in [1 .. level -> DOMAIN heap], OnPath(p),
         NEW n, NEW m, Moved(m, n)
  PROVE  \A i \in 1 .. level : m[p[i]] = p[i]
<1> SUFFICES ASSUME NEW i \in 1 .. level PROVE m[p[i]] = p[i]
  OBVIOUS
<1>1. p[level] = node /\ level \in 1 .. level /\ p[i] \in DOMAIN heap /\ node \in DOMAIN heap
  BY DEF OnPath
<1>2. heap[p[i]].level = i /\ heap[node].level = level
  BY <1>1 DEF OnPath
<1>3. \A j \in DOMAIN heap[node].kids : heap[heap[node].kids[j]].level = level + 1
  BY <1>1, <1>2 DEF KidsOK
<1>4. ~ \E j \in DOMAIN heap[node].kids : heap[node].kids[j] = p[i]
  BY <1>2, <1>3
<1> QED
  BY <1>1, <1>4 DEF Moved

(* A call inside a call keeps the invariant: the path gets the new node,   *)
(* and the nodes on it stay where they are.                                *)
LEMMA AddChildStep ==
  ASSUME NodesOK, KidsOK, HeldByRoot, node \in Nat, root # Null, level \in Nat \ {0},
         level < MaxDepth, brk \in Nat,
         NEW p \in [1 .. level -> DOMAIN heap], OnPath(p),
         NEW f \in Fun, AddChild(node, NewNode(f, level + 1)),
         level' = level + 1, stack' = Append(stack, [fn |-> f, level |-> level + 1]),
         stack \in Seq(Record), level = Len(stack)
  PROVE  /\ TreeInv' /\ root' # Null
         /\ \E q \in [1 .. level' -> DOMAIN heap'] :
              OnPath(q)' /\ q[level'] = brk' /\ \A i \in 1 .. level : q[i] = p[i]
<1> DEFINE n == NewNode(f, level + 1)
           x == brk'
           K == heap[node].kids
<1>1. p[level] = node /\ p[1] = root /\ node \in DOMAIN heap /\ root \in DOMAIN heap /\ level \in 1 .. level
      /\ 1 \in 1 .. level
  BY DEF OnPath
<1>2. PICK m : Moved(m, n)
  BY <1>1, AddChildMoves
<1>3. /\ node' = x /\ root' = root /\ x \in Nat /\ x > brk
      /\ m[node] = node
      /\ \A a \in DOMAIN heap : m[a] \in 1 .. x - 1
      /\ \A a, b \in DOMAIN heap : m[a] = m[b] => a = b
      /\ DOMAIN heap' = {m[a] : a \in DOMAIN heap} \cup {x}
  BY <1>2 DEF Moved
<1>4. heap'[x] = [fn |-> f, level |-> level + 1, parent |-> node, kids |-> <<>>, ended |-> FALSE]
  BY <1>2 DEF Moved, NewNode
<1>m. /\ \A a \in DOMAIN heap :
              /\ heap'[m[a]] \in NodeRecord
              /\ heap'[m[a]].fn = heap[a].fn /\ heap'[m[a]].level = heap[a].level
              /\ heap'[m[a]].parent = heap[a].parent /\ heap'[m[a]].ended = heap[a].ended
              /\ a # node => DOMAIN heap'[m[a]].kids = DOMAIN heap[a].kids
              /\ \A i \in DOMAIN heap[a].kids :
                   i \in DOMAIN heap'[m[a]].kids /\ heap'[m[a]].kids[i] = m[heap[a].kids[i]]
      /\ DOMAIN heap'[node].kids = DOMAIN K \cup {Len(K) + 1}
      /\ Len(heap'[node].kids) = Len(K) + 1
      /\ heap'[node].kids[Len(K) + 1] = x
  BY <1>1, <1>2, MovedNodes
<1>5. \A a \in DOMAIN heap :
         /\ heap'[m[a]] \in NodeRecord
         /\ heap'[m[a]].fn = heap[a].fn /\ heap'[m[a]].level = heap[a].level
         /\ heap'[m[a]].parent = heap[a].parent /\ heap'[m[a]].ended = heap[a].ended
  BY <1>m
<1>c. \A a \in DOMAIN heap : \A i \in DOMAIN heap[a].kids :
         i \in DOMAIN heap'[m[a]].kids /\ heap'[m[a]].kids[i] = m[heap[a].kids[i]]
  BY <1>m
<1>d. \A a \in DOMAIN heap : a # node => DOMAIN heap'[m[a]].kids = DOMAIN heap[a].kids
  BY <1>m
<1>e. /\ DOMAIN heap'[node].kids = DOMAIN K \cup {Len(K) + 1}
      /\ Len(heap'[node].kids) = Len(K) + 1
      /\ heap'[node].kids[Len(K) + 1] = x
  BY <1>m
<1> HIDE DEF n, x
<1>6. \A i \in 1 .. level : m[p[i]] = p[i]
  <2>1. \A a \in DOMAIN heap : m[a] = a \/ \E j \in DOMAIN K : K[j] = a
    BY <1>2 DEF Moved
  <2>2. \A j \in DOMAIN K : heap[K[j]].level = level + 1
    <3>1. \A j \in DOMAIN K : heap[K[j]].level = heap[node].level + 1
      BY <1>1 DEF KidsOK
    <3>2. heap[p[level]].level = level
      BY <1>1 DEF OnPath
    <3> QED
      BY <1>1, <3>1, <3>2
  <2>3. \A i \in 1 .. level : p[i] \in DOMAIN heap /\ heap[p[i]].level = i /\ i # level + 1
    BY DEF OnPath
  <2> HIDE DEF K
  <2>4. ASSUME NEW i \in 1 .. level PROVE m[p[i]] = p[i]
    <3>1. \A j \in DOMAIN K : K[j] # p[i]
      BY <2>2, <2>3
    <3> QED
      BY <2>1, <2>3, <3>1
  <2> QED
    BY <2>4
<1>7. /\ heap'[x] \in NodeRecord /\ heap'[x].fn = f /\ heap'[x].level = level + 1
      /\ heap'[x].parent = node /\ heap'[x].kids = <<>> /\ ~heap'[x].ended
  <2>1. <<>> \in Seq(Nat)
    OBVIOUS
  <2> QED
    BY <1>4, <2>1 DEF NodeRecord
<1>8. \A b \in DOMAIN heap' : b = x \/ \E a \in DOMAIN heap : b = m[a]
  BY <1>3
<1>9. \A a \in DOMAIN heap : m[a] # x /\ m[a] \in DOMAIN heap'
  BY <1>3
<1>10. NodesOK'
  <2> SUFFICES ASSUME NEW b \in DOMAIN heap'
               PROVE  b \in 1 .. x /\ heap'[b] \in NodeRecord /\ heap'[b].level \in 1 .. MaxDepth
    BY DEF NodesOK, x
  <2>1. CASE b = x
    BY <1>3, <1>7, <2>1, CallTreeAssumption
  <2>2. ASSUME NEW a \in DOMAIN heap, b = m[a]
        PROVE  b \in 1 .. x /\ heap'[b] \in NodeRecord /\ heap'[b].level \in 1 .. MaxDepth
    <3>1. m[a] \in 1 .. x - 1 /\ heap'[m[a]] \in NodeRecord /\ heap'[m[a]].level = heap[a].level
      BY <1>3, <1>5
    <3>2. heap[a].level \in 1 .. MaxDepth
      BY DEF NodesOK
    <3> QED
      BY <1>3, <2>2, <3>1, <3>2
  <2> QED
    BY <1>8, <2>1, <2>2
<1>k. \A b \in DOMAIN heap' : \A i \in DOMAIN heap'[b].kids :
         \/ b = node /\ i = Len(K) + 1 /\ heap'[b].kids[i] = x
         \/ \E a \in DOMAIN heap : /\ b = m[a] /\ i \in DOMAIN heap[a].kids
                                   /\ heap'[b].kids[i] = m[heap[a].kids[i]]
                                   /\ heap[a].kids[i] \in DOMAIN heap
  <2> SUFFICES ASSUME NEW b \in DOMAIN heap', NEW i \in DOMAIN heap'[b].kids
               PROVE \/ b = node /\ i = Len(K) + 1 /\ heap'[b].kids[i] = x
                     \/ \E a \in DOMAIN heap : /\ b = m[a] /\ i \in DOMAIN heap[a].kids
                                   /\ heap'[b].kids[i] = m[heap[a].kids[i]]
                                   /\ heap[a].kids[i] \in DOMAIN heap
    OBVIOUS
  <2>1. b # x
    BY <1>7
  <2>2. PICK a \in DOMAIN heap : b = m[a]
    BY <1>8, <2>1
  <2>3. CASE i \in DOMAIN heap[a].kids
    <3>1. heap'[b].kids[i] = m[heap[a].kids[i]]
      BY <1>c, <2>2, <2>3
    <3>2. heap[a].kids[i] \in DOMAIN heap
      BY <2>3 DEF KidsOK
    <3> QED
      BY <2>2, <2>3, <3>1, <3>2
  <2>4. CASE i \notin DOMAIN heap[a].kids
    <3>1. a = node
      BY <1>d, <2>2, <2>4
    <3>2. b = node
      BY <1>3, <2>2, <3>1
    <3> QED
      BY <1>e, <2>4, <3>1, <3>2
  <2> QED
    BY <2>3, <2>4
<1>11. KidsOK'
  <2> SUFFICES ASSUME NEW b \in DOMAIN heap', NEW i \in DOMAIN heap'[b].kids
               PROVE  /\ heap'[b].kids[i] \in DOMAIN heap'
                      /\ heap'[heap'[b].kids[i]].level = heap'[b].level + 1
                      /\ heap'[b].ended => heap'[heap'[b].kids[i]].ended
                      /\ \A c \in DOMAIN heap' : \A j \in DOMAIN heap'[c].kids :
                           heap'[b].kids[i] = heap'[c].kids[j] => b = c /\ i = j
    BY DEF KidsOK
  <2>1. CASE b = node /\ i = Len(K) + 1 /\ heap'[b].kids[i] = x
    <3>1. heap'[node].level = level /\ ~heap'[node].ended
      <4>1. heap[node].level = level /\ ~heap[node].ended
        BY <1>1 DEF OnPath
      <4>2. heap'[m[node]].level = heap[node].level /\ heap'[m[node]].ended = heap[node].ended
        BY <1>1, <1>5
      <4> QED
        BY <1>3, <4>1, <4>2
    <3>2. ASSUME NEW c \in DOMAIN heap', NEW j \in DOMAIN heap'[c].kids, x = heap'[c].kids[j]
          PROVE  c = node /\ j = Len(K) + 1
      BY <1>9, <1>k, <3>2
    <3> QED
      BY <1>3, <1>7, <2>1, <3>1, <3>2
  <2>2. ASSUME NEW a \in DOMAIN heap, b = m[a], i \in DOMAIN heap[a].kids,
               heap'[b].kids[i] = m[heap[a].kids[i]], heap[a].kids[i] \in DOMAIN heap
        PROVE  /\ heap'[b].kids[i] \in DOMAIN heap'
               /\ heap'[heap'[b].kids[i]].level = heap'[b].level + 1
               /\ heap'[b].ended => heap'[heap'[b].kids[i]].ended
               /\ \A c \in DOMAIN heap' : \A j \in DOMAIN heap'[c].kids :
                    heap'[b].kids[i] = heap'[c].kids[j] => b = c /\ i = j
    <3>1. /\ heap[heap[a].kids[i]].level = heap[a].level + 1
          /\ heap[a].ended => heap[heap[a].kids[i]].ended
      BY <2>2 DEF KidsOK
    <3>2. /\ heap'[heap'[b].kids[i]].level = heap[heap[a].kids[i]].level
          /\ heap'[heap'[b].kids[i]].ended = heap[heap[a].kids[i]].ended
          /\ heap'[b].level = heap[a].level /\ heap'[b].ended = heap[a].ended
      BY <1>5, <2>2
    <3>3. ASSUME NEW c \in DOMAIN heap', NEW j \in DOMAIN heap'[c].kids, heap'[b].kids[i] = heap'[c].kids[j]
          PROVE  b = c /\ i = j
      <4>1. heap'[c].kids[j] # x
        BY <1>9, <2>2, <3>3
      <4>2. PICK e \in DOMAIN heap : c = m[e] /\ j \in DOMAIN heap[e].kids /\ heap'[c].kids[j] = m[heap[e].kids[j]]
                                      /\ heap[e].kids[j] \in DOMAIN heap
        BY <1>k, <4>1
      <4>3. heap[a].kids[i] = heap[e].kids[j]
        BY <1>3, <2>2, <3>3, <4>2
      <4>4. a = e /\ i = j
        BY <2>2, <4>2, <4>3 DEF KidsOK
      <4> QED
        BY <2>2, <4>2, <4>4
    <3>4. heap'[b].kids[i] \in DOMAIN heap'
      BY <1>9, <2>2
    <3> QED
      BY <3>1, <3>2, <3>3, <3>4
  <2> QED
    BY <1>k, <2>1, <2>2
<1>12. HeldByRoot'
  <2> SUFFICES ASSUME NEW b \in DOMAIN heap', b # root
               PROVE  \E c \in DOMAIN heap' : \E i \in DOMAIN heap'[c].kids : heap'[c].kids[i] = b
    BY <1>3 DEF HeldByRoot
  <2>1. CASE b = x
    BY <1>1, <1>3, <1>e, <1>9, <2>1
  <2>2. ASSUME NEW a \in DOMAIN heap, b = m[a]
        PROVE  \E c \in DOMAIN heap' : \E i \in DOMAIN heap'[c].kids : heap'[c].kids[i] = b
    <3>1. a # root
      BY <1>1, <1>6, <2>2
    <3>2. PICK e \in DOMAIN heap : \E i \in DOMAIN heap[e].kids : heap[e].kids[i] = a
      BY <3>1 DEF HeldByRoot
    <3>3. PICK i \in DOMAIN heap[e].kids : heap[e].kids[i] = a
      BY <3>2
    <3> QED
      BY <1>c, <1>9, <2>2, <3>3
  <2> QED
    BY <1>8, <2>1, <2>2
<1>q. PICK q \in [1 .. level + 1 -> DOMAIN heap'] :
        /\ \A i \in 1 .. level : q[i] = p[i] /\ p[i] \in DOMAIN heap /\ m[p[i]] = p[i]
        /\ q[level + 1] = x
  <2> DEFINE q == [i \in 1 .. level + 1 |-> IF i = level + 1 THEN x ELSE p[i]]
  <2>1. \A i \in 1 .. level : p[i] \in DOMAIN heap /\ m[p[i]] = p[i] /\ p[i] \in DOMAIN heap'
    <3> SUFFICES ASSUME NEW i \in 1 .. level
                 PROVE  p[i] \in DOMAIN heap /\ m[p[i]] = p[i] /\ p[i] \in DOMAIN heap'
      OBVIOUS
    <3>1. p[i] \in DOMAIN heap
      OBVIOUS
    <3> QED
      BY <1>6, <1>9, <3>1
  <2>2. x \in DOMAIN heap'
    BY <1>3
  <2>3. q \in [1 .. level + 1 -> DOMAIN heap']
    BY <2>1, <2>2
  <2>4. \A i \in 1 .. level : q[i] = p[i]
    OBVIOUS
  <2>5. q[level + 1] = x
    OBVIOUS
  <2> HIDE DEF q
  <2> QED
    BY <2>1, <2>3, <2>4, <2>5
<1>13. OnPath(q)'
  <2>1. q[1] = root' /\ q[level'] = node'
    BY <1>1, <1>3, <1>q
  <2>2. heap'[root'].parent = Null
    <3>1. m[p[1]] = p[1]
      BY <1>1, <1>6
    <3>2. heap'[m[root]].parent = heap[root].parent
      BY <1>1, <1>5
    <3>3. heap[root].parent = Null
      BY DEF OnPath
    <3> QED
      BY <1>1, <1>3, <3>1, <3>2, <3>3
  <2>3. \A i \in 1 .. level' :
           heap'[q[i]].level = i /\ heap'[q[i]].fn = stack'[i].fn /\ ~heap'[q[i]].ended
    <3> SUFFICES ASSUME NEW i \in 1 .. level + 1
                 PROVE  heap'[q[i]].level = i /\ heap'[q[i]].fn = stack'[i].fn /\ ~heap'[q[i]].ended
      OBVIOUS
    <3>1. CASE i = level + 1
      <4>1. stack'[i].fn = f
        BY <3>1
      <4> QED
        BY <1>7, <1>q, <3>1, <4>1
    <3>2. CASE i # level + 1
      <4>1. i \in 1 .. level
        BY <3>2
      <4>2. stack'[i] = stack[i]
        BY <4>1
      <4>3. heap[p[i]].level = i /\ heap[p[i]].fn = stack[i].fn /\ ~heap[p[i]].ended
        BY <4>1 DEF OnPath
      <4>4. q[i] = p[i] /\ p[i] \in DOMAIN heap /\ m[p[i]] = p[i]
        BY <1>q, <4>1
      <4>5. /\ heap'[m[p[i]]].fn = heap[p[i]].fn /\ heap'[m[p[i]]].level = heap[p[i]].level
            /\ heap'[m[p[i]]].ended = heap[p[i]].ended
        BY <1>5, <4>4
      <4> QED
        BY <4>2, <4>3, <4>4, <4>5
    <3> QED
      BY <3>1, <3>2
  <2>4. ASSUME NEW i \in 2 .. level'
        PROVE  /\ heap'[q[i]].parent = q[i - 1]
               /\ heap'[q[i - 1]].kids # <<>> /\ Last(heap'[q[i - 1]].kids) = q[i]
    <3>1. CASE i = level + 1
      <4>1. q[i] = x /\ q[i - 1] = node
        BY <1>1, <1>q, <3>1
      <4>2. heap'[node] \in NodeRecord
        BY <1>1, <1>3, <1>5
      <4>3. Len(heap'[node].kids) \in Nat
        BY <4>2 DEF NodeRecord
      <4>4. Last(heap'[node].kids) = x
        BY <1>e DEF Last
      <4>5. heap'[node].kids # <<>>
        BY <1>e, <4>2
      <4> QED
        BY <1>7, <4>1, <4>4, <4>5
    <3>2. CASE i # level + 1
      <4>1. i \in 2 .. level /\ i \in 1 .. level /\ i - 1 \in 1 .. level /\ i - 1 # level /\ level \in 1 .. level
        BY <3>2
      <4>2. /\ heap[p[i]].parent = p[i - 1]
            /\ heap[p[i - 1]].kids # <<>> /\ Last(heap[p[i - 1]].kids) = p[i]
            /\ heap[p[i - 1]].level = i - 1 /\ heap[node].level = level
        BY <1>1, <4>1 DEF OnPath
      <4>3. p[i - 1] # node
        BY <4>1, <4>2
      <4>4. heap'[p[i - 1]] = heap[p[i - 1]]
        BY <1>2, <1>q, <4>1, <4>3 DEF Moved
      <4>5. q[i] = p[i] /\ q[i - 1] = p[i - 1] /\ p[i] \in DOMAIN heap /\ m[p[i]] = p[i]
        BY <1>q, <4>1
      <4>6. heap'[m[p[i]]].parent = heap[p[i]].parent
        BY <1>5, <4>5
      <4> QED
        BY <4>2, <4>4, <4>5, <4>6
    <3> QED
      BY <3>1, <3>2
  <2>5. ASSUME NEW b \in DOMAIN heap', ~heap'[b].ended PROVE \E i \in 1 .. level' : b = q[i]
    <3>1. CASE b = x
      BY <1>q, <3>1
    <3>2. ASSUME NEW a \in DOMAIN heap, b = m[a] PROVE \E i \in 1 .. level' : b = q[i]
      <4>1. ~heap[a].ended
        BY <1>5, <2>5, <3>2
      <4>2. PICK i \in 1 .. level : a = p[i]
        BY <4>1 DEF OnPath
      <4>3. b = q[i] /\ i \in 1 .. level'
        BY <1>q, <3>2, <4>2
      <4> QED
        BY <4>3
    <3> QED
      BY <1>8, <3>1, <3>2
  <2> QED
    BY <2>1, <2>2, <2>3, <2>4, <2>5 DEF OnPath
<1>14. q \in [1 .. level' -> DOMAIN heap']
  OBVIOUS
<1>15. root' # Null /\ node' \in Nat /\ brk' \in Nat
  BY <1>3 DEF x
<1>16. TreeInv'
  BY <1>10, <1>11, <1>12, <1>13, <1>14, <1>15 DEF TreeInv
<1>17. q[level'] = brk' /\ \A i \in 1 .. level : q[i] = p[i]
  BY <1>q DEF x
<1> QED
  BY <1>13, <1>14, <1>15, <1>16, <1>17
-----------------------------------------------------------------------------
(* The invariant makes the recursions of the model end.                    *)
LEMMA HeapIsLayered == NodesOK /\ KidsOK => Layered(heap, MaxDepth)
BY DEF NodesOK, KidsOK, Layered

(* Reachable is the recursion the lemmas are about.                        *)
LEMMA BelowMeaning == Reachable = IF root = Null THEN {} ELSE BelowOf(heap)[root]
BY DEF Reachable, BelowOf, IsBelow, BelowNode

(* What the tree holds is what lprofT_free reaches.                        *)
LEMMA ReachableIsAll ==
  ASSUME LevelInv, TreeInv
  PROVE  Reachable = DOMAIN heap
<1>1. CASE root = Null
  BY <1>1, BelowMeaning DEF TreeInv
<1>2. CASE root # Null
  <2>1. PICK p \in [1 .. level -> DOMAIN heap] : OnPath(p)
    BY <1>2 DEF TreeInv
  <2>2. level \in Nat /\ level >= 1
    BY <1>2 DEF LevelInv, StackTypeOK, LevelIsDepth
  <2>3. 1 \in 1 .. level
    BY <2>2
  <2>4. root \in DOMAIN heap
    BY <2>1, <2>3 DEF OnPath
  <2>5. Layered(heap, MaxDepth) /\ MaxDepth \in Nat
    BY HeapIsLayered, CallTreeAssumption DEF TreeInv
  <2>6. \A a \in DOMAIN heap :
           a = root \/ \E b \in DOMAIN heap : \E i \in DOMAIN heap[b].kids : heap[b].kids[i] = a
    BY DEF TreeInv, HeldByRoot
  <2>7. BelowOf(heap)[root] = DOMAIN heap
    BY <2>4, <2>5, <2>6, BelowIsAll
  <2> QED
    BY <1>2, <2>7, BelowMeaning
<1> QED
  BY <1>1, <1>2

(* A heap without nodes and without a root. *)
LEMMA EmptyHeap ==
  ASSUME DOMAIN heap' = {}, root' = Null, node' \in Nat, brk' \in Nat
  PROVE  TreeInv'
BY DEF TreeInv, NodesOK, KidsOK, HeldByRoot
-----------------------------------------------------------------------------
(* The outermost call takes its root from malloc.                          *)
LEMMA AddRootStep ==
  ASSUME LevelInv, TreeInv, root = Null, NEW f \in Fun, MaxDepth > 0, CallhookIN(f)
  PROVE  TreeInv'
<1> DEFINE n == NewNode(f, level + 1)
<1>1. stack = <<>> /\ level = 0 /\ brk = 0 /\ DOMAIN heap = {} /\ stack \in Seq(Record)
  BY DEF LevelInv, StackTypeOK, LevelIsDepth, TreeInv, Null
<1>2. /\ level' = 1 /\ stack' = Append(stack, [fn |-> f, level |-> 1])
      /\ brk' = 1 /\ root' = 1 /\ node' = 1
      /\ heap' = [a \in {1} |-> n]
  BY <1>1 DEF CallhookIN, AddNode, AddChild
<1>3. n \in NodeRecord /\ n.level = 1 /\ n.fn = f /\ n.parent = Null /\ n.kids = <<>> /\ ~n.ended
  <2>1. <<>> \in Seq(Nat) /\ Null \in Nat
    BY DEF Null
  <2> QED
    BY <1>1, <2>1 DEF NewNode, NodeRecord
<1> HIDE DEF n
<1>4. DOMAIN heap' = {1} /\ heap'[1] = n /\ DOMAIN heap'[1].kids = {}
  BY <1>2, <1>3
<1>5. stack'[1].fn = f
  BY <1>1, <1>2
<1>6. NodesOK'
  BY <1>2, <1>3, <1>4, CallTreeAssumption DEF NodesOK
<1>7. KidsOK'
  BY <1>4 DEF KidsOK
<1>8. HeldByRoot'
  BY <1>2, <1>4 DEF HeldByRoot
<1>9. PICK q \in [1 .. 1 -> {1}] : q[1] = 1
  <2> DEFINE q == [i \in 1 .. 1 |-> 1]
  <2>1. q \in [1 .. 1 -> {1}] /\ q[1] = 1
    OBVIOUS
  <2> QED
    BY <2>1
<1>10. OnPath(q)'
  BY <1>2, <1>3, <1>4, <1>5, <1>9 DEF OnPath
<1>11. q \in [1 .. level' -> DOMAIN heap']
  BY <1>2, <1>4
<1> QED
  BY <1>2, <1>6, <1>7, <1>8, <1>10, <1>11 DEF TreeInv, Null

(* lprofT_pop sets the end time of the current node and nothing else.      *)
LEMMA EndedNodes ==
  ASSUME NodesOK, node \in DOMAIN heap, heap' = Ended(heap, node)
  PROVE  /\ DOMAIN heap' = DOMAIN heap
         /\ \A a \in DOMAIN heap :
              /\ heap'[a].fn = heap[a].fn /\ heap'[a].level = heap[a].level
              /\ heap'[a].parent = heap[a].parent /\ heap'[a].kids = heap[a].kids
              /\ heap'[a].ended = (a = node \/ heap[a].ended)
              /\ heap'[a] \in NodeRecord
<1>n. \A a \in DOMAIN heap : a # Null /\ heap[a] \in NodeRecord
  BY DEF NodesOK, Null
<1>1. heap' = [heap EXCEPT ![node].ended = TRUE]
  BY <1>n DEF Ended
<1>2. DOMAIN heap' = DOMAIN heap
  BY <1>1
<1>3. ASSUME NEW a \in DOMAIN heap, a # node PROVE heap'[a] = heap[a]
  BY <1>1, <1>3
<1>4. heap'[node] = [heap[node] EXCEPT !.ended = TRUE]
  BY <1>1
<1>5. /\ heap'[node].fn = heap[node].fn /\ heap'[node].level = heap[node].level
      /\ heap'[node].parent = heap[node].parent /\ heap'[node].kids = heap[node].kids
      /\ heap'[node].ended = TRUE
      /\ heap'[node] \in NodeRecord
  BY <1>n, <1>4 DEF NodeRecord
<1>6. ASSUME NEW a \in DOMAIN heap
      PROVE  /\ heap'[a].fn = heap[a].fn /\ heap'[a].level = heap[a].level
             /\ heap'[a].parent = heap[a].parent /\ heap'[a].kids = heap[a].kids
             /\ heap'[a].ended = (a = node \/ heap[a].ended)
             /\ heap'[a] \in NodeRecord
  <2>1. CASE a = node
    BY <1>5, <2>1
  <2>2. CASE a # node
    <3>1. heap[a].ended \in BOOLEAN /\ heap[a] \in NodeRecord
      BY <1>n DEF NodeRecord
    <3> QED
      BY <1>3, <2>2, <3>1
  <2> QED
    BY <2>1, <2>2
<1> QED
  BY <1>2, <1>6

(* A return into the call around it takes the last node off the path.      *)
LEMMA InnerStep ==
  ASSUME LevelInv, TreeInv, CallhookOUTInner,
         NEW p \in [1 .. level -> DOMAIN heap], OnPath(p)
  PROVE  /\ TreeInv' /\ root' # Null
         /\ \E q \in [1 .. level' -> DOMAIN heap'] :
              OnPath(q)' /\ \A i \in 1 .. level' : q[i] = p[i]
<1>1. /\ stack # <<>> /\ level > 1 /\ level' = level - 1 /\ stack' = Front(stack)
      /\ heap' = Ended(heap, node) /\ node' = Above(heap, node) /\ brk' = brk /\ root' = root
  BY DEF CallhookOUTInner
<1>2. stack \in Seq(Record) /\ level \in Nat /\ level = Len(stack) /\ root # Null
  BY <1>1 DEF LevelInv, StackTypeOK, LevelIsDepth
<1>3. OnPath(p)
  OBVIOUS
<1>4. level \in 1 .. level /\ level - 1 \in 1 .. level /\ 1 \in 1 .. level /\ level \in 2 .. level
  BY <1>1, <1>2
<1>5. /\ node = p[level] /\ root = p[1] /\ node \in DOMAIN heap /\ root \in DOMAIN heap
      /\ heap[node].parent = p[level - 1] /\ p[level - 1] \in DOMAIN heap
      /\ heap[node].level = level /\ heap[root].parent = Null
  BY <1>3, <1>4 DEF OnPath
<1>6. \A a \in DOMAIN heap : a \in Nat /\ a # Null /\ heap[a] \in NodeRecord
  BY DEF TreeInv, NodesOK, Null
<1>7. node' = p[level - 1]
  BY <1>1, <1>5, <1>6 DEF Above
<1>8. /\ DOMAIN heap' = DOMAIN heap
      /\ \A a \in DOMAIN heap :
           /\ heap'[a].fn = heap[a].fn /\ heap'[a].level = heap[a].level
           /\ heap'[a].parent = heap[a].parent /\ heap'[a].kids = heap[a].kids
           /\ heap'[a].ended = (a = node \/ heap[a].ended)
           /\ heap'[a] \in NodeRecord
  BY <1>1, <1>5, EndedNodes DEF TreeInv
<1>9. NodesOK'
  BY <1>1, <1>8 DEF NodesOK, TreeInv
<1>10. \A i \in DOMAIN heap[node].kids : heap[heap[node].kids[i]].ended
  <2> SUFFICES ASSUME NEW i \in DOMAIN heap[node].kids, ~heap[heap[node].kids[i]].ended PROVE FALSE
    OBVIOUS
  <2>1. heap[node].kids[i] \in DOMAIN heap /\ heap[heap[node].kids[i]].level = level + 1
    BY <1>5 DEF TreeInv, KidsOK
  <2>2. PICK j \in 1 .. level : heap[node].kids[i] = p[j]
    BY <1>3, <2>1 DEF OnPath
  <2>3. heap[p[j]].level = j
    BY <1>3 DEF OnPath
  <2> QED
    BY <1>2, <2>1, <2>2, <2>3
<1>11. KidsOK'
  <2> SUFFICES ASSUME NEW a \in DOMAIN heap, NEW i \in DOMAIN heap[a].kids
               PROVE  /\ heap[a].kids[i] \in DOMAIN heap
                      /\ heap'[heap[a].kids[i]].level = heap'[a].level + 1
                      /\ heap'[a].ended => heap'[heap[a].kids[i]].ended
                      /\ \A b \in DOMAIN heap : \A j \in DOMAIN heap[b].kids :
                           heap[a].kids[i] = heap[b].kids[j] => a = b /\ i = j
    BY <1>8 DEF KidsOK
  <2>1. /\ heap[a].kids[i] \in DOMAIN heap
        /\ heap[heap[a].kids[i]].level = heap[a].level + 1
        /\ heap[a].ended => heap[heap[a].kids[i]].ended
        /\ \A b \in DOMAIN heap : \A j \in DOMAIN heap[b].kids :
             heap[a].kids[i] = heap[b].kids[j] => a = b /\ i = j
    BY DEF TreeInv, KidsOK
  <2>2. heap'[heap[a].kids[i]].level = heap'[a].level + 1
    BY <1>8, <2>1
  <2>3. heap'[a].ended => heap'[heap[a].kids[i]].ended
    BY <1>8, <1>10, <2>1
  <2> QED
    BY <2>1, <2>2, <2>3
<1>12. HeldByRoot'
  BY <1>1, <1>8 DEF TreeInv, HeldByRoot
<1>13. PICK q \in [1 .. level - 1 -> DOMAIN heap'] : \A i \in 1 .. level - 1 : q[i] = p[i]
  <2> DEFINE q == [i \in 1 .. level - 1 |-> p[i]]
  <2>1. \A i \in 1 .. level - 1 : i \in 1 .. level
    BY <1>2
  <2>2. q \in [1 .. level - 1 -> DOMAIN heap']
    BY <1>8, <2>1
  <2> QED
    BY <2>2
<1>14. OnPath(q)'
  <2>1. q[1] = root' /\ q[level'] = node' /\ heap'[root'].parent = Null
    <3>1. 1 \in 1 .. level - 1 /\ level - 1 \in 1 .. level - 1
      BY <1>1, <1>2
    <3> QED
      BY <1>1, <1>5, <1>7, <1>8, <1>13, <3>1
  <2>2. ASSUME NEW i \in 1 .. level'
        PROVE  heap'[q[i]].level = i /\ heap'[q[i]].fn = stack'[i].fn /\ ~heap'[q[i]].ended
    <3>1. i \in 1 .. level - 1 /\ i \in 1 .. level /\ i # level
      BY <1>1, <1>2, <2>2
    <3>2. heap[p[i]].level = i /\ heap[p[i]].fn = stack[i].fn /\ ~heap[p[i]].ended
      BY <1>3, <3>1 DEF OnPath
    <3>3. p[i] # node /\ p[i] \in DOMAIN heap /\ q[i] = p[i]
      BY <1>5, <1>13, <3>1, <3>2
    <3>4. stack'[i] = stack[i]
      BY <1>1, <1>2, <3>1, FrontOfStack
    <3>5. heap'[p[i]].level = heap[p[i]].level /\ heap'[p[i]].fn = heap[p[i]].fn
          /\ heap'[p[i]].ended = (p[i] = node \/ heap[p[i]].ended)
      BY <1>8, <3>3
    <3> QED
      BY <3>2, <3>3, <3>4, <3>5
  <2>3. ASSUME NEW i \in 2 .. level'
        PROVE  /\ heap'[q[i]].parent = q[i - 1]
               /\ heap'[q[i - 1]].kids # <<>> /\ Last(heap'[q[i - 1]].kids) = q[i]
    <3>1. i \in 2 .. level /\ i \in 1 .. level /\ i - 1 \in 1 .. level
          /\ i \in 1 .. level - 1 /\ i - 1 \in 1 .. level - 1
      BY <1>1, <1>2, <2>3
    <3>2. /\ heap[p[i]].parent = p[i - 1]
          /\ heap[p[i - 1]].kids # <<>> /\ Last(heap[p[i - 1]].kids) = p[i]
      BY <1>3, <3>1 DEF OnPath
    <3>3. q[i] = p[i] /\ q[i - 1] = p[i - 1] /\ p[i] \in DOMAIN heap /\ p[i - 1] \in DOMAIN heap
      BY <1>13, <3>1
    <3>4. heap'[p[i]].parent = heap[p[i]].parent /\ heap'[p[i - 1]].kids = heap[p[i - 1]].kids
      BY <1>8, <3>3
    <3> QED
      BY <3>2, <3>3, <3>4
  <2>4. ASSUME NEW a \in DOMAIN heap', ~heap'[a].ended PROVE \E i \in 1 .. level' : a = q[i]
    <3>1. a \in DOMAIN heap /\ ~heap[a].ended /\ a # node
      BY <1>8, <2>4
    <3>2. PICK i \in 1 .. level : a = p[i]
      BY <1>3, <3>1 DEF OnPath
    <3>3. i \in 1 .. level - 1
      BY <1>2, <1>5, <3>1, <3>2
    <3>4. a = q[i] /\ i \in 1 .. level'
      BY <1>1, <1>13, <3>2, <3>3
    <3> QED
      BY <3>4
  <2> QED
    BY <2>1, <2>2, <2>3, <2>4 DEF OnPath
<1>15. q \in [1 .. level' -> DOMAIN heap']
  BY <1>1
<1>16. node' \in Nat /\ brk' \in Nat
  BY <1>1, <1>5, <1>6, <1>7 DEF TreeInv
<1>17. TreeInv'
  BY <1>1, <1>2, <1>9, <1>11, <1>12, <1>14, <1>15, <1>16 DEF TreeInv
<1> QED
  BY <1>1, <1>2, <1>13, <1>14, <1>15, <1>17

(* The tree is freed: nothing is left of it. *)
LEMMA FreeTreeStep ==
  ASSUME LevelInv, TreeInv, FreeTree, node' \in Nat
  PROVE  TreeInv'
<1>1. DOMAIN heap' = {} /\ root' = Null /\ brk' \in Nat
  BY ReachableIsAll DEF FreeTree, Null
<1> QED
  BY <1>1, EmptyHeap

(* The return of the outermost call frees the tree.                        *)
LEMMA OuterStep ==
  ASSUME LevelInv, TreeInv, CallhookOUTOuter
  PROVE  TreeInv'
<1>1. stack # <<>> /\ level = 1 /\ root # Null /\ FreeTree /\ node' = Above(heap, node)
  BY DEF CallhookOUTOuter, LevelInv, LevelIsDepth
<1>2. PICK p \in [1 .. level -> DOMAIN heap] : OnPath(p)
  BY <1>1 DEF TreeInv
<1>3. p[1] = root /\ p[1] = node /\ heap[node].parent = Null
  BY <1>1, <1>2 DEF OnPath
<1>4. node' \in Nat
  BY <1>1, <1>3 DEF Above, TreeInv
<1> QED
  BY <1>1, <1>4, FreeTreeStep

(* lprofT_frame pops from pTreeNode up to the root and stays there. *)
LEMMA FramePops ==
  ASSUME LevelInv, TreeInv, NEW id, Frame(id)
  PROVE  node' \in Nat
<1> DEFINE IsUp(u) == u = [i \in 0 .. Len(stack) |->
                             IF i = 0 THEN node ELSE Above(heap, u[i - 1])]
           up == CHOOSE u : IsUp(u)
<1>1. node' = up[Len(stack)]
  BY DEF Frame
<1>2. stack \in Seq(Record) /\ level \in Nat /\ level = Len(stack) /\ (root = Null <=> stack = <<>>)
  BY DEF LevelInv, StackTypeOK, LevelIsDepth
<1>3. CASE root = Null
  <2>1. Len(stack) = 0
    BY <1>2, <1>3
  <2> DEFINE v == [i \in 0 .. Len(stack) |-> node]
  <2>2. IsUp(v)
    BY <2>1
  <2>3. IsUp(up)
    <3> HIDE DEF v, IsUp
    <3> QED
      BY <2>2, Zenon
  <2> HIDE DEF up
  <2>4. up[0] = node
    BY <2>1, <2>3
  <2> QED
    BY <1>1, <2>1, <2>4 DEF TreeInv
<1>4. CASE root # Null
  <2>1. PICK p \in [1 .. level -> DOMAIN heap] : OnPath(p)
    BY <1>4 DEF TreeInv
  <2>2. level >= 1
    BY <1>2, <1>4
  <2>3. \A a \in DOMAIN heap : a # Null /\ a \in Nat
    BY DEF TreeInv, NodesOK, Null
  <2> DEFINE v == [i \in 0 .. level |-> IF i = level THEN p[1] ELSE p[level - i]]
  <2>4. ASSUME NEW i \in 0 .. level PROVE v[i] = IF i = 0 THEN node ELSE Above(heap, v[i - 1])
    <3>1. CASE i = 0
      BY <2>1, <2>2, <3>1, <1>2 DEF OnPath
    <3>2. CASE i # 0 /\ i < level
      <4>1. level - i + 1 \in 2 .. level /\ level - i + 1 \in 1 .. level /\ level - i \in 1 .. level
        BY <1>2, <3>2
      <4>2. v[i] = p[level - i] /\ v[i - 1] = p[level - i + 1]
        BY <1>2, <3>2
      <4>3. heap[p[level - i + 1]].parent = p[level - i + 1 - 1] /\ p[level - i + 1 - 1] = p[level - i]
        BY <2>1, <4>1 DEF OnPath
      <4>4. p[level - i] \in DOMAIN heap /\ p[level - i + 1] \in DOMAIN heap
        BY <4>1
      <4> HIDE DEF v
      <4> QED
        BY <2>3, <3>2, <4>2, <4>3, <4>4 DEF Above
    <3>3. CASE i = level /\ level # 0
      <4>1. v[i] = p[1] /\ v[i - 1] = p[1]
        BY <1>2, <2>2, <3>3
      <4>2. heap[p[1]].parent = Null
        BY <2>1 DEF OnPath
      <4> HIDE DEF v
      <4> QED
        BY <3>3, <4>1, <4>2 DEF Above
    <3> QED
      BY <1>2, <3>1, <3>2, <3>3
  <2>5. v = [i \in 0 .. level |-> v[i]]
    OBVIOUS
  <2>6. \A i \in 0 .. level : v[i] \in Nat
    <3> SUFFICES ASSUME NEW i \in 0 .. level PROVE v[i] \in Nat
      OBVIOUS
    <3>1. 1 \in 1 .. level /\ (i # level => level - i \in 1 .. level)
      BY <1>2, <2>2
    <3> QED
      BY <2>3, <3>1
  <2> HIDE DEF v
  <2>7. IsUp(v)
    BY <1>2, <2>4, <2>5
  <2>8. IsUp(up)
    <3> HIDE DEF IsUp
    <3> QED
      BY <2>7, Zenon
  <2> HIDE DEF up
  <2>9. \A i \in 0 .. level : up[i] = IF i = 0 THEN node ELSE Above(heap, up[i - 1])
    BY <1>2, <2>8
  <2> DEFINE T == {i \in Nat : i <= level => up[i] = v[i]}
  <2>10. 0 \in T
    BY <1>2, <2>4, <2>9
  <2>11. ASSUME NEW i \in Nat, i \in T PROVE i + 1 \in T
    <3> SUFFICES ASSUME i + 1 <= level PROVE up[i + 1] = v[i + 1]
      OBVIOUS
    <3>1. up[i] = v[i] /\ i + 1 \in 0 .. level /\ i + 1 # 0 /\ i + 1 - 1 = i
      BY <1>2, <2>11
    <3>2. up[i + 1] = Above(heap, up[i]) /\ v[i + 1] = Above(heap, v[i])
      BY <2>4, <2>9, <3>1
    <3> QED
      BY <3>1, <3>2
  <2> HIDE DEF T
  <2>12. level \in T
    BY <1>2, <2>10, <2>11, NatSetInduction
  <2> QED
    BY <1>1, <1>2, <2>6, <2>12 DEF T
<1> QED
  BY <1>3, <1>4
-----------------------------------------------------------------------------
(* Every action keeps the invariant.                                       *)
LEMMA TreeStep == LevelInv /\ TreeInv /\ [Next]_callTreeVars => TreeInv'
<1> SUFFICES ASSUME LevelInv, TreeInv, [Next]_callTreeVars PROVE TreeInv'
  OBVIOUS
<1>1. ASSUME NEW f \in Fun, Len(stack) < MaxDepth, CallhookIN(f) PROVE TreeInv'
  <2>1. level \in Nat /\ stack \in Seq(Record) /\ level = Len(stack) /\ (root = Null <=> stack = <<>>)
    BY DEF LevelInv, StackTypeOK, LevelIsDepth
  <2>2. CASE root = Null
    <3>1. MaxDepth > 0
      BY <1>1, <2>1, CallTreeAssumption
    <3> QED
      BY <1>1, <2>2, <3>1, AddRootStep
  <2>3. CASE root # Null
    <3>1. level \in Nat \ {0}
      BY <2>1, <2>3
    <3>2. PICK p \in [1 .. level -> DOMAIN heap] : OnPath(p)
      BY <2>3 DEF TreeInv
    <3>3. level \in 1 .. level /\ p[level] = node /\ heap[node].level = level /\ node \in DOMAIN heap
      BY <3>1, <3>2 DEF OnPath
    <3>4. brk \in Nat
      BY DEF TreeInv
    <3>5. /\ level' = level + 1 /\ stack' = Append(stack, [fn |-> f, level |-> level + 1])
          /\ AddNode(NewNode(f, level + 1))
      BY <1>1 DEF CallhookIN
    <3>6. AddChild(node, NewNode(f, level + 1))
      <4>1. NewNode(f, level + 1).level # heap[node].level
        BY <3>1, <3>3 DEF NewNode
      <4> QED
        BY <2>3, <3>5, <4>1 DEF AddNode
    <3>7. level < MaxDepth
      BY <1>1, <2>1
    <3> QED
      BY <2>1, <2>3, <3>1, <3>2, <3>4, <3>5, <3>6, <3>7, AddChildStep DEF TreeInv
  <2> QED
    BY <2>2, <2>3
<1>2. CASE CallhookOUTUnmatched
  BY <1>2 DEF CallhookOUTUnmatched, stackVars, treeVars, TreeInv, NodesOK, KidsOK, HeldByRoot, OnPath
<1>3. CASE CallhookOUTInner
  <2>1. root # Null
    BY <1>3 DEF CallhookOUTInner, LevelInv, LevelIsDepth
  <2>2. PICK p \in [1 .. level -> DOMAIN heap] : OnPath(p)
    BY <2>1 DEF TreeInv
  <2> QED
    BY <1>3, <2>2, InnerStep
<1>4. CASE CallhookOUTOuter
  BY <1>4, OuterStep
<1>5. ASSUME NEW id \in FrameId, Frame(id) PROVE TreeInv'
  <2>1. node' \in Nat
    BY <1>5, FramePops
  <2>2. CASE root # Null
    BY <1>5, <2>1, <2>2, FreeTreeStep DEF Frame
  <2>3. CASE root = Null
    <3>1. DOMAIN heap' = {} /\ root' = Null /\ brk' \in Nat
      BY <1>5, <2>3 DEF Frame, TreeInv
    <3> QED
      BY <2>1, <3>1, EmptyHeap
  <2> QED
    BY <2>2, <2>3
<1>6. CASE Restart
  <2>1. DOMAIN heap' = {} /\ root' = Null /\ node' \in Nat /\ brk' \in Nat
    BY <1>6 DEF Restart, TreeInv, Null
  <2> QED
    BY <2>1, EmptyHeap
<1>7. CASE UNCHANGED callTreeVars
  BY <1>7 DEF callTreeVars, stackVars, treeVars, TreeInv, NodesOK, KidsOK, HeldByRoot, OnPath
<1> QED
  BY <1>1, <1>2, <1>3, <1>4, <1>5, <1>6, <1>7 DEF Next, CallhookOUT
-----------------------------------------------------------------------------
(* Walking up the pParent links from pTreeNode finds the path. *)
LEMMA PathFound ==
  ASSUME LevelInv, TreeInv, root # Null, NEW p \in [1 .. level -> DOMAIN heap], OnPath(p)
  PROVE  Path = p /\ Ancestor[level] = Null
<1> DEFINE IsUp(u) == u = [k \in 0 .. level |->
              IF k = 0 THEN node
              ELSE IF u[k - 1] \in DOMAIN heap THEN heap[u[k - 1]].parent ELSE Null]
           up == CHOOSE u : IsUp(u)
           v == [k \in 0 .. level |-> IF k = level THEN Null ELSE p[level - k]]
<1>1. level \in Nat /\ level >= 1
  BY DEF LevelInv, StackTypeOK, LevelIsDepth
<1>2. Ancestor = up
  BY DEF Ancestor
<1>3. ASSUME NEW k \in 0 .. level
      PROVE  v[k] = IF k = 0 THEN node
                    ELSE IF v[k - 1] \in DOMAIN heap THEN heap[v[k - 1]].parent ELSE Null
  <2>1. CASE k = 0
    BY <1>1, <2>1 DEF OnPath
  <2>2. CASE k # 0
    <3>1. /\ level - k + 1 \in 1 .. level /\ v[k - 1] = p[level - k + 1]
          /\ p[level - k + 1] \in DOMAIN heap
      BY <1>1, <2>2
    <3>2. CASE k = level
      <4>1. p[level - k + 1] = root /\ heap[root].parent = Null /\ v[k] = Null
        BY <1>1, <3>2 DEF OnPath
      <4> HIDE DEF v
      <4> QED
        BY <2>2, <3>1, <4>1
    <3>3. CASE k # level
      <4>1. level - k + 1 \in 2 .. level /\ level - k + 1 - 1 = level - k
        BY <1>1, <2>2, <3>3
      <4>v. v[k] = p[level - k]
        BY <3>3
      <4>2. heap[p[level - k + 1]].parent = p[level - k]
        <5>1. \A j \in 2 .. level : heap[p[j]].parent = p[j - 1]
          BY DEF OnPath
        <5>2. PICK j \in 2 .. level : j = level - k + 1 /\ j - 1 = level - k
          BY <1>1, <4>1
        <5> QED
          BY <5>1, <5>2
      <4> HIDE DEF v
      <4> QED
        BY <2>2, <3>1, <4>v, <4>2
    <3> QED
      BY <3>2, <3>3
  <2> QED
    BY <2>1, <2>2
<1>4. v = [k \in 0 .. level |-> v[k]]
  OBVIOUS
<1>5. v[level] = Null /\ \A i \in 1 .. level : v[level - i] = p[i]
  <2>1. \A i \in 1 .. level : level - i \in 0 .. level /\ level - i # level /\ level - (level - i) = i
    BY <1>1
  <2> QED
    BY <1>1, <2>1
<1> HIDE DEF v
<1>6. IsUp(up)
  <2>1. IsUp(v)
    BY <1>3, <1>4
  <2> HIDE DEF IsUp
  <2> QED
    BY <2>1, Zenon
<1> HIDE DEF up
<1>7. \A k \in 0 .. level :
        up[k] = IF k = 0 THEN node
                ELSE IF up[k - 1] \in DOMAIN heap THEN heap[up[k - 1]].parent ELSE Null
  BY <1>6
<1> DEFINE T == {k \in Nat : k <= level => up[k] = v[k]}
<1>8. 0 \in T
  BY <1>1, <1>3, <1>7
<1>9. ASSUME NEW k \in Nat, k \in T PROVE k + 1 \in T
  <2> SUFFICES ASSUME k + 1 <= level PROVE up[k + 1] = v[k + 1]
    OBVIOUS
  <2>1. up[k] = v[k] /\ k + 1 \in 0 .. level /\ k + 1 # 0 /\ k + 1 - 1 = k
    BY <1>1, <1>9
  <2>2. up[k + 1] = IF up[k] \in DOMAIN heap THEN heap[up[k]].parent ELSE Null
    BY <1>7, <2>1
  <2>3. v[k + 1] = IF v[k] \in DOMAIN heap THEN heap[v[k]].parent ELSE Null
    BY <1>3, <2>1
  <2> QED
    BY <2>1, <2>2, <2>3
<1> HIDE DEF T
<1>10. \A k \in Nat : k \in T
  BY <1>8, <1>9, NatSetInduction
<1>11. \A k \in 0 .. level : up[k] = v[k]
  BY <1>1, <1>10 DEF T
<1>12. \A i \in 1 .. level : up[level - i] = p[i]
  <2> SUFFICES ASSUME NEW i \in 1 .. level PROVE up[level - i] = p[i]
    OBVIOUS
  <2>1. level - i \in 0 .. level
    BY <1>1
  <2> QED
    BY <1>5, <1>11, <2>1
<1>13. Path = p
  <2>1. Path = [i \in 1 .. level |-> up[level - i]]
    BY <1>2 DEF Path
  <2> QED
    BY <1>12, <2>1
<1>14. Ancestor[level] = Null
  <2>1. level \in 0 .. level
    BY <1>1
  <2> QED
    BY <1>2, <1>5, <1>11, <2>1
<1> QED
  BY <1>13, <1>14

(* What TypeOK says of the rest of the state. *)
CountOK ==
  /\ preFrame \in BOOLEAN
  /\ given.kind \in {"none", "tree", "frame"}

(* Every action keeps that, too.                                           *)
LEMMA CountStep == LevelInv /\ CountOK /\ [Next]_callTreeVars => CountOK'
<1> SUFFICES ASSUME LevelInv, CountOK, [Next]_callTreeVars PROVE CountOK'
  OBVIOUS
<1> USE DEF CountOK
<1>1. ASSUME NEW f \in Fun, CallhookIN(f) PROVE CountOK'
  BY <1>1 DEF CallhookIN, Nothing
<1>2. CASE CallhookOUTUnmatched
  BY <1>2 DEF CallhookOUTUnmatched, Nothing
<1>3. CASE CallhookOUTInner
  BY <1>3 DEF CallhookOUTInner, Nothing
<1>4. CASE CallhookOUTOuter
  <2>1. root # Null /\ stack # <<>>
    BY <1>4 DEF CallhookOUTOuter, LevelInv, LevelIsDepth
  <2>2. given' = [kind |-> "tree", tree |-> Json[root]] /\ preFrame' \in BOOLEAN
    BY <1>4, <2>1 DEF CallhookOUTOuter
  <2>3. given'.kind = "tree"
    BY <2>2, Zenon
  <2> QED
    BY <2>2, <2>3
<1>5. ASSUME NEW id \in FrameId, Frame(id) PROVE CountOK'
  BY <1>5 DEF Frame, FrameHeader
<1>6. CASE Restart
  BY <1>6 DEF Restart, Nothing
<1>7. CASE UNCHANGED callTreeVars
  BY <1>7 DEF callTreeVars
<1> QED
  BY <1>1, <1>2, <1>3, <1>4, <1>5, <1>6, <1>7 DEF Next, CallhookOUT

(* The invariant implies what the run checks: the path it speaks of is the *)
(* one the pParent links give.                                             *)
LEMMA InvariantFits == LevelInv /\ TreeInv /\ CountOK => HeapFitsStack
<1> SUFFICES ASSUME LevelInv, TreeInv, CountOK PROVE HeapFitsStack
  OBVIOUS
<1>1. /\ level \in Nat /\ level = Len(stack) /\ stack \in Seq(Record)
      /\ (root = Null) <=> (stack = <<>>)
  BY DEF LevelInv, StackTypeOK, LevelIsDepth
<1>2. ASSUME root # Null
      PROVE  /\ root \in DOMAIN heap /\ PathIsStack
             /\ {a \in DOMAIN heap : ~heap[a].ended} = Range(Path)
  <2>1. level >= 1
    BY <1>1, <1>2
  <2>2. PICK p \in [1 .. level -> DOMAIN heap] : OnPath(p)
    BY <1>2 DEF TreeInv
  <2>3. Path = p /\ Ancestor[level] = Null
    BY <1>2, <2>2, PathFound
  <2>4. root \in DOMAIN heap /\ Path[1] = root
    BY <1>1, <2>1, <2>2, <2>3 DEF OnPath
  <2>5. \A i \in 1 .. level :
         /\ Path[i] \in DOMAIN heap
         /\ heap[Path[i]].fn = stack[i].fn /\ heap[Path[i]].level = i
    BY <2>2, <2>3 DEF OnPath
  <2>6. \A i \in 2 .. level : Last(heap[Path[i - 1]].kids) = Path[i]
    BY <2>2, <2>3 DEF OnPath
  <2>7. {a \in DOMAIN heap : ~heap[a].ended} = Range(Path)
    <3>1. Range(p) = {p[i] : i \in 1 .. level}
      BY DEF Range
    <3>2. \A i \in 1 .. level : p[i] \in DOMAIN heap /\ ~heap[p[i]].ended
      BY <2>2 DEF OnPath
    <3>3. \A a \in DOMAIN heap : ~heap[a].ended => \E i \in 1 .. level : a = p[i]
      BY <2>2 DEF OnPath
    <3> QED
      BY <2>3, <3>1, <3>2, <3>3
  <2> QED
    BY <2>3, <2>4, <2>5, <2>6, <2>7 DEF PathIsStack
<1>3. PathIsStack
  BY <1>2 DEF PathIsStack
<1>4. OnlyOpenUnended
  <2>1. CASE root = Null
    BY <2>1 DEF OnlyOpenUnended, TreeInv
  <2> QED
    BY <1>2, <2>1 DEF OnlyOpenUnended
<1>5. TypeOK
  <2>1. \A a \in DOMAIN heap :
         a \in Nat /\ heap[a] \in [fn : Fun, level : Nat, parent : Nat, kids : Seq(Nat), ended : BOOLEAN]
    BY DEF TreeInv, NodesOK, NodeRecord
  <2>2. root \in Nat
    BY <1>2, <2>1 DEF Null
  <2> QED
    BY <1>1, <2>1, <2>2 DEF TypeOK, TreeInv, CountOK, Record
<1> QED
  BY <1>3, <1>4, <1>5 DEF HeapFitsStack

(* Initially there is no tree.                                             *)
LEMMA TreeInit == Init => TreeInv /\ CountOK
<1> SUFFICES ASSUME Init PROVE TreeInv /\ CountOK
  OBVIOUS
<1>1. TreeInv
  BY DEF Init, TreeInv, NodesOK, KidsOK, HeldByRoot, Null
<1>2. CountOK
  <2>1. preFrame = FALSE /\ given = Nothing
    BY DEF Init
  <2>2. Nothing.kind = "none"
    BY DEF Nothing
  <2> QED
    BY <2>1, <2>2 DEF CountOK
<1> QED
  BY <1>1, <1>2

(* The invariant is inductive.                                             *)
LEMMA TreeInvariant == Spec => [](LevelInv /\ TreeInv /\ CountOK)
BY LevelInit, LevelStep, TreeInit, TreeStep, CountStep, PTL DEF Spec

(* Whatever realloc moves, whatever frames throw away and for any bounds,  *)
(* the nodes from pTreeRoot to pTreeNode are allocated, they are the open  *)
(* calls of the stack in order, each the last child of the one above it,   *)
(* and exactly they have no end time (stack.c:93-133,                      *)
(* core_profiler.c:67-150).                                                *)
THEOREM HeapTheorem == Spec => []HeapFitsStack
BY TreeInvariant, InvariantFits, PTL

(* Everything allocated hangs from the root, so that lprofT_free forgets no*)
(* node of the tree it frees (stack.c:287-342).                            *)
THEOREM NodesTheorem == Spec => []NoNodeLost
<1>1. LevelInv /\ TreeInv => NoNodeLost
  BY ReachableIsAll DEF NoNodeLost
<1> QED
  BY TreeInvariant, <1>1, PTL
-----------------------------------------------------------------------------
(* OpenCalls, told by a path: the i-th open call with the trees of its     *)
(* finished children, all of them but the one that is the next open call.  *)
Finished(p, i) == Len(heap[p[i]].kids) - (IF i = level THEN 0 ELSE 1)

OpenOn(p) ==
  [i \in 1 .. level |->
     [fn |-> stack[i].fn, sub |-> [k \in 1 .. Finished(p, i) |-> Json[heap[p[i]].kids[k]]]]]

OpenIsOpenOn ==
  /\ root = Null => OpenCalls = <<>>
  /\ root # Null => \A p \in [1 .. level -> DOMAIN heap] : OnPath(p) => OpenCalls = OpenOn(p)

(* The path of the invariant tells what OpenCalls computes from the links. *)
LEMMA OpenCallsFound == LevelInv /\ TreeInv => OpenIsOpenOn
<1> SUFFICES ASSUME LevelInv, TreeInv PROVE OpenIsOpenOn
  OBVIOUS
<1>1. /\ level \in Nat /\ level = Len(stack) /\ stack \in Seq(Record)
      /\ (root = Null) <=> (stack = <<>>)
  BY DEF LevelInv, StackTypeOK, LevelIsDepth
<1>2. ASSUME root = Null PROVE OpenCalls = <<>>
  <2>1. level = 0
    BY <1>1, <1>2
  <2>2. OpenCalls = [i \in 1 .. 0 |-> OpenCalls[i]]
    BY <2>1 DEF OpenCalls
  <2> HIDE DEF OpenCalls
  <2> QED
    BY <2>2
<1>3. ASSUME root # Null, NEW p \in [1 .. level -> DOMAIN heap], OnPath(p)
      PROVE  OpenCalls = OpenOn(p)
  <2>1. Path = p
    BY <1>3, PathFound
  <2> DEFINE kids(i) == heap[p[i]].kids
             done(i) == IF i = level THEN kids(i) ELSE Front(kids(i))
  <2>2. OpenCalls = [i \in 1 .. level |->
                       [fn |-> heap[p[i]].fn, sub |-> [k \in DOMAIN done(i) |-> Json[done(i)[k]]]]]
    BY <2>1 DEF OpenCalls
  <2>3. ASSUME NEW i \in 1 .. level
        PROVE  /\ heap[p[i]].fn = stack[i].fn
               /\ DOMAIN done(i) = 1 .. Finished(p, i)
               /\ \A k \in 1 .. Finished(p, i) : done(i)[k] = kids(i)[k]
    <3>1. heap[p[i]] \in NodeRecord
      BY DEF TreeInv, NodesOK
    <3>2. kids(i) \in Seq(Nat)
      BY <3>1 DEF NodeRecord
    <3>3. heap[p[i]].fn = stack[i].fn
      BY <1>3 DEF OnPath
    <3>4. CASE i = level
      BY <3>2, <3>3, <3>4 DEF Finished
    <3>5. CASE i # level
      <4>1. i + 1 \in 2 .. level /\ i + 1 - 1 = i
        BY <1>1, <3>5
      <4>2. kids(i) # <<>>
        BY <1>3, <4>1 DEF OnPath
      <4>3. /\ Front(kids(i)) \in Seq(Nat) /\ Len(Front(kids(i))) = Len(kids(i)) - 1
            /\ \A k \in 1 .. Len(kids(i)) - 1 : Front(kids(i))[k] = kids(i)[k]
        BY <3>2, <4>2, FrontOfNumbers
      <4>4. Finished(p, i) = Len(kids(i)) - 1 /\ done(i) = Front(kids(i))
        BY <3>5 DEF Finished
      <4> HIDE DEF kids, done
      <4> QED
        BY <3>3, <4>3, <4>4 DEF kids
    <3> QED
      BY <3>4, <3>5
  <2>4. ASSUME NEW i \in 1 .. level
        PROVE  [k \in DOMAIN done(i) |-> Json[done(i)[k]]] = [k \in 1 .. Finished(p, i) |-> Json[kids(i)[k]]]
    <3> HIDE DEF kids, done
    <3> QED
      BY <2>3 DEF kids
  <2> HIDE DEF done
  <2> QED
    BY <2>2, <2>3, <2>4 DEF OpenOn
<1> QED
  BY <1>2, <1>3 DEF OpenIsOpenOn

(* The finished children of an open call have ended. *)
LEMMA FinishedEnded ==
  ASSUME LevelInv, TreeInv, root # Null, NEW p \in [1 .. level -> DOMAIN heap], OnPath(p),
         NEW i \in 1 .. level, NEW k \in 1 .. Finished(p, i)
  PROVE  /\ k \in DOMAIN heap[p[i]].kids
         /\ heap[p[i]].kids[k] \in DOMAIN heap
         /\ heap[heap[p[i]].kids[k]].ended
<1> DEFINE K == heap[p[i]].kids
<1>1. level \in Nat /\ p[i] \in DOMAIN heap
  BY DEF LevelInv, StackTypeOK
<1>2. heap[p[i]] \in NodeRecord
  BY <1>1 DEF TreeInv, NodesOK
<1>3. K \in Seq(Nat) /\ Len(K) \in Nat
  BY <1>2 DEF NodeRecord
<1>4. k \in 1 .. Len(K) /\ k \in DOMAIN K /\ (i # level => k < Len(K)) /\ DOMAIN K = 1 .. Len(K)
  <2>1. Finished(p, i) = Len(K) - (IF i = level THEN 0 ELSE 1)
    BY DEF Finished
  <2> HIDE DEF K
  <2> QED
    BY <1>3, <2>1
<1>5. K[k] \in DOMAIN heap /\ heap[K[k]].level = heap[p[i]].level + 1 /\ heap[p[i]].level = i
  BY <1>1, <1>4 DEF TreeInv, KidsOK, OnPath
<1>6. ASSUME ~heap[K[k]].ended PROVE FALSE
  <2>1. PICK j \in 1 .. level : K[k] = p[j]
    BY <1>5, <1>6 DEF OnPath
  <2>2. heap[p[j]].level = j
    BY DEF OnPath
  <2>3. j = i + 1 /\ i # level /\ j \in 2 .. level /\ j - 1 = i
    BY <1>1, <1>5, <2>1, <2>2
  <2>4. Last(heap[p[j - 1]].kids) = p[j]
    BY <2>3 DEF OnPath
  <2>5. K[Len(K)] = K[k]
    BY <2>1, <2>3, <2>4 DEF Last
  <2>6. Len(K) \in DOMAIN K
    BY <1>3, <1>4
  <2>7. Len(K) = k
    BY <1>1, <1>4, <2>5, <2>6 DEF TreeInv, KidsOK
  <2> QED
    BY <1>3, <1>4, <2>3, <2>7
<1> QED
  BY <1>4, <1>5, <1>6
-----------------------------------------------------------------------------
(* Sequences as functions on 1 .. n, and what Append and Front are then.   *)
Indexed(s, n) == s = [i \in 1 .. n |-> s[i]]

LEMMA IndexedIsSeq ==
  ASSUME NEW n \in Nat, NEW s, Indexed(s, n)
  PROVE  \E S : s \in Seq(S) /\ Len(s) = n
<1> DEFINE S == {s[i] : i \in 1 .. n}
<1>1. s \in [1 .. n -> S]
  BY DEF Indexed
<1>2. s \in Seq(S) /\ Len(s) = n
  BY <1>1
<1> QED
  BY <1>2

LEMMA IndexedAppend ==
  ASSUME NEW n \in Nat, NEW s, NEW t, NEW e, Indexed(s, n), Indexed(t, n + 1),
         \A i \in 1 .. n : t[i] = s[i], t[n + 1] = e
  PROVE  t = Append(s, e)
<1> DEFINE S == {s[i] : i \in 1 .. n} \cup {e}
           a == Append(s, e)
<1>1. s \in Seq(S) /\ Len(s) = n /\ e \in S
  <2>1. s \in [1 .. n -> S]
    BY DEF Indexed
  <2> QED
    BY <2>1
<1> HIDE DEF S
<1>2. /\ a \in Seq(S) /\ Len(a) = n + 1 /\ a[n + 1] = e
      /\ \A i \in 1 .. n : a[i] = s[i]
  BY <1>1
<1> HIDE DEF a
<1>3. a = [i \in 1 .. n + 1 |-> a[i]]
  BY <1>2
<1>4. \A i \in 1 .. n + 1 : i = n + 1 \/ i \in 1 .. n
  OBVIOUS
<1>5. \A i \in 1 .. n + 1 : a[i] = t[i]
  BY <1>2, <1>4
<1>6. a = t
  BY <1>3, <1>5 DEF Indexed
<1> QED
  BY <1>6 DEF a

Leaves(n, s, t, f, u) ==
  /\ n \in Nat /\ n > 1
  /\ Indexed(s, n) /\ Indexed(t, n - 1)
  /\ \A i \in 1 .. n - 2 : t[i] = s[i]
  /\ s[n - 1] = [fn |-> f, sub |-> u]
  /\ t[n - 1] = [fn |-> f, sub |-> Append(u, s[n])]

LEMMA IndexedLeave ==
  ASSUME NEW n, NEW s, NEW t, NEW f, NEW u, Leaves(n, s, t, f, u)
  PROVE  /\ Len(s) = n
         /\ t = [Front(s) EXCEPT ![Len(s) - 1].sub = Append(@, Last(s))]
<1> DEFINE S == {s[i] : i \in 1 .. n}
           w == [s[n - 1] EXCEPT !.sub = Append(@, s[n])]
<1> USE DEF Leaves
<1>0. w = t[n - 1]
  <2>1. PICK r : r = s[n - 1]
    OBVIOUS
  <2>2. PICK e : e = s[n]
    OBVIOUS
  <2>3. PICK x : x = Append(u, e)
    OBVIOUS
  <2>4. r = [fn |-> f, sub |-> u] /\ r.sub = u
    BY <2>1
  <2>5. [r EXCEPT !.sub = x] = [fn |-> f, sub |-> x]
    BY <2>4
  <2> QED
    BY <2>1, <2>2, <2>3, <2>4, <2>5
<1>1. s \in Seq(S) /\ Len(s) = n
  <2>1. s \in [1 .. n -> S]
    BY DEF Indexed
  <2> HIDE DEF S, w
  <2> QED
    BY <2>1
<1> HIDE DEF S
<1>2. /\ Front(s) = SubSeq(s, 1, n - 1)
      /\ Last(s) = s[n]
  BY <1>1 DEF Front, Last
<1>3. Front(s) = [i \in 1 .. n - 1 |-> s[i]]
  BY <1>1, <1>2
<1>4. n - 1 \in 1 .. n - 1 /\ DOMAIN Front(s) = 1 .. n - 1 /\ Front(s)[n - 1] = s[n - 1]
  BY <1>3
<1>5. [Front(s) EXCEPT ![n - 1].sub = Append(@, s[n])] = [Front(s) EXCEPT ![n - 1] = w]
  BY <1>4
<1> HIDE DEF w
<1>6. [Front(s) EXCEPT ![n - 1] = w] = [i \in 1 .. n - 1 |-> IF i = n - 1 THEN w ELSE s[i]]
  BY <1>3
<1>7. t = [i \in 1 .. n - 1 |-> IF i = n - 1 THEN w ELSE s[i]]
  <2>1. \A i \in 1 .. n - 1 : i = n - 1 \/ i \in 1 .. n - 2
    OBVIOUS
  <2>2. \A i \in 1 .. n - 1 : t[i] = IF i = n - 1 THEN w ELSE s[i]
    BY <1>0, <2>1
  <2> QED
    BY <2>2 DEF Indexed
<1> QED
  BY <1>1, <1>2, <1>5, <1>6, <1>7
-----------------------------------------------------------------------------
(* Json is the recursion the lemmas are about.                             *)
LEMMA JsonMeaning == Json = JsonOf(heap)
BY DEF Json, JsonOf, IsJson, JsonNode

(* The invariant before and after a step, and what it says of OpenCalls and *)
(* the trees then.                                                         *)
LEMMA Both ==
  ASSUME LevelInv, TreeInv, LevelInv', TreeInv'
  PROVE  /\ OpenIsOpenOn /\ OpenIsOpenOn'
         /\ Json = JsonOf(heap) /\ Json' = JsonOf(heap')
         /\ Layered(heap, MaxDepth) /\ Layered(heap', MaxDepth)
<1>1. OpenIsOpenOn
  BY OpenCallsFound
<1>2. OpenIsOpenOn'
  BY OpenCallsFound, PTL
<1>3. Json = JsonOf(heap)
  BY JsonMeaning
<1>4. Json' = JsonOf(heap')
  BY DEF Json, JsonOf, IsJson, JsonNode
<1>5. Layered(heap, MaxDepth)
  BY HeapIsLayered DEF TreeInv
<1>6. Layered(heap', MaxDepth)
  BY DEF TreeInv, NodesOK, KidsOK, Layered
<1> QED
  BY <1>1, <1>2, <1>3, <1>4, <1>5, <1>6

(* Nodes that correspond to each other before and after a step have the    *)
(* same trees.                                                             *)
LEMMA TreesKept ==
  ASSUME LevelInv, TreeInv, LevelInv', TreeInv', NEW E, NEW m, Corresponds(heap, heap', E, m)
  PROVE  \A a \in E : Json'[m[a]] = Json[a]
<1>1. /\ Json = JsonOf(heap) /\ Json' = JsonOf(heap')
      /\ Layered(heap, MaxDepth) /\ Layered(heap', MaxDepth)
  BY Both
<1>2. \A a \in E : JsonOf(heap')[m[a]] = JsonOf(heap)[a]
  BY <1>1, JsonAgrees, CallTreeAssumption
<1> QED
  BY <1>1, <1>2

(* A call opens: the open calls around it keep what they have.             *)
LEMMA EnterStep ==
  ASSUME LevelInv, TreeInv, LevelInv', TreeInv', root # Null, NEW f \in Fun,
         Len(stack) < MaxDepth, CallhookIN(f)
  PROVE  OpenCalls' = Append(OpenCalls, [fn |-> f, sub |-> <<>>])
<1>1. level \in Nat \ {0} /\ stack \in Seq(Record) /\ level = Len(stack)
  BY DEF LevelInv, StackTypeOK, LevelIsDepth
<1>2. PICK p \in [1 .. level -> DOMAIN heap] : OnPath(p)
  BY DEF TreeInv
<1>3. level \in 1 .. level /\ p[level] = node /\ heap[node].level = level /\ node \in DOMAIN heap
  BY <1>1, <1>2 DEF OnPath
<1>4. /\ level' = level + 1 /\ stack' = Append(stack, [fn |-> f, level |-> level + 1])
      /\ AddNode(NewNode(f, level + 1))
  BY DEF CallhookIN
<1> DEFINE n == NewNode(f, level + 1)
<1>5. AddChild(node, n)
  <2>1. n.level # heap[node].level
    BY <1>1, <1>3 DEF NewNode
  <2> QED
    BY <1>4, <2>1 DEF AddNode
<1>6. level < MaxDepth /\ brk \in Nat
  BY <1>1 DEF TreeInv
<1>7. /\ root' # Null
      /\ \E q \in [1 .. level' -> DOMAIN heap'] :
           OnPath(q)' /\ q[level'] = brk' /\ \A i \in 1 .. level : q[i] = p[i]
  BY <1>1, <1>2, <1>4, <1>5, <1>6, AddChildStep DEF TreeInv
<1>8. PICK q \in [1 .. level' -> DOMAIN heap'] :
           OnPath(q)' /\ q[level'] = brk' /\ \A i \in 1 .. level : q[i] = p[i]
  BY <1>7
<1>9. PICK m : Moved(m, n)
  BY <1>3, <1>5, <1>6, AddChildMoves DEF TreeInv
<1> HIDE DEF n
<1>10. \A i \in 1 .. level : m[p[i]] = p[i]
  BY <1>1, <1>2, <1>9, PathStays DEF TreeInv
<1>m. /\ \A a \in DOMAIN heap :
              /\ heap'[m[a]] \in NodeRecord
              /\ heap'[m[a]].fn = heap[a].fn /\ heap'[m[a]].level = heap[a].level
              /\ heap'[m[a]].parent = heap[a].parent /\ heap'[m[a]].ended = heap[a].ended
              /\ a # node => DOMAIN heap'[m[a]].kids = DOMAIN heap[a].kids
              /\ \A i \in DOMAIN heap[a].kids :
                   i \in DOMAIN heap'[m[a]].kids /\ heap'[m[a]].kids[i] = m[heap[a].kids[i]]
      /\ DOMAIN heap'[node].kids = DOMAIN heap[node].kids \cup {Len(heap[node].kids) + 1}
      /\ Len(heap'[node].kids) = Len(heap[node].kids) + 1
      /\ heap'[node].kids[Len(heap[node].kids) + 1] = brk'
  BY <1>3, <1>9, MovedNodes DEF TreeInv
<1>11. \A a \in DOMAIN heap : heap'[m[a]].fn = heap[a].fn
  BY <1>m
<1>12. \A a \in DOMAIN heap : a # node => DOMAIN heap'[m[a]].kids = DOMAIN heap[a].kids
  BY <1>m
<1>13. \A a \in DOMAIN heap : \A i \in DOMAIN heap[a].kids : heap'[m[a]].kids[i] = m[heap[a].kids[i]]
  BY <1>m
<1>14. Len(heap'[node].kids) = Len(heap[node].kids) + 1
  BY <1>m
<1>15. \A a \in DOMAIN heap : a # node => heap'[m[a]] = heap[a]
  BY <1>9 DEF Moved
<1>16. \A a \in DOMAIN heap : m[a] \in DOMAIN heap'
  BY <1>9 DEF Moved
<1> DEFINE E == {a \in DOMAIN heap : heap[a].ended}
<1>17. ~heap[node].ended
  BY <1>2, <1>3 DEF OnPath
<1>18. ASSUME NEW a \in E
       PROVE  /\ m[a] \in DOMAIN heap'
              /\ heap'[m[a]].fn = heap[a].fn
              /\ DOMAIN heap'[m[a]].kids = DOMAIN heap[a].kids
              /\ \A i \in DOMAIN heap[a].kids :
                   heap[a].kids[i] \in E /\ m[heap[a].kids[i]] = heap'[m[a]].kids[i]
  <2>1. a \in DOMAIN heap /\ a # node /\ heap[a].ended
    BY <1>17
  <2>2. \A i \in DOMAIN heap[a].kids : heap[a].kids[i] \in E
    BY <2>1 DEF TreeInv, KidsOK
  <2> HIDE DEF E
  <2> QED
    BY <1>11, <1>12, <1>13, <1>16, <2>1, <2>2
<1>19. /\ OpenIsOpenOn /\ OpenIsOpenOn'
       /\ Json = JsonOf(heap) /\ Json' = JsonOf(heap')
       /\ Layered(heap, MaxDepth) /\ Layered(heap', MaxDepth)
  BY Both
<1>20. \A a \in E : Json'[m[a]] = Json[a]
  <2>1. E \subseteq DOMAIN heap
    OBVIOUS
  <2> HIDE DEF E
  <2>2. Corresponds(heap, heap', E, m)
    BY <1>18, <2>1 DEF Corresponds
  <2> QED
    BY <2>2, TreesKept
<1>21. OpenCalls = OpenOn(p)
  BY <1>2, <1>19 DEF OpenIsOpenOn
<1>22. OpenCalls' = OpenOn(q)'
  BY <1>7, <1>8, <1>19 DEF OpenIsOpenOn
<1> DEFINE s == OpenCalls
           t == OpenCalls'
<1>23. \A i \in 1 .. level :
         s[i] = [fn |-> stack[i].fn, sub |-> [k \in 1 .. Finished(p, i) |-> Json[heap[p[i]].kids[k]]]]
  BY <1>21 DEF OpenOn
<1>24. \A i \in 1 .. level + 1 :
         t[i] = [fn |-> stack'[i].fn, sub |-> [k \in 1 .. Finished(q, i)' |-> Json'[heap'[q[i]].kids[k]]]]
  BY <1>4, <1>22 DEF OpenOn
<1>25. Indexed(s, level) /\ Indexed(t, level + 1)
  <2>1. Indexed(OpenOn(p), level)
    BY DEF OpenOn, Indexed
  <2>2. Indexed(OpenOn(q)', level + 1)
    BY <1>4 DEF OpenOn, Indexed
  <2> QED
    BY <1>21, <1>22, <2>1, <2>2
<1>26. ASSUME NEW i \in 1 .. level PROVE t[i] = s[i]
  <2>1. q[i] = p[i] /\ p[i] \in DOMAIN heap /\ m[p[i]] = p[i] /\ heap[p[i]] \in NodeRecord
    BY <1>8, <1>10 DEF TreeInv, NodesOK
  <2>2. stack'[i] = stack[i] /\ i \in 1 .. level + 1
    BY <1>1, <1>4
  <2>3. Len(heap[p[i]].kids) \in Nat
    BY <2>1 DEF NodeRecord
  <2>4. Finished(q, i)' = Finished(p, i)
    <3>1. i # level'
      BY <1>1, <1>4
    <3>2. CASE i = level
      <4>1. q[i] = node /\ p[i] = node
        BY <1>3, <2>1, <3>2
      <4>2. Finished(q, i)' = Len(heap'[node].kids) - 1
        BY <3>1, <4>1 DEF Finished
      <4>3. Finished(p, i) = Len(heap[node].kids)
        BY <2>3, <3>2, <4>1 DEF Finished
      <4> QED
        BY <1>14, <2>3, <4>1, <4>2, <4>3
    <3>3. CASE i # level
      <4>1. p[i] # node
        <5>1. heap[p[i]].level = i
          BY <1>2 DEF OnPath
        <5> QED
          BY <1>3, <3>3, <5>1
      <4>2. heap'[p[i]] = heap[p[i]]
        BY <1>15, <2>1, <4>1
      <4> QED
        BY <2>1, <3>1, <3>3, <4>2 DEF Finished
    <3> QED
      BY <3>2, <3>3
  <2>5. ASSUME NEW k \in 1 .. Finished(p, i) PROVE Json'[heap'[q[i]].kids[k]] = Json[heap[p[i]].kids[k]]
    <3>1. /\ k \in DOMAIN heap[p[i]].kids
          /\ heap[p[i]].kids[k] \in E
      BY <1>2, FinishedEnded
    <3>2. heap'[q[i]].kids[k] = m[heap[p[i]].kids[k]]
      BY <1>13, <2>1, <3>1
    <3> HIDE DEF E
    <3> QED
      BY <1>20, <3>1, <3>2
  <2>6. [k \in 1 .. Finished(q, i)' |-> Json'[heap'[q[i]].kids[k]]]
         = [k \in 1 .. Finished(p, i) |-> Json[heap[p[i]].kids[k]]]
    BY <2>4, <2>5
  <2> QED
    BY ZenonT(30), <1>23, <1>24, <2>2, <2>6
<1>27. t[level + 1] = [fn |-> f, sub |-> <<>>]
  <2>1. PICK j \in 1 .. level + 1 : j = level + 1
    BY <1>1
  <2>2. stack'[j].fn = f
    BY <1>1, <1>4, <2>1
  <2>3. heap'[brk'].kids = <<>> /\ q[j] = brk' /\ j = level'
    BY <1>4, <1>8, <1>9, <2>1 DEF Moved, n, NewNode
  <2>4. Finished(q, j)' = 0
    BY <2>3 DEF Finished
  <2>5. [k \in 1 .. Finished(q, j)' |-> Json'[heap'[q[j]].kids[k]]] = <<>>
    <3> DEFINE x(k) == Json'[heap'[q[j]].kids[k]]
    <3> HIDE DEF x
    <3>1. [k \in 1 .. 0 |-> x(k)] = <<>>
      OBVIOUS
    <3> QED
      BY <2>4, <3>1 DEF x
  <2>6. t[j] = [fn |-> stack'[j].fn, sub |-> [k \in 1 .. Finished(q, j)' |-> Json'[heap'[q[j]].kids[k]]]]
    BY <1>24
  <2> QED
    BY <2>1, <2>2, <2>5, <2>6
<1> HIDE DEF s, t
<1>28. t = Append(s, [fn |-> f, sub |-> <<>>])
  BY <1>1, <1>25, <1>26, <1>27, IndexedAppend
<1> QED
  BY <1>28 DEF s, t

(* A call that no other encloses: what Json makes of the innermost call is *)
(* what OpenCalls holds of it.                                             *)
LEMMA InnermostTree ==
  ASSUME NEW h, Layered(h, MaxDepth), NEW a \in DOMAIN h
  PROVE  JsonOf(h)[a] =
           [fn |-> h[a].fn, sub |-> [k \in DOMAIN h[a].kids |-> JsonOf(h)[h[a].kids[k]]]]
<1> DEFINE f == JsonOf(h)
<1>1. IsJson(h, f)
  BY JsonExists, CallTreeAssumption
<1> HIDE DEF f
<1>2. f[a] = JsonNode(h, f, a)
  BY <1>1 DEF IsJson
<1> QED
  BY <1>2 DEF JsonNode, f

(* A call ends: its tree becomes the last finished child of the call around*)
(* it.                                                                     *)
LEMMA LeaveStep ==
  ASSUME LevelInv, TreeInv, LevelInv', TreeInv', CallhookOUTInner
  PROVE  /\ Len(OpenCalls) > 1
         /\ OpenCalls' = [Front(OpenCalls) EXCEPT ![Len(OpenCalls) - 1].sub = Append(@, Last(OpenCalls))]
<1>1. /\ level \in Nat /\ level > 1 /\ level' = level - 1 /\ stack' = Front(stack) /\ stack # <<>>
      /\ stack \in Seq(Record) /\ level = Len(stack) /\ root # Null
      /\ heap' = Ended(heap, node)
  BY DEF CallhookOUTInner, LevelInv, StackTypeOK, LevelIsDepth
<1>2. PICK p \in [1 .. level -> DOMAIN heap] : OnPath(p)
  BY <1>1 DEF TreeInv
<1>3. /\ root' # Null
      /\ \E q \in [1 .. level' -> DOMAIN heap'] : OnPath(q)' /\ \A i \in 1 .. level' : q[i] = p[i]
  BY <1>2, InnerStep
<1>4. PICK q \in [1 .. level' -> DOMAIN heap'] : OnPath(q)' /\ \A i \in 1 .. level' : q[i] = p[i]
  BY <1>3
<1>5. p[level] = node /\ node \in DOMAIN heap /\ level \in 1 .. level
      /\ level - 1 \in 1 .. level /\ level - 1 \in 1 .. level'
  BY <1>1, <1>2 DEF OnPath
<1>6. /\ DOMAIN heap' = DOMAIN heap
      /\ \A a \in DOMAIN heap :
           /\ heap'[a].fn = heap[a].fn /\ heap'[a].level = heap[a].level
           /\ heap'[a].parent = heap[a].parent /\ heap'[a].kids = heap[a].kids
           /\ heap'[a].ended = (a = node \/ heap[a].ended)
           /\ heap'[a] \in NodeRecord
  BY <1>1, <1>5, EndedNodes DEF TreeInv
<1>7. \A a \in DOMAIN heap : heap'[a].fn = heap[a].fn /\ heap'[a].kids = heap[a].kids
  BY <1>6
<1>8. PICK m : m = [a \in DOMAIN heap |-> a]
  OBVIOUS
<1>9. PICK E : E = DOMAIN heap
  OBVIOUS
<1>10. Corresponds(heap, heap', E, m)
  <2>1. \A a \in DOMAIN heap : \A i \in DOMAIN heap[a].kids : heap[a].kids[i] \in DOMAIN heap
    BY DEF TreeInv, KidsOK
  <2> QED
    BY <1>6, <1>7, <1>8, <1>9, <2>1 DEF Corresponds
<1>11. \A a \in DOMAIN heap : Json'[a] = Json[a]
  BY <1>8, <1>9, <1>10, TreesKept
<1>12. /\ OpenIsOpenOn /\ OpenIsOpenOn'
       /\ Json = JsonOf(heap) /\ Layered(heap, MaxDepth)
  BY Both
<1>13. OpenCalls = OpenOn(p)
  BY <1>1, <1>2, <1>12 DEF OpenIsOpenOn
<1>14. OpenCalls' = OpenOn(q)'
  BY <1>3, <1>4, <1>12 DEF OpenIsOpenOn
<1> DEFINE s == OpenCalls
           t == OpenCalls'
<1>15. \A i \in 1 .. level :
         s[i] = [fn |-> stack[i].fn, sub |-> [k \in 1 .. Finished(p, i) |-> Json[heap[p[i]].kids[k]]]]
  BY <1>13 DEF OpenOn
<1>16. \A i \in 1 .. level' :
         t[i] = [fn |-> stack'[i].fn, sub |-> [k \in 1 .. Finished(q, i)' |-> Json'[heap'[q[i]].kids[k]]]]
  BY <1>14 DEF OpenOn
<1>17. Indexed(s, level) /\ Indexed(t, level - 1)
  <2>1. Indexed(OpenOn(p), level)
    BY DEF OpenOn, Indexed
  <2>2. Indexed(OpenOn(q)', level - 1)
    BY <1>1 DEF OpenOn, Indexed
  <2> QED
    BY <1>13, <1>14, <2>1, <2>2
<1>18. ASSUME NEW i \in 1 .. level'
       PROVE  /\ i \in 1 .. level /\ i # level /\ q[i] = p[i] /\ p[i] \in DOMAIN heap
              /\ heap'[p[i]].kids = heap[p[i]].kids
              /\ heap[p[i]].kids \in Seq(Nat) /\ heap[p[i]].kids # <<>>
              /\ stack'[i].fn = stack[i].fn
              /\ \A k \in DOMAIN heap[p[i]].kids : Json'[heap[p[i]].kids[k]] = Json[heap[p[i]].kids[k]]
  <2>1. i \in 1 .. level /\ i # level /\ i \in 1 .. level - 1 /\ i + 1 \in 2 .. level
    BY <1>1
  <2>2. q[i] = p[i] /\ p[i] \in DOMAIN heap /\ heap[p[i]] \in NodeRecord
    BY <1>4, <2>1 DEF TreeInv, NodesOK
  <2>3. heap[p[i]].kids # <<>>
    <3>1. \A j \in 2 .. level : heap[p[j - 1]].kids # <<>>
      BY <1>2 DEF OnPath
    <3>2. PICK j \in 2 .. level : j - 1 = i
      BY <2>1
    <3> QED
      BY <3>1, <3>2
  <2>4. stack'[i] = stack[i]
    BY <1>1, <2>1, FrontOfStack
  <2>5. \A k \in DOMAIN heap[p[i]].kids : heap[p[i]].kids[k] \in DOMAIN heap
    BY <2>2 DEF TreeInv, KidsOK
  <2> QED
    BY <1>7, <1>11, <2>1, <2>2, <2>3, <2>4, <2>5 DEF NodeRecord
<1>19. ASSUME NEW i \in 1 .. level - 2 PROVE t[i] = s[i]
  <2>1. i \in 1 .. level' /\ i # level' /\ i # level
    BY <1>1
  <2>2. Finished(q, i)' = Len(heap[p[i]].kids) - 1 /\ Finished(p, i) = Len(heap[p[i]].kids) - 1
    BY <1>18, <2>1 DEF Finished
  <2>3. Len(heap[p[i]].kids) \in Nat /\ DOMAIN heap[p[i]].kids = 1 .. Len(heap[p[i]].kids)
    BY <1>18, <2>1
  <2>4. \A k \in 1 .. Len(heap[p[i]].kids) - 1 : Json'[heap'[q[i]].kids[k]] = Json[heap[p[i]].kids[k]]
    BY <1>18, <2>1, <2>3
  <2>5. [k \in 1 .. Finished(q, i)' |-> Json'[heap'[q[i]].kids[k]]]
         = [k \in 1 .. Finished(p, i) |-> Json[heap[p[i]].kids[k]]]
    BY <2>2, <2>4
  <2>6. stack'[i].fn = stack[i].fn /\ i \in 1 .. level
    BY <1>18, <2>1
  <2>7. s[i] = [fn |-> stack[i].fn, sub |-> [k \in 1 .. Finished(p, i) |-> Json[heap[p[i]].kids[k]]]]
    BY <1>15, <2>6
  <2>8. t[i] = [fn |-> stack'[i].fn, sub |-> [k \in 1 .. Finished(q, i)' |-> Json'[heap'[q[i]].kids[k]]]]
    BY <1>16, <2>1
  <2> QED
    BY <2>5, <2>6, <2>7, <2>8
<1>20. PICK l \in 1 .. level' : l = level - 1 /\ l = level' /\ l \in 1 .. level /\ l # level /\ l + 1 = level
  BY <1>1, <1>5
<1> DEFINE K == heap[p[l]].kids
           N == heap[node].kids
<1>21. /\ K \in Seq(Nat) /\ Len(K) \in Nat /\ DOMAIN K = 1 .. Len(K) /\ K[Len(K)] = node /\ Len(K) >= 1
       /\ heap'[q[l]].kids = K
  <2>1. K \in Seq(Nat) /\ K # <<>> /\ q[l] = p[l] /\ heap'[p[l]].kids = K
    BY <1>18
  <2>2. Last(K) = node
    <3>1. \A j \in 2 .. level : Last(heap[p[j - 1]].kids) = p[j]
      BY <1>2 DEF OnPath
    <3>2. level \in 2 .. level /\ level - 1 = l
      BY <1>1, <1>20
    <3> QED
      BY <1>5, <3>1, <3>2
  <2> HIDE DEF K
  <2> QED
    BY <2>1, <2>2 DEF Last
<1>22. s[l] = [fn |-> stack[l].fn, sub |-> [k \in 1 .. Len(K) - 1 |-> Json[K[k]]]]
  <2>1. Finished(p, l) = Len(K) - 1
    BY <1>20 DEF Finished
  <2> QED
    BY <1>15, <1>20, <2>1
<1>23. t[l] = [fn |-> stack[l].fn, sub |-> [k \in 1 .. Len(K) |-> Json[K[k]]]]
  <2>1. Finished(q, l)' = Len(K)
    <3>1. Finished(q, l)' = Len(heap'[q[l]].kids) - 0
      BY <1>20 DEF Finished
    <3> QED
      BY <1>21, <3>1
  <2>2. \A k \in 1 .. Len(K) : Json'[heap'[q[l]].kids[k]] = Json[K[k]]
    BY <1>18, <1>21
  <2>3. [k \in 1 .. Finished(q, l)' |-> Json'[heap'[q[l]].kids[k]]] = [k \in 1 .. Len(K) |-> Json[K[k]]]
    BY <2>1, <2>2
  <2>4. stack'[l].fn = stack[l].fn
    BY <1>18
  <2> QED
    BY <1>16, <2>3, <2>4
<1>24. s[level] = Json[node]
  <2>1. Json[node] = [fn |-> heap[node].fn, sub |-> [k \in DOMAIN N |-> Json[N[k]]]]
    BY <1>5, <1>12, InnermostTree
  <2>2. heap[node].fn = stack[level].fn
    BY <1>2, <1>5 DEF OnPath
  <2>3. N \in Seq(Nat) /\ DOMAIN N = 1 .. Len(N)
    <3>1. heap[node] \in NodeRecord
      BY <1>5 DEF TreeInv, NodesOK
    <3>2. N \in Seq(Nat)
      BY <3>1 DEF NodeRecord
    <3> HIDE DEF N
    <3> QED
      BY <3>2
  <2>4. Finished(p, level) = Len(N)
    BY <1>5, <2>3 DEF Finished
  <2> QED
    BY <1>5, <1>15, <2>1, <2>2, <2>3, <2>4
<1> DEFINE u == [k \in 1 .. Len(K) - 1 |-> Json[K[k]]]
           v == [k \in 1 .. Len(K) |-> Json[K[k]]]
<1>25. v = Append(u, s[level])
  <2>1. PICK n \in Nat : n = Len(K) - 1 /\ n + 1 = Len(K)
    BY <1>21
  <2>2. Indexed(u, n) /\ Indexed(v, n + 1)
    BY <2>1 DEF Indexed
  <2>3. \A k \in 1 .. n : v[k] = u[k]
    BY <2>1
  <2>4. v[n + 1] = Json[K[Len(K)]]
    <3>1. n + 1 \in 1 .. Len(K)
      BY <1>21, <2>1
    <3> HIDE DEF K
    <3>2. v[n + 1] = Json[K[n + 1]]
      BY <3>1
    <3> QED
      BY <2>1, <3>2
  <2>5. v[n + 1] = s[level]
    BY <1>21, <1>24, <2>4
  <2> HIDE DEF u, v
  <2> QED
    BY <2>2, <2>3, <2>5, IndexedAppend
<1>26. s[level - 1] = [fn |-> stack[l].fn, sub |-> u] /\ t[level - 1] = [fn |-> stack[l].fn, sub |-> v]
  BY <1>20, <1>22, <1>23
<1> HIDE DEF s, t, u, v
<1>28. t[level - 1] = [fn |-> stack[l].fn, sub |-> Append(u, s[level])]
  BY <1>25, <1>26
<1>29. PICK f : f = stack[l].fn
  OBVIOUS
<1>30. Leaves(level, s, t, f, u)
  BY <1>1, <1>17, <1>19, <1>26, <1>28, <1>29 DEF Leaves
<1>27. /\ Len(s) = level
       /\ t = [Front(s) EXCEPT ![Len(s) - 1].sub = Append(@, Last(s))]
  BY <1>30, IndexedLeave
<1> QED
  BY <1>1, <1>27 DEF s, t

(* The tree that is passed on is the one open call. *)
LEMMA OuterTree ==
  ASSUME LevelInv, TreeInv, root # Null, level = 1
  PROVE  Len(OpenCalls) = 1 /\ Head(OpenCalls) = Json[root]
<1>1. PICK p \in [1 .. level -> DOMAIN heap] : OnPath(p)
  BY DEF TreeInv
<1>2. p[1] = root /\ 1 \in 1 .. level /\ root \in DOMAIN heap /\ heap[root].fn = stack[1].fn
  BY <1>1 DEF OnPath
<1>3. Layered(heap, MaxDepth) /\ Json = JsonOf(heap)
  BY HeapIsLayered, JsonMeaning DEF TreeInv
<1>4. Json[root] = [fn |-> heap[root].fn, sub |-> [k \in DOMAIN heap[root].kids |-> Json[heap[root].kids[k]]]]
  BY <1>2, <1>3, InnermostTree
<1>5. DOMAIN heap[root].kids = 1 .. Len(heap[root].kids) /\ Len(heap[root].kids) \in Nat
  BY <1>2 DEF TreeInv, NodesOK, NodeRecord
<1>6. Finished(p, 1) = Len(heap[root].kids)
  BY <1>2, <1>5 DEF Finished
<1>7. OpenCalls = OpenOn(p)
  BY <1>1, OpenCallsFound DEF OpenIsOpenOn
<1>8. OpenOn(p)[1] = Json[root]
  BY <1>2, <1>4, <1>5, <1>6 DEF OpenOn
<1>9. Indexed(OpenOn(p), 1)
  BY DEF OpenOn, Indexed
<1> DEFINE s == OpenOn(p)
<1> HIDE DEF s
<1>10. PICK S : s \in Seq(S) /\ Len(s) = 1
  BY <1>9, IndexedIsSeq DEF s
<1>11. Head(s) = s[1]
  BY <1>10
<1> QED
  BY <1>7, <1>8, <1>10, <1>11 DEF s
-----------------------------------------------------------------------------
(* The initial state maps to the initial state of CallNesting.             *)
LEMMA NestingInitially == Init => Nesting!NestingInit
<1> SUFFICES ASSUME Init PROVE Nesting!NestingInit
  OBVIOUS
<1>1. OpenCalls = <<>>
  BY LevelInit, TreeInit, OpenCallsFound DEF OpenIsOpenOn, Init
<1> QED
  BY <1>1 DEF Init, Nesting!NestingInit, Nothing, Nesting!Nothing

(* Every step maps to a step of CallNesting or to a stutter.               *)
LEMMA NestingStep ==
  /\ LevelInv /\ TreeInv /\ LevelInv' /\ TreeInv'
  /\ [Next]_callTreeVars
  => [Nesting!NestingNext]_Nesting!nestingVars
<1> SUFFICES ASSUME LevelInv, TreeInv, LevelInv', TreeInv', [Next]_callTreeVars
             PROVE  [Nesting!NestingNext]_Nesting!nestingVars
  OBVIOUS
<1>1. OpenIsOpenOn /\ OpenIsOpenOn'
  BY Both
<1>2. /\ level \in Nat /\ level = Len(stack) /\ stack \in Seq(Record)
      /\ (root = Null) <=> (stack = <<>>)
      /\ (root' = Null) <=> (stack' = <<>>)
  BY DEF LevelInv, StackTypeOK, LevelIsDepth
<1>3. stack = <<>> => OpenCalls = <<>>
  BY <1>1, <1>2 DEF OpenIsOpenOn
<1>4. stack' = <<>> => OpenCalls' = <<>>
  BY <1>1, <1>2 DEF OpenIsOpenOn
<1>5. ASSUME NEW f \in Fun, Len(stack) < MaxDepth, CallhookIN(f) PROVE Nesting!Enter(f)
  <2>1. given' = Nothing /\ preFrame' = preFrame
    BY <1>5 DEF CallhookIN
  <2>2. OpenCalls' = Append(OpenCalls, [fn |-> f, sub |-> <<>>])
    <3>1. CASE root # Null
      BY <1>5, <3>1, EnterStep
    <3>2. CASE root = Null
      <4>1. OpenCalls = <<>>
        BY <1>1, <3>2 DEF OpenIsOpenOn
      <4>2. stack = <<>> /\ level = 0 /\ brk = 0 /\ DOMAIN heap = {}
        BY <1>2, <3>2 DEF LevelInv, StackTypeOK, TreeInv, Null
      <4>3. /\ level' = 1 /\ stack' = Append(stack, [fn |-> f, level |-> 1])
            /\ brk' = 1 /\ root' = 1 /\ node' = 1
            /\ heap' = [a \in {1} |-> NewNode(f, 1)]
        BY <1>5, <3>2, <4>2 DEF CallhookIN, AddNode, AddChild
      <4>4. PICK q \in [1 .. level' -> DOMAIN heap'] : OnPath(q)'
        BY <4>3 DEF TreeInv, Null
      <4>5. q[1] = 1 /\ heap'[1].kids = <<>> /\ stack'[1].fn = f
        BY <4>2, <4>3, <4>4 DEF NewNode
      <4>6. OpenCalls' = OpenOn(q)'
        BY <1>1, <4>3, <4>4 DEF OpenIsOpenOn, Null
      <4>7. Finished(q, 1)' = 0
        BY <4>3, <4>5 DEF Finished
      <4>8. OpenOn(q)' = [i \in 1 .. 1 |->
               [fn |-> stack'[i].fn, sub |-> [k \in 1 .. Finished(q, i)' |-> Json'[heap'[q[i]].kids[k]]]]]
        BY <4>3 DEF OpenOn
      <4>9. [k \in 1 .. Finished(q, 1)' |-> Json'[heap'[q[1]].kids[k]]] = <<>>
        <5> DEFINE x(k) == Json'[heap'[q[1]].kids[k]]
        <5> HIDE DEF x
        <5>1. [k \in 1 .. 0 |-> x(k)] = <<>>
          OBVIOUS
        <5> QED
          BY <4>7, <5>1 DEF x
      <4>10. Indexed(OpenOn(q)', 1)
        BY <4>3 DEF OpenOn, Indexed
      <4>a. OpenOn(q)'[1] = [fn |-> f, sub |-> <<>>]
        <5>1. OpenOn(q)'[1] = [fn |-> stack'[1].fn,
                               sub |-> [k \in 1 .. Finished(q, 1)' |-> Json'[heap'[q[1]].kids[k]]]]
          BY <4>8
        <5> QED
          BY <4>5, <4>9, <5>1
      <4> DEFINE t == OpenOn(q)'
      <4> HIDE DEF t
      <4>11. t = [i \in 1 .. 1 |-> t[i]] /\ t[1] = [fn |-> f, sub |-> <<>>]
        BY <4>10, <4>a DEF Indexed, t
      <4>12. t = <<[fn |-> f, sub |-> <<>>]>>
        BY <4>11
      <4> QED
        BY <4>1, <4>6, <4>12 DEF t
    <3> QED
      BY <3>1, <3>2
  <2> QED
    BY <2>1, <2>2 DEF Nesting!Enter, Nothing, Nesting!Nothing
<1>6. ASSUME CallhookOUTUnmatched PROVE Nesting!LeaveUnmatched
  <2>1. stack = <<>> /\ given' = Nothing /\ stack' = stack /\ preFrame' = preFrame
    BY <1>2, <1>6 DEF CallhookOUTUnmatched, stackVars
  <2> QED
    BY <1>3, <1>4, <2>1 DEF Nesting!LeaveUnmatched, Nothing, Nesting!Nothing
<1>7. ASSUME CallhookOUTInner PROVE Nesting!LeaveInner
  <2>1. given' = Nothing /\ preFrame' = preFrame
    BY <1>7 DEF CallhookOUTInner
  <2> QED
    BY <1>7, <2>1, LeaveStep
       DEF Nesting!LeaveInner, Nothing, Nesting!Nothing, Front, Last, Nesting!Front, Nesting!Last
<1>8. ASSUME CallhookOUTOuter PROVE \E took \in BOOLEAN : Nesting!LeaveOuter(took)
  <2>1. stack # <<>> /\ level = 1 /\ stack' = Front(stack) /\ root # Null
    BY <1>2, <1>8 DEF CallhookOUTOuter
  <2>2. given' = [kind |-> "tree", tree |-> Json[root]] /\ preFrame' \in BOOLEAN /\ root' = Null
    BY <1>8, <2>1 DEF CallhookOUTOuter, FreeTree
  <2>3. Len(OpenCalls) = 1 /\ Head(OpenCalls) = Json[root]
    BY <2>1, OuterTree
  <2>4. OpenCalls' = <<>>
    BY <1>1, <2>2 DEF OpenIsOpenOn
  <2> QED
    BY <2>2, <2>3, <2>4 DEF Nesting!LeaveOuter, Nesting!TreeOut
<1>9. ASSUME NEW id \in FrameId, Frame(id) PROVE Nesting!Mark(id)
  <2>1. stack' = <<>> /\ given' = [kind |-> "frame", id |-> id, lua |-> preFrame] /\ preFrame' = FALSE
    BY <1>9 DEF Frame, FrameStack, FrameHeader
  <2> QED
    BY <1>4, <2>1 DEF Nesting!Mark, Nesting!FrameOut
<1>10. ASSUME Restart PROVE Nesting!Forget
  <2>1. stack' = <<>> /\ given' = Nothing /\ preFrame' = preFrame
    BY <1>10 DEF Restart
  <2> QED
    BY <1>4, <2>1 DEF Nesting!Forget, Nothing, Nesting!Nothing
<1>11. ASSUME UNCHANGED callTreeVars PROVE UNCHANGED Nesting!nestingVars
  <2>1. /\ level' = level /\ stack' = stack /\ heap' = heap /\ brk' = brk /\ root' = root /\ node' = node
        /\ preFrame' = preFrame /\ given' = given
    BY <1>11 DEF callTreeVars, stackVars, treeVars
  <2>2. OpenCalls' = OpenCalls
    <3>1. CASE root = Null
      BY <1>1, <2>1, <3>1 DEF OpenIsOpenOn
    <3>2. CASE root # Null
      <4>1. PICK p \in [1 .. level -> DOMAIN heap] : OnPath(p)
        BY <3>2 DEF TreeInv
      <4>2. OnPath(p)' /\ p \in [1 .. level' -> DOMAIN heap']
        BY <2>1, <4>1 DEF OnPath
      <4>3. OpenCalls = OpenOn(p) /\ OpenCalls' = OpenOn(p)'
        BY <1>1, <2>1, <3>2, <4>1, <4>2 DEF OpenIsOpenOn
      <4>4. Json' = Json
        BY <2>1, Both
      <4>5. OpenOn(p)' = OpenOn(p)
        BY <2>1, <4>4 DEF OpenOn, Finished
      <4> QED
        BY <4>3, <4>5
    <3> QED
      BY <3>1, <3>2
  <2> QED
    BY <2>1, <2>2 DEF Nesting!nestingVars
<1> QED
  BY <1>5, <1>6, <1>7, <1>8, <1>9, <1>10, <1>11 DEF Next, CallhookOUT, Nesting!NestingNext

(* The heap, the pointers and the counters implement the nesting of calls: *)
(* each tree handed to the output is the tree of the calls and returns     *)
(* handled since its outermost call, and each frame header tells whether   *)
(* the trees since the one before it took time as measured                 *)
(* (core_profiler.c:67-150, stack.c:93-133, 354-411).                      *)
THEOREM TreeImplementsNesting == Spec => NestingRefinement
<1>1. (LevelInv /\ TreeInv /\ CountOK) /\ (LevelInv /\ TreeInv /\ CountOK)' /\ [Next]_callTreeVars
      => [Nesting!NestingNext]_Nesting!nestingVars
  BY NestingStep
<1> QED
  BY NestingInitially, <1>1, TreeInvariant, PTL DEF Spec, NestingRefinement, Nesting!NestingSpec
=============================================================================
