------------------------------ MODULE CallTree ------------------------------
(***************************************************************************)
(* The consumer's image of the Lua call stack and the tree it builds: the  *)
(* state g_S (core_profiler.c, function_meter.c) and the nodes of stack.c. *)
(*                                                                         *)
(* A tree node lives at an address.  The children of a node are one array  *)
(* that realloc enlarges and may move: the children then have new          *)
(* addresses, and the pParent of a grandchild still holds the old one.     *)
(*                                                                         *)
(* A call is known by its function; names, lines and times are left out,   *)
(* but for whether the end time of a node has been set and whether the     *)
(* time a frame header reports is positive.                                *)
(***************************************************************************)
EXTENDS Integers, Sequences, FiniteSets, FiniteSetsExt, SequencesExt

CONSTANTS
  Fun,        (* the functions Lua calls                                   *)
  FrameId,    (* the identifiers the host gives its frames                 *)
  MaxDepth,   (* bound: open calls                                         *)
  MaxNodes    (* bound: calls in one tree                                  *)

ASSUME CallTreeAssumption ==
  /\ MaxDepth \in Nat
  /\ MaxNodes \in Nat

VARIABLES
  level,      (* g_S->stack_level                                          *)
  stack,      (* g_S->stack_top and its next links, outermost call first   *)
  heap,       (* the allocated tree nodes, by address                      *)
  brk,        (* the last address malloc and realloc gave out              *)
  root,       (* pTreeRoot                                                 *)
  node,       (* pTreeNode                                                 *)
  preFrame,   (* dPreFrameLuaConsuming > 0                                 *)
  given       (* what the last handler passed to lprofP_addData/_addFrame  *)

stackVars == <<level, stack>>
treeVars == <<heap, brk, root, node>>
callTreeVars == <<stackVars, treeVars, preFrame, given>>

Null == 0
Nothing == [kind |-> "none"]

Init ==
  /\ level = 0 /\ stack = <<>>
  /\ heap = <<>> /\ brk = Null /\ root = Null /\ node = Null
  /\ preFrame = FALSE
  /\ given = Nothing
-----------------------------------------------------------------------------
NewNode(f, lv) ==
  [fn |-> f, level |-> lv, parent |-> Null, kids |-> <<>>, ended |-> FALSE]

AddChildToOldArray(p, n) ==     \* mutant: pTreeNode points into the old array
  LET kids == heap[p].kids
      new  == brk + Len(kids) + 1
  IN  /\ heap' = [a \in DOMAIN heap \cup {new} |->
                   IF a = new THEN [n EXCEPT !.parent = p]
                   ELSE IF a = p THEN [heap[p] EXCEPT !.kids = Append(kids, new)]
                   ELSE heap[a]]
      /\ brk' = new
      /\ node' = IF kids = <<>> THEN new ELSE Last(kids)
      /\ UNCHANGED root

(* lprofT_addchild: the first child is malloced, the next ones realloc the *)
(* array, which moves or stays.  where[i] is the address of child i then.  *)
AddChild(p, n) ==
  IF p = Null
  THEN node' = Null /\ UNCHANGED <<heap, brk, root>>
  ELSE \E moved \in BOOLEAN :
         LET kids  == heap[p].kids
             new   == brk + Len(kids) + 1
             where == [i \in 1 .. Len(kids) |-> IF moved THEN brk + i ELSE kids[i]]
         IN  /\ moved => kids # <<>>
             /\ heap' = [a \in (DOMAIN heap \ Range(kids)) \cup Range(where) \cup {new} |->
                          IF a = new THEN [n EXCEPT !.parent = p]
                          ELSE IF a = p THEN [heap[p] EXCEPT !.kids = Append(where, new)]
                          ELSE IF a \in Range(where)
                               THEN heap[kids[CHOOSE i \in DOMAIN where : where[i] = a]]
                          ELSE heap[a]]
             /\ node' = new /\ brk' = new
             /\ UNCHANGED root

(* lprofT_add: the first call of a tree is its root.  A later one becomes a *)
(* child of the current node, or of its parent if the level has not risen. *)
AddNode(n) ==
  \/ /\ root = Null
     /\ brk' = brk + 1
     /\ heap' = [a \in DOMAIN heap \cup {brk'} |-> IF a = brk' THEN n ELSE heap[a]]
     /\ root' = brk' /\ node' = brk'
  \/ /\ root # Null
     /\ AddChild(IF heap[node].level = n.level THEN heap[node].parent ELSE node, n)

(* lprofP_callhookIN, lprofM_enter_function, lprofS_push *)
CallhookIN(f) ==
  /\ level' = level + 1
  /\ stack' = Append(stack, [fn |-> f, level |-> level + 1])
  /\ AddNode(NewNode(f, level + 1))
  /\ given' = Nothing
  /\ UNCHANGED preFrame
-----------------------------------------------------------------------------
(* lprofT_pop, on the heap it is given: the current node ends and its      *)
(* parent, if it has one, becomes the current node.                        *)
Ended(h, n) == IF n = Null THEN h ELSE [h EXCEPT ![n].ended = TRUE]
Above(h, n) == IF n = Null \/ h[n].parent = Null THEN n ELSE h[n].parent

(* treeTojson follows the arrays of children from the root. *)
Json ==
  LET json[a \in DOMAIN heap] ==
        [fn |-> heap[a].fn,
         sub |-> [i \in DOMAIN heap[a].kids |-> json[heap[a].kids[i]]]]
  IN  json

(* The nodes lprofT_free reaches: it follows the same arrays. *)
Reachable ==
  LET below[a \in DOMAIN heap] ==
        {a} \cup UNION {below[heap[a].kids[i]] : i \in DOMAIN heap[a].kids}
  IN  IF root = Null THEN {} ELSE below[root]

FreeTreeForgotten ==            \* mutant: the tree is dropped, not freed
  /\ root' = Null
  /\ UNCHANGED <<heap, brk>>

(* With the tree gone its addresses may be given out again. *)
FreeTree ==
  /\ heap' = [a \in DOMAIN heap \ Reachable |-> heap[a]]
  /\ brk' = Null /\ root' = Null

(* lprofP_callhookOUT with no call open does nothing. *)
CallhookOUTUnmatched ==
  /\ stack = <<>> \/ level = 0
  /\ given' = Nothing
  /\ UNCHANGED <<stackVars, treeVars, preFrame>>

(* A call returns into the call around it: lprofS_pop and lprofT_pop.      *)
CallhookOUTInner ==
  /\ stack # <<>> /\ level > 1
  /\ level' = level - 1
  /\ stack' = Front(stack)
  /\ heap' = Ended(heap, node)
  /\ node' = Above(heap, node)
  /\ given' = Nothing
  /\ UNCHANGED <<brk, root, preFrame>>

(* The outermost call returns: lprofT_tojson converts the tree, frees it   *)
(* and passes it on; pTreeNode still points to the freed root.  The time   *)
(* added to dPreFrameLuaConsuming is what the clock measured: it may be 0, *)
(* and negative when the clock is set back, so the sum is positive or not. *)
CallhookOUTOuter ==
  /\ stack # <<>> /\ level = 1
  /\ level' = 0
  /\ stack' = Front(stack)
  /\ node' = Above(heap, node)
  /\ IF root = Null
     THEN /\ heap' = Ended(heap, node)
          /\ given' = Nothing
          /\ UNCHANGED <<brk, root, preFrame>>
     ELSE /\ FreeTree
          /\ given' = [kind |-> "tree", tree |-> Json[root]]
          /\ preFrame' \in BOOLEAN

CallhookOUT == CallhookOUTUnmatched \/ CallhookOUTInner \/ CallhookOUTOuter

FrameHeaderKeepsCount(id) ==    \* mutant: dPreFrameLuaConsuming is not reset
  /\ given' = [kind |-> "frame", id |-> id, lua |-> preFrame]
  /\ UNCHANGED preFrame

(* frameTojson: the header tells whether the trees since the last one took *)
(* time as the clock measured it.                                          *)
FrameHeader(id) ==
  /\ given' = [kind |-> "frame", id |-> id, lua |-> preFrame]
  /\ preFrame' = FALSE

FrameStackKeepsLevel ==         \* mutant: the records go, the level stays
  /\ stack' = <<>>
  /\ UNCHANGED level

FrameStack == level' = 0 /\ stack' = <<>>

(* lprofT_frame: calls that are still open are popped one by one and their *)
(* tree is freed without being passed on.                                  *)
Frame(id) ==
  /\ FrameHeader(id)
  /\ FrameStack
  /\ LET up[i \in 0 .. Len(stack)] == IF i = 0 THEN node ELSE Above(heap, up[i - 1])
     IN  node' = up[Len(stack)]
  /\ IF root # Null THEN FreeTree ELSE UNCHANGED <<heap, brk, root>>

(* profiler_stop, then profiler_start, with the consumer idle: lprofT_close *)
(* drops pTreeRoot, the state is freed and a new one made.  The nodes leak; *)
(* nothing points to them, and the model forgets them.  pTreeNode and      *)
(* dPreFrameLuaConsuming keep their values.                                *)
Restart ==
  /\ level' = 0 /\ stack' = <<>>
  /\ heap' = <<>> /\ brk' = Null /\ root' = Null
  /\ given' = Nothing
  /\ UNCHANGED <<node, preFrame>>
-----------------------------------------------------------------------------
Next ==
  \/ /\ Len(stack) < MaxDepth /\ Cardinality(DOMAIN heap) < MaxNodes
     /\ \E f \in Fun : CallhookIN(f)
  \/ CallhookOUT
  \/ \E id \in FrameId : Frame(id)
  \/ Restart

Spec == Init /\ [][Next]_callTreeVars
-----------------------------------------------------------------------------
TypeOK ==
  /\ level \in Nat
  /\ stack \in Seq([fn : Fun, level : Nat])
  /\ \A a \in DOMAIN heap :
       heap[a] \in [fn : Fun, level : Nat, parent : Nat, kids : Seq(Nat), ended : BOOLEAN]
  /\ brk \in Nat /\ root \in Nat /\ node \in Nat
  /\ preFrame \in BOOLEAN
  /\ given.kind \in {"none", "tree", "frame"}

(* g_S: the level counts the records of the stack, each record knows its   *)
(* depth, and a tree is under construction exactly while a call is open.   *)
(* So lprofM_leave_function and lprofM_resume_function find a call on the  *)
(* stack, as their assertions say (function_meter.c:100-134, 226-230).     *)
LevelIsDepth ==
  /\ level = Len(stack)
  /\ \A i \in 1 .. Len(stack) : stack[i].level = i
  /\ (root = Null) <=> (stack = <<>>)

(* The pParent links from pTreeNode, outermost node first.  A link that    *)
(* does not lead to an allocated node ends the walk.                       *)
Ancestor ==
  LET up[k \in 0 .. level] ==
        IF k = 0 THEN node
        ELSE IF up[k - 1] \in DOMAIN heap THEN heap[up[k - 1]].parent ELSE Null
  IN  up
Path == [i \in 1 .. level |-> Ancestor[level - i]]

(* The nodes from pTreeRoot to pTreeNode are allocated whatever realloc    *)
(* moved (stack.c:93-112), they are the open calls of the stack in order,  *)
(* and each is the last child of the one above it.                         *)
PathIsStack ==
  root # Null =>
    /\ Path[1] = root /\ Ancestor[level] = Null
    /\ \A i \in 1 .. level :
         /\ Path[i] \in DOMAIN heap
         /\ heap[Path[i]].fn = stack[i].fn /\ heap[Path[i]].level = i
    /\ \A i \in 2 .. level : Last(heap[Path[i - 1]].kids) = Path[i]

(* Exactly the open calls have no end time, so no tree is written with a   *)
(* node whose end was never set (stack.c:118-133, 393-394).                *)
OnlyOpenUnended == {a \in DOMAIN heap : ~heap[a].ended} = (IF root = Null THEN {} ELSE Range(Path))

(* The heap of the tree under construction, its path and its times fit the *)
(* consumer's stack, whatever realloc moved and frames threw away          *)
(* (stack.c:93-133, core_profiler.c:67-150).                               *)
HeapFitsStack == TypeOK /\ PathIsStack /\ OnlyOpenUnended

(* Within a session everything allocated hangs from the root, so that      *)
(* lprofT_free (stack.c:287-342) forgets nothing; without a root there is  *)
(* nothing.                                                                *)
NoNodeLost == DOMAIN heap = Reachable

(* What CallNesting calls open: the path, each node with the trees of its  *)
(* finished children.                                                      *)
OpenCalls ==
  [i \in 1 .. level |->
     LET kids == heap[Path[i]].kids
         done == IF i = level THEN kids ELSE Front(kids)
     IN  [fn |-> heap[Path[i]].fn, sub |-> [k \in DOMAIN done |-> Json[done[k]]]]]

Nesting == INSTANCE CallNesting WITH open <- OpenCalls, since <- preFrame

(* Heap, pointers and counters implement the nesting of calls: each tree   *)
(* handed to the output is the tree of the calls and returns handled since *)
(* its outermost call, and each header tells whether the trees since the   *)
(* one before it took time as measured, whatever frames and restarts came. *)
NestingRefinement == Nesting!NestingSpec
=============================================================================
