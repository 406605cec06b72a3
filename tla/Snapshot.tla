------------------------------ MODULE Snapshot ------------------------------
(***************************************************************************)
(* profiler_snapshot (lua50_profiler.c:433-848): the objects of the Lua    *)
(* heap are marked depth first from the registry, and every table found is *)
(* written to a file.                                                      *)
(*                                                                         *)
(* The functions mark_table, mark_userdata, mark_function, mark_thread and *)
(* mark_object take the value on top of a Lua stack and have to leave the  *)
(* stack without it.  The recursion is the sequence calls; each of its     *)
(* records says how far one of these functions has come.  The traversal of *)
(* a coroutine works on the stack of the coroutine.                        *)
(*                                                                         *)
(* The second Lua state holds, beside the marks, descriptions that nothing *)
(* reads: it is closed when the file is; gen_result has no caller.         *)
(***************************************************************************)
EXTENDS Integers, Sequences, SequencesExt

CONSTANTS
  Obj,          (* tables, userdata, functions and threads                  *)
  Plain,        (* any other value: nothing is marked for it                *)
  Nil,          (* no metatable                                             *)
  Registry,     (* the table LUA_REGISTRYINDEX                              *)
  Caller,       (* the thread that calls profiler_snapshot                  *)
  Heap,         (* the heaps a call may find                                *)
  MinStack,     (* LUA_MINSTACK                                             *)
  MaxStack      (* the slots a Lua stack can have                           *)

Value == Obj \cup {Plain}
Kind == {"table", "userdata", "function", "thread"}

(* Beside its metatable a table refers to keys and values, a userdata to   *)
(* its uservalue, a function to its upvalues and a thread to what is on    *)
(* its stack.  mode is the __mode of a table that serves as a metatable.   *)
(* A uservalue can be any value: the traversal is compiled in where LUAGETP *)
(* is defined (lp.h:28-32), which is in the ports to Lua 5.3.              *)
(* All functions, and all threads, share one metatable, normally none;     *)
(* mark_function and mark_thread do not look for it.                       *)
HeapType ==
  [kind : [Obj -> Kind], meta : [Obj -> Obj \cup {Nil}], mode : [Obj -> SUBSET {"k", "v"}],
   pairs : [Obj -> Seq(Value \X Value)], refs : [Obj -> Seq(Value)]]

ASSUME SnapshotAssumption ==
  /\ Registry \in Obj /\ Caller \in Obj
  /\ Plain \notin Obj /\ Nil \notin Obj
  /\ Heap \subseteq HeapType
  /\ \A h \in Heap :
       /\ h.kind[Registry] = "table" /\ h.kind[Caller] = "thread"
       /\ \A o \in Obj :
            /\ h.kind[o] \in {"function", "thread"} => h.meta[o] = Nil
            /\ h.meta[o] # Nil => h.kind[h.meta[o]] = "table"
  /\ MinStack \in Nat /\ MaxStack \in Nat
  /\ 3 <= MinStack /\ MinStack <= MaxStack

VARIABLES
  phase,        (* of the call of profiler_snapshot; "broken": an error has *)
                (* ended it, or it has lost its place on the stack          *)
  heap,         (* the heap it found; nothing changes it during the call    *)
  marked,       (* the MARK table of the second Lua state                   *)
  calls,        (* the active mark_ functions: [obj, L, at, i, refs]        *)
  lua,          (* what they have pushed on the stack of each thread        *)
  file,         (* the tables written, with the keys written for each       *)
  open          (* g_fMemorySnapshot is an open file                        *)

vars == <<phase, heap, marked, calls, lua, file, open>>

Init ==
  /\ phase = "idle"
  /\ heap \in Heap
  /\ marked = {} /\ calls = <<>> /\ file = <<>> /\ open = FALSE
  /\ lua = [t \in Obj |-> <<>>]
-----------------------------------------------------------------------------
Top == Last(calls)
Pairs == heap.pairs[Top.obj]
Refs == Top.refs

(* the weakness that mark_table reads from the metatable *)
Weak(o) == IF heap.meta[o] = Nil THEN {} ELSE heap.mode[heap.meta[o]]

(* The top record of calls goes on to at and i. *)
Advanced(at, i) == [calls EXCEPT ![Len(calls)].at = at, ![Len(calls)].i = i]

(* A call of the mark_ function for v.  A thread refers to what is on its   *)
(* stack when mark_thread looks how high that is: for the calling thread,   *)
(* if it is reached from a coroutine, to what the traversal has pushed, too. *)
Called(L, v) ==
  [obj |-> v, L |-> L, i |-> 0,
   at |-> IF heap.kind[v] \in {"table", "userdata"} THEN "meta" ELSE "refs",
   refs |-> IF v = Caller /\ L # Caller THEN lua[Caller] \o heap.refs[v] ELSE heap.refs[v]]

EnterAgain(L, v, c, s) ==       \* mutant: the mark is not tested
  /\ IF v \in Obj
     THEN /\ marked' = marked \cup {v}
          /\ calls' = Append(c, Called(L, v))
          /\ lua' = [lua EXCEPT ![L] = s]
     ELSE /\ calls' = c
          /\ lua' = [lua EXCEPT ![L] = Front(s)]
          /\ UNCHANGED marked
  /\ UNCHANGED phase

(* readobject for v, which is on top of s, the new stack of L; c is calls   *)
(* with the caller advanced.  An object not yet marked stays on the stack   *)
(* for its mark_ function, anything else is popped.                         *)
Enter(L, v, c, s) ==
  /\ \/ /\ v \in Obj \ marked
        /\ marked' = marked \cup {v}
        /\ calls' = Append(c, Called(L, v))
        /\ lua' = [lua EXCEPT ![L] = s]
     \/ /\ v \notin Obj \ marked
        /\ calls' = c
        /\ lua' = [lua EXCEPT ![L] = Front(s)]
        /\ UNCHANGED marked
  /\ UNCHANGED phase

(* luaL_checkstack asks for LUA_MINSTACK slots beyond s.  If there are not  *)
(* as many it raises an error, which ends the call of profiler_snapshot and *)
(* leaves the stack of a coroutine as it is.                                *)
MarkObject(L, v, c, s) ==
  \/ /\ Len(s) + MinStack > MaxStack
     /\ phase' = "broken" /\ calls' = <<>>
     /\ lua' = [lua EXCEPT ![L] = s, ![Caller] = <<>>]
     /\ UNCHANGED marked
  \/ /\ Len(s) + MinStack <= MaxStack
     /\ Enter(L, v, c, s)

(* mark_table and mark_userdata: the metatable comes first.  For that of a  *)
(* userdata mark_table is called without asking for room.                   *)
MarkMetatable ==
  /\ calls # <<>> /\ Top.at = "meta"
  /\ LET meta == heap.meta[Top.obj]
         s    == Append(lua[Top.L], meta)
     IN  \/ /\ meta = Nil /\ heap.kind[Top.obj] = "table"
            /\ calls' = Advanced("next", 0)
            /\ UNCHANGED <<phase, marked, lua>>
         \/ /\ meta = Nil /\ heap.kind[Top.obj] = "userdata"
            /\ calls' = Advanced("refs", 0)
            /\ UNCHANGED <<phase, marked, lua>>
         \/ /\ meta # Nil /\ heap.kind[Top.obj] = "table"
            /\ MarkObject(Top.L, meta, Advanced("next", 0), s)
         \/ /\ meta # Nil /\ heap.kind[Top.obj] = "userdata"
            /\ Enter(Top.L, meta, Advanced("refs", 0), s)
  /\ UNCHANGED <<heap, file, open>>

(* the stack once lua_next has taken the key of the pair before off it *)
BeforeNext == IF Top.i = 0 THEN lua[Top.L] ELSE Front(lua[Top.L])

MarkValueWeakToo ==             \* mutant: weak values are marked as well
  /\ calls # <<>> /\ Top.at = "next" /\ Top.i < Len(Pairs)
  /\ LET i == Top.i + 1
     IN  MarkObject(Top.L, Pairs[i][2], Advanced("key", i), BeforeNext \o Pairs[i])
  /\ UNCHANGED <<heap, file, open>>

MarkValueLeavesWeak ==          \* mutant: a weak value is not popped
  /\ calls # <<>> /\ Top.at = "next" /\ Top.i < Len(Pairs)
  /\ LET i == Top.i + 1
     IN  IF "v" \in Weak(Top.obj)
         THEN /\ calls' = Advanced("key", i)
              /\ lua' = [lua EXCEPT ![Top.L] = BeforeNext \o Pairs[i]]
              /\ UNCHANGED <<phase, marked>>
         ELSE MarkObject(Top.L, Pairs[i][2], Advanced("key", i), BeforeNext \o Pairs[i])
  /\ UNCHANGED <<heap, file, open>>

(* mark_table: lua_next pushes the next key and value.  The value is        *)
(* marked, unless the table holds it weakly.                                *)
MarkValue ==
  /\ calls # <<>> /\ Top.at = "next" /\ Top.i < Len(Pairs)
  /\ LET i == Top.i + 1
     IN  \/ /\ "v" \in Weak(Top.obj)
            /\ calls' = Advanced("key", i)
            /\ lua' = [lua EXCEPT ![Top.L] = Append(BeforeNext, Pairs[i][1])]
            /\ UNCHANGED <<phase, marked>>
         \/ /\ "v" \notin Weak(Top.obj)
            /\ MarkObject(Top.L, Pairs[i][2], Advanced("key", i), BeforeNext \o Pairs[i])
  /\ UNCHANGED <<heap, file, open>>

MarkKeyWrongTest ==             \* mutant: the test of weakv is repeated
  /\ calls # <<>> /\ Top.at = "key"
  /\ LET key == Pairs[Top.i][1]
     IN  IF "v" \in Weak(Top.obj)
         THEN calls' = Advanced("next", Top.i) /\ UNCHANGED <<phase, marked, lua>>
         ELSE MarkObject(Top.L, key, Advanced("next", Top.i), Append(lua[Top.L], key))
  /\ UNCHANGED <<heap, file, open>>

MarkKeyNoCopy ==                \* mutant: the key is given up, lua_next begins anew
  /\ calls # <<>> /\ Top.at = "key"
  /\ IF "k" \in Weak(Top.obj)
     THEN /\ calls' = Advanced("next", 0)
          /\ lua' = [lua EXCEPT ![Top.L] = Front(lua[Top.L])]
          /\ UNCHANGED <<phase, marked>>
     ELSE MarkObject(Top.L, Pairs[Top.i][1], Advanced("next", 0), lua[Top.L])
  /\ UNCHANGED <<heap, file, open>>

(* mark_table: a copy of the key is marked, unless the key is held weakly;  *)
(* the key itself stays for lua_next.                                       *)
MarkKey ==
  /\ calls # <<>> /\ Top.at = "key"
  /\ LET key == Pairs[Top.i][1]
     IN  \/ /\ "k" \in Weak(Top.obj)
            /\ calls' = Advanced("next", Top.i)
            /\ UNCHANGED <<phase, marked, lua>>
         \/ /\ "k" \notin Weak(Top.obj)
            /\ MarkObject(Top.L, key, Advanced("next", Top.i), Append(lua[Top.L], key))
  /\ UNCHANGED <<heap, file, open>>

(* mark_userdata takes a uservalue for a table, and asks for no room.       *)
(* mark_table can do with a table and with what is marked already.          *)
AtUservalue ==
  /\ calls # <<>> /\ Top.at = "refs" /\ Top.i < Len(Refs)
  /\ heap.kind[Top.obj] = "userdata"

Suits(v) == v \in Obj /\ (v \in marked \/ heap.kind[v] = "table")

MarkUservalue ==
  /\ AtUservalue
  /\ LET v == Refs[Top.i + 1]
     IN  /\ Suits(v)
         /\ Enter(Top.L, v, Advanced("refs", Top.i + 1), Append(lua[Top.L], v))
  /\ UNCHANGED <<heap, file, open>>

(* readobject does not pop a plain value: mark_userdata does, and leaves    *)
(* the userdata to its callers, which then look for theirs in the wrong     *)
(* slots.  On another object mark_table calls lua_next.  What follows is    *)
(* undefined: the model stops there.                                        *)
UservalueMisfits ==
  /\ AtUservalue
  /\ ~Suits(Refs[Top.i + 1])
  /\ phase' = "broken" /\ calls' = <<>>
  /\ UNCHANGED <<heap, marked, lua, file, open>>

(* mark_function and mark_thread: an upvalue; or a slot or a local, which   *)
(* is pushed on the stack of the thread it belongs to.                      *)
MarkRef ==
  /\ calls # <<>> /\ Top.at = "refs" /\ Top.i < Len(Refs)
  /\ heap.kind[Top.obj] \in {"function", "thread"}
  /\ LET L == IF heap.kind[Top.obj] = "thread" THEN Top.obj ELSE Top.L
         v == Refs[Top.i + 1]
     IN  MarkObject(L, v, Advanced("refs", Top.i + 1), Append(lua[L], v))
  /\ UNCHANGED <<heap, file, open>>

(* the keys mark_table writes: those whose value it has marked *)
KeysWritten == IF "v" \in Weak(Top.obj) THEN <<>> ELSE [i \in DOMAIN Pairs |-> Pairs[i][1]]

(* The object is done and popped; a table is written to the file. *)
Leave ==
  /\ calls # <<>>
  /\ \/ /\ Top.at = "next" /\ Top.i = Len(Pairs)
        /\ file' = Append(file, [table |-> Top.obj, keys |-> KeysWritten])
        /\ lua' = [lua EXCEPT ![Top.L] = Front(BeforeNext)]
     \/ /\ Top.at = "refs" /\ Top.i = Len(Refs)
        /\ lua' = [lua EXCEPT ![Top.L] = Front(lua[Top.L])]
        /\ UNCHANGED file
  /\ calls' = Front(calls)
  /\ UNCHANGED <<phase, heap, marked, open>>

(* memory_snapshot opens the file, or not, and pushes the registry *)
Begin ==
  /\ phase = "idle"
  /\ \/ phase' = "done" /\ UNCHANGED <<marked, calls, lua, open>>
     \/ /\ phase' = "marking" /\ open' = TRUE
        /\ marked' = {Registry}
        /\ calls' = <<Called(Caller, Registry)>>
        /\ lua' = [lua EXCEPT ![Caller] = <<Registry>>]
  /\ UNCHANGED <<heap, file>>

(* mark_table has returned: file and second Lua state are closed. *)
End ==
  /\ phase = "marking" /\ calls = <<>>
  /\ phase' = "done" /\ open' = FALSE
  /\ UNCHANGED <<heap, marked, calls, lua, file>>

Next == Begin \/ MarkMetatable \/ MarkValue \/ MarkKey \/ MarkUservalue \/ UservalueMisfits \/ MarkRef \/ Leave \/ End

Spec == Init /\ [][Next]_vars

(* The traversal is one call on one thread: it runs on until it returns.   *)
FairSpec == Spec /\ WF_vars(Next)
-----------------------------------------------------------------------------
Frame == [obj : Obj, L : Obj, at : {"meta", "next", "key", "refs"}, i : Nat, refs : Seq(Value)]

TypeOK ==
  /\ phase \in {"idle", "marking", "done", "broken"}
  /\ open \in BOOLEAN /\ (open <=> phase \in {"marking", "broken"})
  /\ heap \in Heap /\ marked \subseteq Obj
  /\ calls \in Seq(Frame)
  /\ lua \in [Obj -> Seq(Value)]
  /\ file \in Seq([table : Obj, keys : Seq(Value)])

(* What o keeps alive.  The reference definition of the traversal.         *)
Strong(o) ==
  ({heap.meta[o]} \ {Nil})
  \cup {v \in Obj : \/ heap.kind[o] = "table" /\ \E i \in DOMAIN heap.pairs[o] :
                         \/ v = heap.pairs[o][i][1] /\ "k" \notin Weak(o)
                         \/ v = heap.pairs[o][i][2] /\ "v" \notin Weak(o)
                    \/ heap.kind[o] # "table" /\ v \in Range(heap.refs[o])}

Closed(S) == Registry \in S /\ \A o \in S : Strong(o) \subseteq S

Keys(o) == {heap.pairs[o][i][1] : i \in DOMAIN heap.pairs[o]} \ {Plain}

(* Nothing is marked that the registry does not keep alive: what is marked *)
(* lies in every set that contains the registry and what its elements keep *)
(* alive (lua50_profiler.c:509-703, the tests of weakk and weakv).  When a *)
(* coroutine is alive weak keys may count as kept alive as well: those     *)
(* that the traversal has left on the stack of the calling thread.         *)
OnlyReachableMarked ==
  \A S \in SUBSET Obj :
    /\ Closed(S)
    /\ (\E t \in S \ {Caller} : heap.kind[t] = "thread") => \A o \in S : Keys(o) \subseteq S
    => marked \subseteq S

OnCalls == {calls[j].obj : j \in DOMAIN calls}

(* What a mark_ function has left is finished: everything it keeps alive   *)
(* is marked.  When the traversal has returned nothing was missed, however *)
(* the objects refer to each other.  (An error or a uservalue that is no   *)
(* table ends this.)                                                       *)
NothingMissed ==
  /\ phase # "broken" => \A o \in marked \ OnCalls : Strong(o) \subseteq marked
  /\ phase = "done" /\ marked # {} => Closed(marked)

Written == {file[j].table : j \in DOMAIN file}

(* Every finished table is in the file once, and no other                  *)
(* (lua50_profiler.c:570-579).                                             *)
TablesWrittenOnce ==
  /\ \A j, k \in DOMAIN file : file[j].table = file[k].table => j = k
  /\ phase # "broken" => Written = {o \in marked \ OnCalls : heap.kind[o] = "table"}

(* What a mark_ function counts on: its object, and between two calls of   *)
(* lua_next the key.  Held(t) is what those that work on t count on.       *)
Holds(f) ==
  IF f.at \in {"next", "key"} /\ f.i > 0
  THEN <<f.obj, heap.pairs[f.obj][f.i][1]>> ELSE <<f.obj>>

Held(t) ==
  LET held[j \in 0 .. Len(calls)] ==
        IF j = 0 THEN <<>>
        ELSE IF calls[j].L = t THEN held[j - 1] \o Holds(calls[j])
        ELSE held[j - 1]
  IN  held[Len(calls)]

(* Each mark_ function still finds that where it left it on the stack, and *)
(* nothing else is there: what they push they take off again               *)
(* (lua50_profiler.c:448-703), up to the first error and the first         *)
(* uservalue that mark_table cannot do with (465-466, 597-598).            *)
StackDiscipline == phase # "broken" => \A t \in Obj : lua[t] = Held(t)

(* No push leaves the stack, although room is not asked for before each    *)
(* (lua50_profiler.c:541, 543-567, 590-596, 706).                          *)
StackFits == \A t \in Obj : Len(lua[t]) <= MaxStack

(* The Lua stacks hold what the mark_ functions count on, and no more than *)
(* they can (lua50_profiler.c:448-706), until the traversal is broken.     *)
StacksConsistent == TypeOK /\ StackDiscipline /\ StackFits

(* The traversal ends, if only by an error or a uservalue that is no table, *)
(* although tables refer to each other in circles.                         *)
SnapshotReturns == <>(phase \in {"done", "broken"})
=============================================================================
