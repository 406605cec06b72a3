----------------------------- MODULE MCSnapshot -----------------------------
(***************************************************************************)
(* Snapshot for TLC: the registry, a table a, its possible metatable b, a  *)
(* userdata u, a function f, the calling thread and a coroutine co, in all *)
(* heaps of a family with circles through every kind of reference, with    *)
(* and without weak keys and values, with uservalues of all sorts, and     *)
(* with chains that need more stack than there is.                         *)
(***************************************************************************)
EXTENDS Snapshot

CONSTANTS reg, caller, a, b, u, f, co

MCObj == {reg, caller, a, b, u, f, co}

MCKind ==
  [o \in MCObj |-> IF o \in {reg, a, b} THEN "table" ELSE IF o = u THEN "userdata"
                  ELSE IF o = f THEN "function" ELSE "thread"]

PairsOfB(uRefs) == IF uRefs = <<>> THEN << <<Plain, Plain>> >> ELSE << <<b, a>> >>

(* The choices, one function per object that has some. *)
HeapOf(metaA, metaU, modeB, regPairs, aPairs, uRefs, fRefs, coRefs) ==
  [kind |-> MCKind,
   meta |-> [o \in MCObj |-> IF o \in {a, b} THEN metaA ELSE IF o = u THEN metaU ELSE Nil],
   mode |-> [o \in MCObj |-> IF o = b THEN modeB ELSE {}],
   pairs |-> [o \in MCObj |-> IF o = reg THEN regPairs ELSE IF o = a THEN aPairs
                             ELSE IF o = b THEN PairsOfB(uRefs) ELSE <<>>],
   refs |-> [o \in MCObj |-> IF o = u THEN uRefs ELSE IF o = f THEN fRefs
                            ELSE IF o = co THEN coRefs ELSE IF o = caller THEN <<f>> ELSE <<>>]]

(* metatable and uservalue of u *)
MCUserdata == {<<Nil, <<>>>>, <<Nil, <<b>>>>, <<Nil, <<f>>>>, <<b, <<>>>>, <<b, <<b>>>>, <<b, <<Plain>>>>}

MCHeap ==
  {HeapOf(metaA, ud[1], modeB, regPairs, aPairs, ud[2], fRefs, coRefs) :
     metaA \in {Nil, b}, ud \in MCUserdata, modeB \in {{}, {"k"}, {"v"}},
     regPairs \in {<< <<Plain, caller>>, <<Plain, a>> >>, << <<u, Plain>>, <<Plain, a>> >>,
                  << <<Plain, f>>, <<Plain, a>> >>},
     aPairs \in {<< <<f, u>> >>, << <<Plain, a>>, <<u, co>> >>},
     fRefs \in {<<>>, <<u, co>>, <<co, a>>},
     coRefs \in {<<Plain, caller>>, <<f, u>>}}
=============================================================================
