---------------------------- MODULE OutputCache ----------------------------
(***************************************************************************)
(* output.c: the frames wait in a list until the next one arrives; then    *)
(* the oldest is turned into strings that go to the callback and, through  *)
(* a buffer of fixed size, to the file.                                    *)
(*                                                                         *)
(* A string is a record [id, trees]: the header of frame id if trees is    *)
(* empty, else the trees of that frame.  Of its characters only the number *)
(* matters, because the buffer counts them; the lengths are kept beside    *)
(* the strings.  Strings hold no "%": output() passes them to vfprintf as  *)
(* the format.                                                             *)
(***************************************************************************)
EXTENDS Integers, Sequences, SequencesExt

CONSTANTS
  Tree,             (* the trees (JSON strings) the call tree gives         *)
  FrameId,          (* the identifiers of the frames: ints, 0 is possible   *)
  HeaderLen,        (* strlen of a frame's header                           *)
  TreeLen,          (* strlen of each tree                                  *)
  nOutputBufferSize,(* 5 * 1024 in the code                                 *)
  MaxFrames,        (* bound: frames in a session                           *)
  MaxTrees          (* bound: trees in a frame                              *)

nMaxCacheNode == 2

ASSUME OutputAssumption ==
  /\ HeaderLen \in Nat
  /\ TreeLen \in [Tree -> Nat]
  /\ nOutputBufferSize \in Nat \ {0}
  /\ FrameId \subseteq Int

VARIABLES
  running,     (* between lprofP_open and lprofP_close                      *)
  cache,       (* the list from pOutputHead to pOutputTail: [id, trees]     *)
  lens,        (* strlen of the data of each node of the list               *)
  nCacheNode,
  prev,        (* sPrevNode: [id, data]                                     *)
  buf,         (* the strings in pOutputBuffer                              *)
  bufLen,      (* strlen(pOutputBuffer)                                     *)
  nBufferWrited,
  file,        (* the strings in the file                                   *)
  callback,    (* pOutputCallback is set                                    *)
  sent         (* the strings the last operation gave to the callback       *)

bufferVars == <<buf, bufLen, nBufferWrited, file>>
cacheVars == <<cache, lens, nCacheNode, prev>>
outputVars == <<running, cacheVars, bufferVars, callback, sent>>

Header(id) == [id |-> id, trees |-> <<>>]

Init ==
  /\ running = FALSE
  /\ cache = <<>> /\ lens = <<>> /\ nCacheNode = 0 /\ prev = [id |-> 0, data |-> 0]
  /\ buf = <<>> /\ bufLen = 0 /\ nBufferWrited = 0 /\ file = <<>>
  /\ callback = FALSE /\ sent = <<>>
-----------------------------------------------------------------------------
Buffer == [file |-> file, buf |-> buf, len |-> bufLen, n |-> nBufferWrited]

(* A string that does not fit is written directly, behind the buffer.      *)
Flushed(b, s) == [file |-> b.file \o b.buf \o <<s>>, buf |-> <<>>, len |-> 0, n |-> 0]

ToBufferForgetsBuffer(b, s, strlen) ==  \* mutant: a full buffer is cleared, not written
  IF b.n + strlen + 3 >= nOutputBufferSize
  THEN [file |-> Append(b.file, s), buf |-> <<>>, len |-> 0, n |-> 0]
  ELSE [b EXCEPT !.buf = Append(@, s), !.len = @ + strlen + 2, !.n = @ + strlen + 3]

ToBufferCountsLess(b, s, strlen) ==     \* mutant: neither ",\n" nor the NUL is counted
  IF b.n + strlen >= nOutputBufferSize
  THEN Flushed(b, s)
  ELSE [b EXCEPT !.buf = Append(@, s), !.len = @ + strlen + 2, !.n = @ + strlen]

(* lprofP_toBuffer, on a buffer [file, buf, len, n].  Its callers append   *)
(* ",\n" to the string and count these two characters and the NUL; strcat  *)
(* lengthens the buffer by the string and the two.                         *)
ToBuffer(b, s, strlen) ==
  IF b.n + strlen + 3 >= nOutputBufferSize
  THEN Flushed(b, s)
  ELSE [b EXCEPT !.buf = Append(@, s), !.len = @ + strlen + 2, !.n = @ + strlen + 3]

GapHeaderAlways(f) ==           \* mutant: every frame without trees is written
  f.trees = <<>> /\ prev.id # f.id

(* A frame without trees: is its header written?  Only if the frame written *)
(* before it has trees.                                                    *)
GapHeader(f) == f.trees = <<>> /\ prev.id # f.id /\ prev.data # 0

(* the strings lprofP_output makes of a frame *)
Strings(f) ==
  IF f.trees # <<>> THEN <<Header(f.id), f>>
  ELSE IF GapHeader(f) THEN <<f>>
  ELSE <<>>

SendUnityMessageDataOnly(strings) ==  \* mutant: headers do not go to the callback
  sent' = IF callback THEN SelectSeq(strings, LAMBDA s : s.trees # <<>>) ELSE <<>>

(* sendUnityMessage, and the call of pOutputCallback ahead of a header     *)
SendUnityMessage(strings) == sent' = IF callback THEN strings ELSE <<>>

(* lprofP_output: the oldest frame leaves the list *)
Output(list, strlens) ==
  LET f == Head(list)
      b == IF f.trees # <<>>
           THEN ToBuffer(ToBuffer(Buffer, Header(f.id), HeaderLen), f, Head(strlens))
           ELSE IF GapHeader(f) THEN ToBuffer(Buffer, f, HeaderLen)
           ELSE Buffer
  IN  /\ SendUnityMessage(Strings(f))
      /\ file' = b.file /\ buf' = b.buf /\ bufLen' = b.len /\ nBufferWrited' = b.n
      /\ prev' = IF Strings(f) = <<>> THEN prev
                 ELSE [id |-> f.id, data |-> IF f.trees # <<>> THEN 1 ELSE 0]
      /\ cache' = Tail(list) /\ lens' = Tail(strlens)
-----------------------------------------------------------------------------
AddFrameOneMore(id) ==          \* mutant: > for >= in the test of nMaxCacheNode
  /\ running
  /\ IF nCacheNode + 1 > nMaxCacheNode
     THEN /\ Output(Append(cache, Header(id)), Append(lens, 0))
          /\ UNCHANGED nCacheNode
     ELSE /\ cache' = Append(cache, Header(id)) /\ lens' = Append(lens, 0)
          /\ nCacheNode' = nCacheNode + 1
          /\ sent' = <<>>
          /\ UNCHANGED <<prev, bufferVars>>
  /\ UNCHANGED <<running, callback>>

(* lprofP_addFrame: the frame becomes the tail, and if there are two now   *)
(* lprofP_output takes the head away.                                      *)
AddFrame(id) ==
  /\ running
  /\ IF nCacheNode + 1 >= nMaxCacheNode
     THEN /\ Output(Append(cache, Header(id)), Append(lens, 0))
          /\ UNCHANGED nCacheNode
     ELSE /\ cache' = Append(cache, Header(id)) /\ lens' = Append(lens, 0)
          /\ nCacheNode' = nCacheNode + 1
          /\ sent' = <<>>
          /\ UNCHANGED <<prev, bufferVars>>
  /\ UNCHANGED <<running, callback>>

(* lprofP_addData: the tree goes to the newest frame, if there is one, with *)
(* ",\n" between it and the trees before it.                               *)
AddData(t) ==
  /\ running
  /\ LET n == Len(cache)
         glue == IF cache[n].trees = <<>> THEN 0 ELSE 2
     IN  IF cache = <<>>
         THEN UNCHANGED <<cache, lens>>
         ELSE /\ cache' = [cache EXCEPT ![n].trees = Append(@, t)]
              /\ lens' = [lens EXCEPT ![n] = @ + glue + TreeLen[t]]
  /\ sent' = <<>>
  /\ UNCHANGED <<running, nCacheNode, prev, bufferVars, callback>>

(* lprofP_open, once lprofP_init_core_profiler has opened the file *)
Open ==
  /\ ~running
  /\ running' = TRUE
  /\ buf' = <<>> /\ bufLen' = 0 /\ nBufferWrited' = 0 /\ file' = <<>>
  /\ sent' = <<>>
  /\ UNCHANGED <<cacheVars, callback>>

(* lprofP_close: the buffer is written, the frames in the list are not     *)
Close ==
  /\ running
  /\ running' = FALSE
  /\ file' = file \o buf /\ buf' = <<>> /\ bufLen' = 0 /\ nBufferWrited' = 0
  /\ prev' = [id |-> 0, data |-> 0]
  /\ cache' = <<>> /\ lens' = <<>> /\ nCacheNode' = 0
  /\ sent' = <<>>
  /\ UNCHANGED callback

(* register_callback and unregister_callback *)
SetCallback(c) ==
  /\ callback' = c
  /\ sent' = <<>>
  /\ UNCHANGED <<running, cacheVars, bufferVars>>
-----------------------------------------------------------------------------
Log == file \o buf

Next ==
  \/ /\ Len(Log) < MaxFrames
     /\ \E id \in FrameId : AddFrame(id)
  \/ /\ cache # <<>> => Len(Last(cache).trees) < MaxTrees
     /\ \E t \in Tree : AddData(t)
  \/ Open
  \/ Close
  \/ \E c \in BOOLEAN : SetCallback(c)

Spec == Init /\ [][Next]_outputVars
-----------------------------------------------------------------------------
String == [id : FrameId, trees : Seq(Tree)]

TypeOK ==
  /\ running \in BOOLEAN /\ callback \in BOOLEAN
  /\ cache \in Seq(String) /\ lens \in Seq(Nat) /\ nCacheNode \in Nat
  /\ prev \in [id : FrameId \cup {0}, data : {0, 1}]
  /\ buf \in Seq(String) /\ bufLen \in Nat /\ nBufferWrited \in Nat
  /\ file \in Seq(String) /\ sent \in Seq(String)

(* The list is as long as nCacheNode says and at most one frame waits      *)
(* between two calls (output.c:107-109, 202-208).                          *)
OneFrameWaits ==
  nCacheNode = Len(cache) /\ Len(lens) = Len(cache) /\ nCacheNode < nMaxCacheNode

(* List and counter agree over frames, trees, closes and restarts, so that *)
(* no frame is held back longer than until the next (output.c:86-235).     *)
CacheConsistent == TypeOK /\ OneFrameWaits

(* What strcat put into pOutputBuffer, with its NUL, fits into it whatever *)
(* the lengths of the strings were (output.c:65-84), and a count of zero   *)
(* means an empty buffer, so that a string that does not fit never         *)
(* overtakes one that is still buffered.                                   *)
BufferFits ==
  /\ bufLen + 1 <= nOutputBufferSize
  /\ nBufferWrited = 0 <=> buf = <<>>

(* The callback is given exactly what goes to the file, when it goes to the *)
(* buffer (output.c:160-175, 194).                                         *)
CallbackSeesLog ==
  [][running /\ running' => sent' = IF callback THEN SubSeq(Log', Len(Log) + 1, Len(Log')) ELSE <<>>]_outputVars

Abstract == INSTANCE FrameLog WITH current <- cache, log <- Log

(* The list, sPrevNode and the buffer implement the log of frames: nothing *)
(* lost, duplicated or reordered up to the frame that is still open.       *)
LogRefinement == Abstract!FrameLogSpec
=============================================================================
