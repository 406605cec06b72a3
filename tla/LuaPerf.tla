------------------------------ MODULE LuaPerf ------------------------------
(***************************************************************************)
(* The analysis of the profiler's file: output.c and stack.c write it,     *)
(* iter_build_perfs of build_luaperf.py reads it.                          *)
(*                                                                         *)
(* A tree has no frame of its own: it belongs to the header before it.     *)
(* The time the trees of a frame took is known only when the next frame    *)
(* comes, and stands in that frame's header.  The reader has to find both  *)
(* again, from whatever lines a session or a crash has left.               *)
(*                                                                         *)
(* Beside OutputCache this module keeps, for each header, the place in the *)
(* log of the trees whose time it carries.  The reader does not see it.    *)
(***************************************************************************)
EXTENDS OutputCache

CONSTANT Interesting      (* the trees with KEYWORD in a module or function *)

ASSUME InterestingAssumption == Interesting \subseteq Tree

Nobody == 0               (* the header carries no time: stFlag is True     *)
Stray == -1               (* time of trees that no frame was announced for  *)

VARIABLES
  preFrame,   (* dPreFrameLuaConsuming > 0; a tree takes some time          *)
  carried,    (* whose time the header of the frame in the list carries     *)
  carries,    (* the same for each string of the log                        *)
  unheaded    (* the places in the log of frames with trees after which no  *)
              (* header came, their number being announced again at once    *)

perfVars == <<outputVars, preFrame, carried, carries, unheaded>>

PerfInit ==
  /\ Init
  /\ preFrame = FALSE /\ carried = Nobody /\ carries = <<>> /\ unheaded = {}
-----------------------------------------------------------------------------
(* frameTojson takes the time of the trees since the last frame *)
FrameHeader ==
  /\ preFrame' = FALSE
  /\ carried' = IF ~preFrame THEN Nobody
                ELSE IF cache # <<>> /\ cache[1].trees # <<>> THEN Len(Log')
                ELSE Stray

(* lprofT_frame: the header is made, and the frame before it leaves the list *)
LprofTFrame(id) ==
  /\ AddFrame(id)
  /\ FrameHeader
  /\ carries' = carries \o SubSeq(<<carried, Nobody>>, 1, Len(Log') - Len(Log))
  /\ unheaded' = unheaded \cup {p \in {carried} \ {Nobody, Stray} : Log' = Log}

(* lprofT_tojson: the tree's time is counted whether or not it has a frame. *)
(* Here, unlike in CallTree, the clock is taken to have moved on while the *)
(* tree ran: a tree measured as 0 adds nothing that could be looked for.   *)
LprofTTojson(t) ==
  /\ AddData(t)
  /\ preFrame' = TRUE
  /\ UNCHANGED <<carried, carries, unheaded>>

(* A new file; dPreFrameLuaConsuming keeps what the last session left. *)
NewFile ==
  /\ Open
  /\ carries' = <<>> /\ unheaded' = {}
  /\ UNCHANGED <<preFrame, carried>>

EndFile ==
  /\ Close
  /\ carried' = Nobody
  /\ UNCHANGED <<preFrame, carries, unheaded>>

PerfNext ==
  \/ /\ Len(Log) < MaxFrames
     /\ \E id \in FrameId : LprofTFrame(id)
  \/ /\ cache # <<>> => Len(Last(cache).trees) < MaxTrees
     /\ \E t \in Tree : LprofTTojson(t)
  \/ NewFile
  \/ EndFile
  \/ /\ \E c \in BOOLEAN : SetCallback(c)
     /\ UNCHANGED <<preFrame, carried, carries, unheaded>>

PerfSpec == PerfInit /\ [][PerfNext]_perfVars
-----------------------------------------------------------------------------
(* The lines of the file: a header, or one tree.  of and at are not in it. *)
Line(j) ==
  IF Log[j].trees = <<>>
  THEN <<[header |-> TRUE, id |-> Log[j].id, of |-> carries[j]]>>
  ELSE [i \in DOMAIN Log[j].trees |-> [header |-> FALSE, tree |-> Log[j].trees[i], at |-> j]]

Lines == FlattenSeq([j \in DOMAIN Log |-> Line(j)])

(* iter_build_perfs before the first line, frame being current_frame *)
Reader == [frame |-> 0, cache |-> <<>>, interested |-> FALSE, perf |-> <<>>, frameperf |-> <<>>]

(* flush, for a frame with a tree of interest: all its trees are taken *)
Flush(r) ==
  [r EXCEPT !.perf = IF r.interested
                     THEN @ \o [i \in DOMAIN r.cache |-> [frame |-> r.frame, tree |-> r.cache[i]]]
                     ELSE @,
            !.interested = FALSE,
            !.cache = <<>>]

ReadHeaderForNext(r, line) ==   \* mutant: the header's own number is taken first
  LET own == [Flush(r) EXCEPT !.frame = line.id]
  IN  IF line.of # Nobody /\ r.interested
      THEN [own EXCEPT !.frameperf = Append(@, [frame |-> line.id, of |-> line.of])]
      ELSE own

(* A header: the time in it is that of the frame before, whose trees go. *)
ReadHeader(r, line) ==
  LET timed == IF line.of # Nobody /\ r.interested
               THEN [r EXCEPT !.frameperf = Append(@, [frame |-> r.frame, of |-> line.of])]
               ELSE r
  IN  [Flush(timed) EXCEPT !.frame = line.id]

ReadTreeAlone(r, line) ==       \* mutant: only the trees of interest are taken
  IF line.tree \in Interesting
  THEN [r EXCEPT !.cache = Append(@, line.tree), !.interested = TRUE]
  ELSE r

ReadTree(r, line) ==
  [r EXCEPT !.cache = Append(@, line.tree),
            !.interested = @ \/ line.tree \in Interesting]

ReadLine(r, line) == IF line.header THEN ReadHeader(r, line) ELSE ReadTree(r, line)

(* the reader after each number of lines *)
Reading(lines) ==
  LET after[k \in 0 .. Len(lines)] ==
        IF k = 0 THEN Reader ELSE ReadLine(after[k - 1], lines[k])
  IN  after

(* linereader ends at the first line that it cannot parse. *)
Read(lines, k) == Flush(Reading(lines)[k])
-----------------------------------------------------------------------------
(* The k lines show a tree of interest in string j of the log. *)
Shows(lines, k, j) ==
  \E l \in 1 .. k : ~lines[l].header /\ lines[l].at = j /\ lines[l].tree \in Interesting

(* What the first n of k lines tell of the frames that show such a tree. *)
Kept(lines, k) ==
  LET kept[n \in 0 .. k] ==
        IF n = 0 THEN <<>>
        ELSE IF ~lines[n].header /\ Shows(lines, k, lines[n].at)
             THEN Append(kept[n - 1], [frame |-> Log[lines[n].at].id, tree |-> lines[n].tree])
             ELSE kept[n - 1]
  IN  kept

(* However many whole lines of the file there are, the reader takes of each *)
(* frame that shows a tree of interest all the trees it has lines of, under *)
(* the number the frame had when they were collected, in their order, and  *)
(* nothing else (build_luaperf.py:178-222, output.c:144-190).              *)
TreesAreFound ==
  LET lines == Lines
  IN  \A k \in 0 .. Len(lines) : Read(lines, k).perf = Kept(lines, k)[k]

Wanted(j) == ToSet(Log[j].trees) \cap Interesting # {}

(* The time of a frame's trees, which stands in the header of another      *)
(* frame, is recorded under the number of the frame it was measured in,    *)
(* once; none is missing among the frames of interest but that of the last *)
(* frame in the file and of a frame whose number was announced again       *)
(* without trees: output.c:178 writes no header for that, and the time is  *)
(* lost (build_luaperf.py:190-193, stack.c:524-563).                       *)
TimesAreFound ==
  LET times == Read(Lines, Len(Lines)).frameperf
  IN  /\ \A k \in DOMAIN times : times[k].of # Stray /\ times[k].frame = Log[times[k].of].id
      /\ \A k, l \in DOMAIN times : times[k].of = times[l].of => k = l
      /\ {times[k].of : k \in DOMAIN times} = {j \in 1 .. Len(Log) - 1 : Wanted(j)} \ unheaded
=============================================================================
