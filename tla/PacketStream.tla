---------------------------- MODULE PacketStream ----------------------------
(***************************************************************************)
(* The packets the game sends to the editor: UsNet.SendCommand on one side *)
(* of a TCP stream, NetClient.Tick_ReceivingData on the other.             *)
(*                                                                         *)
(* A packet is its length and its body, written and read apart.  Two       *)
(* threads of the game send: the one that runs Unity's Update, with the    *)
(* answers, and the consumer of the profiler, with its messages.  TCP      *)
(* delivers any beginning of what was written.  NetClient reads the two    *)
(* bytes of the length with one Read and the body with another and does    *)
(* not look how much it got.  If only the first byte of a length, or the   *)
(* first of the two parts a body has here, has arrived by then, it takes   *)
(* the rest for something else, and from then on nothing is said of what   *)
(* it reads (torn).                                                        *)
(***************************************************************************)
EXTENDS Naturals, Sequences, SequencesExt

CONSTANTS
  Writer,       (* the threads that send                                    *)
  Packets       (* bound: how many packets each sends                       *)

ASSUME PacketAssumption == Packets \in [Writer -> Nat]

Packet == [by : Writer, n : Nat]

VARIABLES
  begun,        (* of each thread: how many packets it has begun to send    *)
  sending,      (* of each thread: the packet it is sending, as a sequence  *)
  lock,         (* who holds _netLocker: a sequence of at most one thread   *)
  sent,         (* history: the packets begun, in that order                *)
  stream,       (* what was written and not yet read                        *)
  arrived,      (* how much of the stream has arrived                       *)
  reading,      (* the packet whose length was read, as a sequence          *)
  got,          (* history: the packets executed                            *)
  torn          (* history: a length or a body was read in part             *)

streamVars == <<begun, sending, lock, sent, stream, arrived, reading, got, torn>>

StreamInit ==
  /\ begun = [w \in Writer |-> 0] /\ sending = [w \in Writer |-> <<>>] /\ lock = <<>>
  /\ sent = <<>> /\ stream = <<>> /\ arrived = 0
  /\ reading = <<>> /\ got = <<>> /\ torn = FALSE
-----------------------------------------------------------------------------
SendLengthUnlocked(w) ==        \* mutant: no lock
  /\ sending[w] = <<>> /\ begun[w] < Packets[w]
  /\ begun' = [begun EXCEPT ![w] = @ + 1]
  /\ LET p == [by |-> w, n |-> begun'[w]]
     IN  /\ sent' = Append(sent, p)
         /\ stream' = Append(stream, <<"length", p>>)
         /\ sending' = [sending EXCEPT ![w] = <<p>>]
  /\ lock' = <<w>>
  /\ UNCHANGED <<arrived, reading, got, torn>>

(* SendCommand takes the lock and writes the length ... *)
SendLength(w) ==
  /\ sending[w] = <<>> /\ begun[w] < Packets[w]
  /\ lock = <<>>
  /\ begun' = [begun EXCEPT ![w] = @ + 1]
  /\ LET p == [by |-> w, n |-> begun'[w]]
     IN  /\ sent' = Append(sent, p)
         /\ stream' = Append(stream, <<"length", p>>)
         /\ sending' = [sending EXCEPT ![w] = <<p>>]
  /\ lock' = <<w>>
  /\ UNCHANGED <<arrived, reading, got, torn>>

(* ... and then the body. *)
SendBody(w) ==
  /\ sending[w] # <<>>
  /\ LET p == sending[w][1] IN stream' = stream \o << <<"body", p>>, <<"rest", p>> >>
  /\ sending' = [sending EXCEPT ![w] = <<>>]
  /\ lock' = <<>>
  /\ UNCHANGED <<begun, sent, arrived, reading, got, torn>>

Arrive ==
  /\ arrived < Len(stream)
  /\ arrived' = arrived + 1
  /\ UNCHANGED <<begun, sending, lock, sent, stream, reading, got, torn>>

(* Tick_ReceivingData: Available > 0, the length is read ... *)
ReadLength ==
  /\ reading = <<>> /\ arrived > 0 /\ ~torn
  /\ reading' = <<Head(stream)[2]>>
  /\ stream' = Tail(stream) /\ arrived' = arrived - 1
  /\ UNCHANGED <<begun, sending, lock, sent, got, torn>>

(* ... or its first byte, if no more of it has arrived: the wrong length.   *)
ReadPartOfLength ==
  /\ reading = <<>> /\ arrived = 0 /\ stream # <<>> /\ ~torn
  /\ torn' = TRUE
  /\ UNCHANGED <<begun, sending, lock, sent, stream, arrived, reading, got>>

(* The body, or what has arrived of it; with none the read waits.  A body   *)
(* that does not belong to the length read is executed as another command.  *)
ReadBody ==
  /\ reading # <<>> /\ arrived > 0
  /\ LET k == IF arrived = 1 THEN 1 ELSE 2
         p == reading[1]
     IN  /\ stream' = SubSeq(stream, k + 1, Len(stream))
         /\ arrived' = arrived - k
         /\ torn' = (k = 1)
         /\ got' = Append(got, IF stream[1] = <<"body", p>> THEN p ELSE [p EXCEPT !.n = 0])
  /\ reading' = <<>>
  /\ UNCHANGED <<begun, sending, lock, sent>>
-----------------------------------------------------------------------------
(* What the editor executes are the packets sent, whole and in the order   *)
(* in which their threads took the lock, as long as no Read has returned   *)
(* less than a whole length or body (UsNet.cs:136-148, NetClient.cs:96-132).*)
PacketsInOrder == ~torn => IsPrefix(got, sent)
=============================================================================
