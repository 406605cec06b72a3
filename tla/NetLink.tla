------------------------------ MODULE NetLink -------------------------------
(***************************************************************************)
(* The connection between the editor and the game: NetClient, NetManager   *)
(* and NetGuardTimer on one side, UsNet on the other.                      *)
(*                                                                         *)
(* The client is used by four kinds of threads without a lock: the main    *)
(* thread (the buttons), the completion of each BeginConnect, the tick     *)
(* timer and the guard timer.  All read the one field _tcpClient, each     *)
(* time anew, also inside Disconnect: test, Close, null and the event that *)
(* stops the timers are four steps of the thread.  Messages are whole (see *)
(* PacketStream); of two ticks at once and two handlers of one guard timer *)
(* at once only one is here, and what stops a timer is one step.           *)
(***************************************************************************)
EXTENDS Naturals, FiniteSets

CONSTANT MaxConnects            (* bound: how often the user connects        *)

ASSUME ConnectAssumption == MaxConnects \in Nat

Conn == 1 .. MaxConnects        (* the TcpClient objects of the editor       *)
None == 0

(* The threads: the buttons, the tick, the completion and the guard of each *)
(* connection                                                               *)
Main == <<"main", None>>
Ticker == <<"tick", None>>
Thread == {Main, Ticker} \cup {"connect", "guard"} \X Conn

VARIABLES
  client,       (* NetClient._tcpClient                                     *)
  made,         (* the TcpClients made so far                               *)
  sock,         (* the socket of each                                       *)
  onConnect,    (* how far the completion of its BeginConnect has come      *)
  ticking,      (* _tickTimer is enabled                                    *)
  tick,         (* how far a Tick has come; history: for which connection   *)
  guardTimer,   (* NetGuardTimer._timer; a timer is named by the completion *)
                (* that started it                                          *)
  running,      (* the timers that run, also those _timer has forgotten     *)
  elapsed,      (* the timers whose Elapsed is about to be handled          *)
  peer,         (* UsNet._tcpClient                                         *)
  asked,        (* UsNet.Update has read a handshake, not yet answered      *)
  requests, replies,  (* of each connection: handshakes, answers under way  *)
  validated,    (* history: the connections LogicallyConnected was told of  *)
  leaving,      (* how far each thread has come in Disconnect               *)
  overlapped,   (* history: two threads were between its test and its null  *)
  outOfTurn     (* history: a thread acted for a connection that was not    *)
                (* the current one any more, or started a timer for one     *)
                (* already answered or while another thread stops them      *)

clientVars == <<client, made, sock, onConnect>>
timerVars == <<ticking, guardTimer, running, elapsed>>
serverVars == <<peer, asked>>
messageVars == <<requests, replies, validated>>
leaveVars == <<leaving, overlapped>>
linkVars == <<clientVars, timerVars, tick, serverVars, messageVars, leaveVars, outOfTurn>>

(* No tick *)
Resting == [at |-> "idle", conn |-> None]

LinkInit ==
  /\ client = None /\ made = 0
  /\ sock = [n \in Conn |-> "none"] /\ onConnect = [n \in Conn |-> "none"]
  /\ ticking = FALSE /\ tick = Resting
  /\ guardTimer = None /\ running = {} /\ elapsed = {}
  /\ peer = None /\ asked = FALSE
  /\ requests = [n \in Conn |-> 0] /\ replies = [n \in Conn |-> 0]
  /\ validated = {} /\ outOfTurn = FALSE
  /\ leaving = [t \in Thread |-> "out"] /\ overlapped = FALSE

Open == client # None /\ sock[client] \in {"open", "lost"}
-----------------------------------------------------------------------------
(* NetGuardTimer.Deactivate *)
Deactivate ==
  /\ running' = running \ {guardTimer}
  /\ guardTimer' = None

(* A thread acts for connection n: others than n must not be concerned. *)
ActsFor(n) == outOfTurn' = (outOfTurn \/ client \notin {None, n})

Concern(t) == IF t = Main THEN client ELSE IF t = Ticker THEN tick.conn ELSE t[2]
Out(t) == leaving[t] = "out"
Inside == {t \in Thread : leaving[t] \in {"closing", "forgetting"}}
Stopping == \E t \in Thread : leaving[t] = "stopping"

(* NetClient.Disconnect: a thread that has found a client ... *)
Disconnect(t) ==
  /\ Out(t)
  /\ IF client = None THEN UNCHANGED leaveVars
     ELSE /\ leaving' = [leaving EXCEPT ![t] = "closing"]
          /\ overlapped' = (overlapped \/ Inside # {})

(* ... closes the one that is there now ... *)
CloseClient(t) ==
  /\ leaving[t] = "closing" /\ client # None
  /\ leaving' = [leaving EXCEPT ![t] = "forgetting"]
  /\ sock' = [sock EXCEPT ![client] = "closed"]
  /\ replies' = [replies EXCEPT ![client] = 0]
  /\ ActsFor(Concern(t))
  /\ UNCHANGED <<client, made, onConnect, timerVars, tick, serverVars, requests, validated, overlapped>>

(* ... or meets null: the exception ends a tick, a timeout or a click, and *)
(* takes a completion that was sending to the catch of OnConnect.          *)
CloseThrows(t) ==
  /\ leaving[t] = "closing" /\ client = None
  /\ leaving' = [leaving EXCEPT ![t] = "out"]
  /\ tick' = IF t = Ticker THEN Resting ELSE tick
  /\ onConnect' = [n \in Conn |-> IF t = <<"connect", n>> /\ onConnect[n] = "sent"
                                  THEN "thrown" ELSE onConnect[n]]
  /\ UNCHANGED <<client, made, sock, timerVars, serverVars, messageVars, overlapped, outOfTurn>>

ForgetClient(t) ==
  /\ leaving[t] = "forgetting"
  /\ leaving' = [leaving EXCEPT ![t] = "stopping"]
  /\ client' = None
  /\ ActsFor(Concern(t))
  /\ UNCHANGED <<made, sock, onConnect, timerVars, tick, serverVars, messageVars, overlapped>>

(* NetManager.OnDisconnected *)
StopTimers(t) ==
  /\ leaving[t] = "stopping"
  /\ leaving' = [leaving EXCEPT ![t] = "out"]
  /\ ticking' = FALSE /\ Deactivate
  /\ UNCHANGED <<clientVars, elapsed, tick, serverVars, messageVars, overlapped, outOfTurn>>

Leave(t) == CloseClient(t) \/ CloseThrows(t) \/ ForgetClient(t) \/ StopTimers(t)
-----------------------------------------------------------------------------
ConnectAnyTime ==               \* mutant: the button is enabled until the socket is connected
  /\ Out(Main) /\ ~Open /\ made < MaxConnects
  /\ made' = made + 1
  /\ client' = made'
  /\ sock' = [sock EXCEPT ![made'] = "connecting"]
  /\ onConnect' = [onConnect EXCEPT ![made'] = "pending"]
  /\ UNCHANGED <<timerVars, tick, serverVars, messageVars, leaveVars, outOfTurn>>

(* The button is enabled while there is no _tcpClient. *)
ConnectButton ==
  /\ Out(Main) /\ client = None /\ made < MaxConnects
  /\ made' = made + 1
  /\ client' = made'
  /\ sock' = [sock EXCEPT ![made'] = "connecting"]
  /\ onConnect' = [onConnect EXCEPT ![made'] = "pending"]
  /\ UNCHANGED <<timerVars, tick, serverVars, messageVars, leaveVars, outOfTurn>>

DisconnectButton ==
  /\ client # None
  /\ Disconnect(Main)
  /\ UNCHANGED <<clientVars, timerVars, tick, serverVars, messageVars, outOfTurn>>

(* TCP: the connection is made or not; later it may be lost *)
Network(n) ==
  /\ \/ sock[n] = "connecting" /\ \E s \in {"open", "failed"} : sock' = [sock EXCEPT ![n] = s]
     \/ sock[n] = "open" /\ sock' = [sock EXCEPT ![n] = "lost"]
  /\ UNCHANGED <<client, made, onConnect, timerVars, tick, serverVars, messageVars, leaveVars, outOfTurn>>

(* NetClient.OnConnect: its own TcpClient is connected; if not, or if the  *)
(* handler has thrown, whichever is the current one is disconnected.       *)
OnConnect(n) ==
  /\ \/ /\ onConnect[n] = "pending" /\ sock[n] \in {"open", "lost"}
        /\ onConnect' = [onConnect EXCEPT ![n] = "connected"]
        /\ UNCHANGED <<leaveVars, outOfTurn>>
     \/ /\ \/ onConnect[n] = "pending" /\ sock[n] \in {"failed", "closed"}
           \/ onConnect[n] = "thrown"
        /\ onConnect' = [onConnect EXCEPT ![n] = "done"]
        /\ Disconnect(<<"connect", n>>) /\ ActsFor(n)
  /\ UNCHANGED <<client, made, sock, timerVars, tick, serverVars, messageVars>>

(* NetManager.OnConnected sends the handshake on the current TcpClient ... *)
SendHandshake(n) ==
  /\ onConnect[n] = "connected"
  /\ onConnect' = [onConnect EXCEPT ![n] = "sent"]
  /\ \/ /\ Open
        /\ requests' = [requests EXCEPT ![client] = @ + 1]
        /\ UNCHANGED leaveVars
     \/ /\ client # None => sock[client] # "open"
        /\ Disconnect(<<"connect", n>>)
        /\ UNCHANGED requests
  /\ ActsFor(n)
  /\ UNCHANGED <<client, made, sock, timerVars, tick, serverVars, replies, validated>>

(* ... and starts the timers, even if that has failed. *)
StartTick(n) ==
  /\ onConnect[n] = "sent" /\ Out(<<"connect", n>>)
  /\ onConnect' = [onConnect EXCEPT ![n] = "ticking"]
  /\ ticking' = TRUE
  /\ outOfTurn' = (outOfTurn \/ client # n \/ Stopping)
  /\ UNCHANGED <<client, made, sock, guardTimer, running, elapsed, tick, serverVars, messageVars, leaveVars>>

ActivateNotStarted(n) ==        \* mutant: the timer is not started
  /\ onConnect[n] = "ticking"
  /\ onConnect' = [onConnect EXCEPT ![n] = "done"]
  /\ guardTimer' = n
  /\ outOfTurn' = (outOfTurn \/ client # n \/ n \in validated \/ Stopping)
  /\ UNCHANGED <<client, made, sock, ticking, running, elapsed, tick, serverVars, messageVars, leaveVars>>

(* NetGuardTimer.Activate: a new timer; the one before is not stopped. *)
Activate(n) ==
  /\ onConnect[n] = "ticking"
  /\ onConnect' = [onConnect EXCEPT ![n] = "done"]
  /\ running' = running \cup {n}
  /\ guardTimer' = n
  /\ outOfTurn' = (outOfTurn \/ client # n \/ n \in validated \/ Stopping)
  /\ UNCHANGED <<client, made, sock, ticking, elapsed, tick, serverVars, messageVars, leaveVars>>

(* A guard timer elapses, again and again while it runs; the handler runs  *)
(* on a thread of the pool, perhaps after the timer was stopped.           *)
GuardElapses(n) ==
  /\ n \in running \ elapsed
  /\ elapsed' = elapsed \cup {n}
  /\ UNCHANGED <<clientVars, ticking, guardTimer, running, tick, serverVars, messageVars, leaveVars, outOfTurn>>

OnGuardingTimeout(n) ==
  /\ n \in elapsed
  /\ elapsed' = elapsed \ {n}
  /\ Disconnect(<<"guard", n>>) /\ ActsFor(n)
  /\ UNCHANGED <<clientVars, ticking, guardTimer, running, tick, serverVars, messageVars>>

(* The tick timer elapses; the handler may come after it was stopped. *)
TickElapses ==
  /\ ticking /\ tick.at = "idle" /\ Out(Ticker)
  /\ tick' = [at |-> "elapsed", conn |-> None]
  /\ UNCHANGED <<clientVars, timerVars, serverVars, messageVars, leaveVars, outOfTurn>>

(* NetManager.Tick: nothing without a connection. *)
Tick ==
  /\ tick.at = "elapsed"
  /\ tick' = IF client = None THEN Resting ELSE [at |-> "alive", conn |-> client]
  /\ UNCHANGED <<clientVars, timerVars, serverVars, messageVars, leaveVars, outOfTurn>>

TickStatusBlind ==              \* mutant: only Connected is asked, which a lost peer does not change
  /\ tick.at = "alive"
  /\ tick' = [tick EXCEPT !.at = "checked"]
  /\ IF Open THEN UNCHANGED leaveVars ELSE Disconnect(Ticker)
  /\ ActsFor(tick.conn)
  /\ UNCHANGED <<clientVars, timerVars, serverVars, messageVars>>

(* Keeping alive and Tick_CheckConnectionStatus: what throws disconnects. *)
TickStatus ==
  /\ tick.at = "alive"
  /\ tick' = [tick EXCEPT !.at = "checked"]
  /\ IF Open /\ sock[client] # "lost" THEN UNCHANGED leaveVars ELSE Disconnect(Ticker)
  /\ ActsFor(tick.conn)
  /\ UNCHANGED <<clientVars, timerVars, serverVars, messageVars>>

(* The interval of the check, or that of the data, has not passed. *)
TickTooSoon ==
  /\ tick.at \in {"alive", "checked"} /\ Out(Ticker)
  /\ tick' = IF tick.at = "alive" THEN [tick EXCEPT !.at = "checked"] ELSE Resting
  /\ UNCHANGED <<clientVars, timerVars, serverVars, messageVars, leaveVars, outOfTurn>>

(* Tick_ReceivingData: the answer to a handshake is handled, if it is there. *)
TickReceive ==
  /\ tick.at = "checked" /\ Out(Ticker)
  /\ \/ /\ Open /\ replies[client] > 0
        /\ replies' = [replies EXCEPT ![client] = @ - 1]
        /\ validated' = validated \cup {client}
        /\ tick' = [tick EXCEPT !.at = "validated"]
        /\ UNCHANGED leaveVars
     \/ /\ Open /\ replies[client] = 0
        /\ tick' = Resting
        /\ UNCHANGED <<leaveVars, replies, validated>>
     \/ /\ ~Open
        /\ tick' = [tick EXCEPT !.at = "idle"]
        /\ Disconnect(Ticker)
        /\ UNCHANGED <<replies, validated>>
  /\ ActsFor(tick.conn)
  /\ UNCHANGED <<clientVars, timerVars, serverVars, requests>>

TickValidatedKeepsGuard ==      \* mutant: the guard goes on
  /\ tick.at = "validated"
  /\ tick' = [tick EXCEPT !.at = "checked"]
  /\ ActsFor(tick.conn)
  /\ UNCHANGED <<clientVars, timerVars, serverVars, messageVars, leaveVars>>

(* The handler, having told LogicallyConnected, stops the guard.  Then the *)
(* loop looks for more.                                                    *)
TickValidated ==
  /\ tick.at = "validated"
  /\ tick' = [tick EXCEPT !.at = "checked"]
  /\ Deactivate /\ ActsFor(tick.conn)
  /\ UNCHANGED <<clientVars, ticking, elapsed, serverVars, messageVars, leaveVars>>
-----------------------------------------------------------------------------
(* UsNet.OnAcceptTcpClient: the newcomer replaces the client. *)
Accept(n) ==
  /\ sock[n] \in {"open", "lost"} /\ n > peer
  /\ peer' = n
  /\ UNCHANGED <<clientVars, timerVars, tick, asked, messageVars, leaveVars, outOfTurn>>

(* UsNet.Update reads a handshake ... *)
ServerReads ==
  /\ peer # None /\ ~asked /\ requests[peer] > 0
  /\ requests' = [requests EXCEPT ![peer] = @ - 1]
  /\ asked' = TRUE
  /\ UNCHANGED <<clientVars, timerVars, tick, peer, replies, validated, leaveVars, outOfTurn>>

(* ... and its handler answers the client that is there then. *)
ServerAnswers ==
  /\ asked
  /\ asked' = FALSE
  /\ replies' = IF sock[peer] = "open" THEN [replies EXCEPT ![peer] = @ + 1] ELSE replies
  /\ UNCHANGED <<clientVars, timerVars, tick, peer, requests, validated, leaveVars, outOfTurn>>

ClientThreads(n) ==
  OnConnect(n) \/ SendHandshake(n) \/ StartTick(n) \/ Activate(n)
GuardThread(n) == GuardElapses(n) \/ OnGuardingTimeout(n)
TickThread == TickElapses \/ Tick \/ TickStatus \/ TickTooSoon \/ TickReceive \/ TickValidated

LinkNext ==
  \/ ConnectButton \/ DisconnectButton
  \/ TickThread
  \/ ServerReads \/ ServerAnswers
  \/ \E n \in Conn : Network(n) \/ ClientThreads(n) \/ GuardThread(n) \/ Accept(n)
  \/ \E t \in Thread : Leave(t)

(* BeginConnect ends somehow, the threads go on and the timers elapse.  The *)
(* tick is every 100 ms, so again and again the interval of the status      *)
(* check has passed.  The user and the game need do nothing.                *)
LinkSpec ==
  /\ LinkInit /\ [][LinkNext]_linkVars
  /\ WF_linkVars(Leave(Main))
  /\ WF_linkVars(TickThread \/ Leave(Ticker)) /\ SF_linkVars(TickStatus)
  /\ \A n \in Conn : /\ WF_linkVars(ClientThreads(n) \/ Leave(<<"connect", n>>))
                     /\ WF_linkVars(GuardThread(n) \/ Leave(<<"guard", n>>))
                     /\ WF_linkVars(sock[n] = "connecting" /\ Network(n))
-----------------------------------------------------------------------------
LinkTypeOK ==
  /\ client \in 0 .. MaxConnects /\ made \in 0 .. MaxConnects
  /\ sock \in [Conn -> {"none", "connecting", "open", "failed", "lost", "closed"}]
  /\ onConnect \in [Conn -> {"none", "pending", "connected", "sent", "thrown", "ticking", "done"}]
  /\ ticking \in BOOLEAN /\ asked \in BOOLEAN /\ outOfTurn \in BOOLEAN /\ overlapped \in BOOLEAN
  /\ tick \in [at : {"idle", "elapsed", "alive", "checked", "validated"}, conn : 0 .. MaxConnects]
  /\ leaving \in [Thread -> {"out", "closing", "forgetting", "stopping"}]
  /\ guardTimer \in running \cup {None}
  /\ running \subseteq Conn /\ elapsed \subseteq Conn
  /\ peer \in 0 .. MaxConnects
  /\ requests \in [Conn -> Nat] /\ replies \in [Conn -> Nat]
  /\ validated \subseteq Conn

(* Connect overwrites _tcpClient without closing what it held, and         *)
(* Disconnect forgets whichever client is there by then.  In any order of  *)
(* buttons, failures, timeouts and completions a TcpClient that is not the *)
(* current one is closed, unless two threads have been between the test    *)
(* and the null of Disconnect at once (NetClient.cs:40-62).                *)
NoSocketLeft == ~overlapped => \A n \in 1 .. made : n # client => sock[n] = "closed"

(* As long as no thread acts out of turn the timers are those of the       *)
(* current connection, and its guard stops when the handshake is answered, *)
(* except while a thread is on the way to stop them                        *)
(* (NetManager.cs:104-139, NetGuardTimer.cs:36-50).                        *)
TimersFitConnection ==
  ~outOfTurn =>
    /\ running = {guardTimer} \ {None}
    /\ \/ Stopping
       \/ /\ ticking => client # None
          /\ running \subseteq {client}
          /\ running \cap validated # {} => tick.at = "validated"

(* No connection stays for ever without being confirmed or given up,       *)
(* although the game may not answer or the connection may fail at any      *)
(* point (NetManager.cs:104-129).                                          *)
ConnectionResolved == []<>(client = None \/ client \in validated \/ outOfTurn)

(* The end of a connection is noticed (NetClient.cs:69-94). *)
LossNoticed == []<>(client # None /\ sock[client] = "lost" => outOfTurn)
=============================================================================
