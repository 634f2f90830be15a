--------------------------- MODULE ClientNetwork ----------------------------
(***************************************************************************)
(* YunoClientNetwork in GameApp: the game thread starts and stops it, pumps *)
(* the packets and sends; a network thread runs the io_context, which is   *)
(* the only one to touch the TcpClient.  They share the queue of posted    *)
(* operations, the queue of incoming packets and m_running.                *)
(***************************************************************************)
EXTENDS TcpClient, Sequences, SequencesExt

CONSTANTS
    MaxStarts,    \* bound: calls of Start
    MaxPackets    \* bound: packets the server sends

ASSUME StartBound == MaxStarts \in Nat \ {0}
ASSUME PacketBound == MaxPackets \in Nat

VARIABLES
    main,             \* where the game thread is
    starts,           \* calls of Start that went through
    enterRequested,   \* GameApp::m_enterWorldRequested
    netThread,        \* the thread that runs m_io.run()
    workGuard,        \* m_workGuard holds the io_context
    ioStopped,        \* m_io is stopped
    inHandler,        \* the network thread is in a handler
    posted,           \* operations posted to m_io
    client,           \* m_client
    arrived,          \* packets the sessions delivered
    inQ,              \* m_inQ
    pumped,           \* packets the dispatcher was given
    sent              \* messages handed to a session

gameVars == <<main, starts, enterRequested, pumped>>
netVars == <<netThread, workGuard, ioStopped, inHandler, client, sent>>
vars == <<gameVars, netVars, posted, arrived, inQ>>

Enter == 0                       \* C2S_EnterWorld
Packet == 1 .. MaxPackets        \* snapshots; C2S_AckSnapshot has their number
Message == {Enter} \cup Packet

Connecting == [op |-> "connect"]
Disconnecting == [op |-> "disconnect"]
Sending(m) == [op |-> "send", msg |-> m]
Operation == {Connecting, Disconnecting} \cup {Sending(m) : m \in Message}

TypeOK ==
    /\ main \in {"off", "register", "pump", "check", "stop", "join", "clear"}
    /\ starts \in 0 .. MaxStarts
    /\ enterRequested \in BOOLEAN
    /\ netThread \in {"none", "running", "ended"}
    /\ workGuard \in BOOLEAN
    /\ ioStopped \in BOOLEAN
    /\ inHandler \in BOOLEAN
    /\ posted \in Seq(Operation)
    /\ client \in ClientType(MaxStarts)
    /\ arrived \in 0 .. MaxPackets
    /\ inQ \in Seq(Packet)
    /\ pumped \in Seq(Packet)
    /\ sent \in Seq(Message)

Init ==
    /\ main = "off"
    /\ starts = 0
    /\ enterRequested = FALSE
    /\ netThread = "none"
    /\ workGuard = TRUE
    /\ ioStopped = FALSE
    /\ inHandler = FALSE
    /\ posted = <<>>
    /\ client = NewClient
    /\ arrived = 0
    /\ inQ = <<>>
    /\ pumped = <<>>
    /\ sent = <<>>

-----------------------------------------------------------------------------
(* The game thread.                                                        *)

\* Variant (StopIsFinal): Start restarts the io_context.
Restarted == FALSE

StoppedAtStart == ioStopped

\* Start, from GameApp::OnInit or again after Stop.  The io_context is not
\* restarted.
Start ==
    /\ main = "off" /\ starts < MaxStarts
    /\ starts' = starts + 1
    /\ netThread' = "running"
    /\ ioStopped' = StoppedAtStart
    /\ posted' = Append(posted, Connecting)
    /\ main' = "register"
    /\ UNCHANGED <<enterRequested, workGuard, inHandler, client, arrived, inQ, pumped, sent>>

\* RegisterMatchPacketHandler comes after Start, and before the first frame.
RegisterHandlers ==
    /\ main = "register"
    /\ main' = "pump"
    /\ UNCHANGED <<starts, enterRequested, pumped, netVars, posted, arrived, inQ>>

\* Variant (IncomingPipe): the queue is popped at the wrong end.
PopNewest == [pkt |-> Last(inQ), rest |-> Front(inQ)]

PopIncoming == [pkt |-> Head(inQ), rest |-> Tail(inQ)]

\* One round of the loop of PumpIncoming: the handler of the snapshot posts
\* its acknowledgement.
PumpIncoming ==
    /\ main = "pump" /\ inQ # <<>>
    /\ LET popped == PopIncoming
       IN  /\ inQ' = popped.rest
           /\ pumped' = Append(pumped, popped.pkt)
           /\ posted' = Append(posted, Sending(popped.pkt))
    /\ UNCHANGED <<main, starts, enterRequested, netVars, arrived>>

\* The loop found the queue empty.
PumpEnds ==
    /\ main = "pump" /\ inQ = <<>>
    /\ main' = "check"
    /\ UNCHANGED <<starts, enterRequested, pumped, netVars, posted, arrived, inQ>>

\* Variant (EnterIsSent): the flag is set whether or not there is a session.
RequestedEagerly == TRUE

Requested == enterRequested \/ IsConnected(client)

\* The rest of OnUpdate: the request to enter the world goes out once.
\* IsConnected reads m_session while the network thread may write it.
CheckConnected ==
    /\ main = "check"
    /\ posted' = IF IsConnected(client) /\ ~enterRequested
                 THEN Append(posted, Sending(Enter)) ELSE posted
    /\ enterRequested' = Requested
    /\ main' = "pump"
    /\ UNCHANGED <<starts, pumped, netVars, arrived, inQ>>

\* Stop, from OnShutdown: first the posted disconnection ...
Stop ==
    /\ main = "pump"
    /\ posted' = Append(posted, Disconnecting)
    /\ main' = "stop"
    /\ UNCHANGED <<starts, enterRequested, pumped, netVars, arrived, inQ>>

\* Variant (StopReturns): the io_context is left to run out of work.
WorkGuardOnly == FALSE

IoStop == TRUE

\* ... then the io_context, which may not have run it, or be in a handler ...
StopIo ==
    /\ main = "stop"
    /\ workGuard' = FALSE
    /\ ioStopped' = (ioStopped \/ IoStop)
    /\ main' = "join"
    /\ UNCHANGED <<starts, enterRequested, pumped, netThread, inHandler, client, sent, posted,
                   arrived, inQ>>

Join ==
    /\ main = "join" /\ netThread = "ended"
    /\ main' = "clear"
    /\ UNCHANGED <<starts, enterRequested, pumped, netVars, posted, arrived, inQ>>

ClearIncoming ==
    /\ main = "clear"
    /\ inQ' = <<>>
    /\ main' = "off"
    /\ UNCHANGED <<starts, enterRequested, pumped, netVars, posted, arrived>>

-----------------------------------------------------------------------------
(* The network thread: m_io.run() takes one handler after the other.  A    *)
(* handler runs in two steps, its beginning and its effects, since it goes *)
(* on when m_io is stopped under it.  Which handler it was is settled by   *)
(* the second step: all that has become ready by then could have begun.    *)

BeginHandler ==
    /\ netThread = "running" /\ ~inHandler /\ ~ioStopped
    /\ posted # <<>> \/ HasWork(client)
    /\ inHandler' = TRUE
    /\ UNCHANGED <<gameVars, netThread, workGuard, ioStopped, client, sent, posted, arrived, inQ>>

\* What was posted runs in the order it was posted in.
RunPosted ==
    /\ inHandler /\ posted # <<>>
    /\ inHandler' = FALSE
    /\ posted' = Tail(posted)
    /\ LET o == Head(posted)
       IN  /\ client' = CASE o.op = "connect" -> Connect(client)
                          [] o.op = "disconnect" -> Disconnect(client)
                          [] OTHER -> client
           /\ sent' = IF o.op = "send" /\ IsConnected(client) THEN Append(sent, o.msg) ELSE sent
    /\ UNCHANGED <<gameVars, netThread, workGuard, ioStopped, arrived, inQ>>

\* Completions of asynchronous operations of the client.
ClientStep(c) ==
    /\ inHandler
    /\ inHandler' = FALSE
    /\ client' = c
    /\ UNCHANGED <<gameVars, netThread, workGuard, ioStopped, posted, sent, arrived, inQ>>

ResolveHandler ==
    /\ client.resolving > 0
    /\ ClientStep(Resolved(client)) \/ ClientStep(ResolveFailed(client))

ConnectHandler ==
    /\ client.connecting > 0
    /\ ClientStep(Connected(client)) \/ ClientStep(ConnectFailed(client))

SessionCloses(s) == s \in client.closing /\ ClientStep(Closed(client, s))

SessionEnds(s) == s \in client.open /\ ClientStep(Ended(client, s))

\* m_onPacket: PushIncoming.
PacketArrives(s) ==
    /\ inHandler /\ s \in client.open
    /\ inHandler' = FALSE
    /\ arrived < MaxPackets
    /\ arrived' = arrived + 1
    /\ inQ' = Append(inQ, arrived')
    /\ UNCHANGED <<gameVars, netThread, workGuard, ioStopped, client, sent, posted>>

\* m_io.run() returns: stopped, or nothing left to do, which stops it too.
RunReturns ==
    /\ netThread = "running" /\ ~inHandler
    /\ \/ ioStopped
       \/ ~workGuard /\ posted = <<>> /\ ~HasWork(client)
    /\ netThread' = "ended"
    /\ ioStopped' = TRUE
    /\ UNCHANGED <<gameVars, workGuard, inHandler, client, sent, posted, arrived, inQ>>

-----------------------------------------------------------------------------
Game == Start \/ RegisterHandlers \/ PumpIncoming \/ PumpEnds \/ CheckConnected

Stopping == Stop \/ StopIo \/ Join \/ ClearIncoming

Network ==
    \/ ResolveHandler \/ ConnectHandler
    \/ \E s \in 1 .. MaxStarts : SessionCloses(s) \/ SessionEnds(s) \/ PacketArrives(s)

Handler == RunPosted \/ Network

Next == Game \/ Stopping \/ BeginHandler \/ Handler \/ RunReturns

Spec == Init /\ [][Next]_vars

\* The game thread goes on with its frames and with a Stop it has begun, the
\* network thread runs what is posted and gets to the end of a handler.
\* Nothing is asked of the network: a resolution, a connection or a packet may
\* never come.
FairSpec ==
    /\ Spec
    /\ WF_vars(RegisterHandlers \/ PumpIncoming \/ PumpEnds \/ CheckConnected)
    /\ WF_vars(StopIo \/ Join \/ ClearIncoming)
    /\ WF_vars(posted # <<>> /\ BeginHandler)
    /\ WF_vars(Handler)
    /\ WF_vars(RunReturns)

-----------------------------------------------------------------------------
(* Properties.                                                             *)

\* Between a Stop that returned and the next Start nothing is left for the
\* game to see and nobody is left to add to it (stop, join, clear, in this
\* order) ...
StoppedIsQuiet == main = "off" => inQ = <<>> /\ netThread # "running"

\* ... and while the client says it is connected its session has an open socket
\* that nobody asked to close, and it has no other session.
CurrentIsOpen ==
    /\ client.open \ client.closing = (IF IsConnected(client) THEN {client.session} ELSE {})
    /\ client.resolving + client.connecting + client.made <= 1

\* The two threads agree on what the connection is: the reset at the end of any
\* session drops the right one, since there is one Connect per run of the
\* io_context (TcpClient.cpp:61, :104), and Stop leaves nothing running behind
\* it (YunoClientNetwork.cpp:89-99).
ThreadsAgree == TypeOK /\ StoppedIsQuiet /\ CurrentIsOpen

\* Stop has not returned yet.
NotStoppedYet == starts = 0 \/ (starts = 1 /\ main # "off")

\* Once Stop has returned the client connects nothing, sends nothing and gets
\* nothing: a handler that m_io.stop() met half way has ended at the join, and
\* a Start after it finds an io_context nobody restarts
\* (YunoClientNetwork.cpp:52-72, :90-93).
StopIsFinal == [][~NotStoppedYet => UNCHANGED <<client, sent, arrived>>]_vars

\* Stop returns, whatever the network does (YunoClientNetwork.cpp:89-93).
StopReturns == main = "stop" ~> main = "off"

\* A client with a session asks to enter the world, or loses the session, or
\* is stopped (GameApp.cpp:139-156).
EnterIsSent ==
    IsConnected(client) ~> \/ \E i \in DOMAIN sent : sent[i] = Enter
                           \/ ~IsConnected(client)
                           \/ ioStopped

\* The game thread gets the packets in the order the sessions delivered them,
\* and none after Stop cleared the queue (YunoClientNetwork.cpp:126-156).
Incoming == INSTANCE PacketPipe WITH
                Content <- Packet,
                Capacity <- MaxPackets,
                up <- NotStoppedYet,
                pending <- inQ,
                wire <- pumped

IncomingPipe == Incoming!PipeSpec
=============================================================================
