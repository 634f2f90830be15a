---------------------------- MODULE ClientProofs ----------------------------
(***************************************************************************)
(* Proofs about the client as the server sees it.  ClientNetwork: one      *)
(* connection attempt per run of the io_context, and nothing left behind   *)
(* by Stop.  Pacing: what the client sends fits what the server lets in.   *)
(***************************************************************************)
EXTENDS ClientNetwork, Pacing, TLAPS

\* What holds of the client whatever is asked of it, as long as it is asked to
\* connect once: the attempt is a resolution, a connection or a session.
OneAttempt(c) ==
    /\ c \in ClientType(MaxStarts)
    /\ c.resolving + c.connecting + c.made <= 1
    /\ c.open \subseteq 1 .. c.made
    /\ c.closing \subseteq 1 .. c.made
    /\ c.open \ c.closing = IF IsConnected(c) THEN {c.session} ELSE {}

\* Start is called once before the io_context stops, so the one connection
\* that is posted finds the client as it was made, also in a handler that goes
\* on when the io_context is stopped ...
ConnectsOnce ==
    /\ starts = 0 => /\ main = "off" /\ posted = <<>>
                     /\ client = NewClient /\ netThread = "none"
    /\ main = "off" => starts = 0 \/ netThread = "ended"
    /\ ~ioStopped \/ inHandler => \A i \in 1 .. Len(posted) :
                        posted[i] = Connecting => i = 1 /\ client = NewClient

\* ... and Stop gets past the join only when the thread has ended, which it
\* does only in an io_context that is stopped, and between two handlers: a
\* second Start finds the queue empty and nobody to fill it.
StopsInOrder ==
    /\ netThread = "ended" => ioStopped
    /\ main = "clear" => netThread = "ended"
    /\ main = "off" => inQ = <<>>
    /\ starts > 1 => ioStopped /\ ~inHandler /\ inQ = <<>>
    /\ inHandler => netThread = "running"
    /\ Len(inQ) <= arrived

ClientInv == TypeOK /\ OneAttempt(client) /\ ConnectsOnce /\ StopsInOrder

\* After the first Stop there is nobody left to touch the client.
StaysFinal == ~NotStoppedYet => UNCHANGED <<client, sent, arrived>>

-----------------------------------------------------------------------------
(* The operations of the client.                                           *)

LEMMA NewClientIsOne == OneAttempt(NewClient)
  BY StartBound DEF OneAttempt, NewClient, ClientType, NoSession, IsConnected

LEMMA ConnectIsOne ==
    OneAttempt(Connect(NewClient))
  BY StartBound DEF OneAttempt, NewClient, Connect, ClientType, NoSession, IsConnected

\* A client that has a session has no attempt under way; its session is the
\* first and only one.
LEMMA SessionIsFirst ==
    ASSUME NEW c, OneAttempt(c)
    PROVE  /\ c.made \in {0, 1} /\ c.open \subseteq {1} /\ c.closing \subseteq {1}
           /\ c.made = 0 => c.open = {} /\ c.closing = {} /\ c.session = NoSession
           /\ c.made = 1 => c.resolving = 0 /\ c.connecting = 0
           /\ c.session \in {0, 1}
<1>1. /\ c.made \in 0 .. MaxStarts /\ c.resolving \in Nat /\ c.connecting \in Nat
      /\ c.session \in 0 .. MaxStarts
  BY DEF OneAttempt, ClientType
<1>2. c.made \in {0, 1} /\ (c.made = 1 => c.resolving = 0 /\ c.connecting = 0)
  BY <1>1, StartBound DEF OneAttempt
<1>3. 1 .. 0 = {} /\ 1 .. 1 = {1}
  OBVIOUS
<1>4. c.open \subseteq {1} /\ c.closing \subseteq {1} /\ (c.made = 0 => c.open = {} /\ c.closing = {})
  BY <1>2, <1>3 DEF OneAttempt
<1>5. c.session = NoSession \/ c.session \in c.open
  BY DEF OneAttempt, IsConnected
<1> QED
  BY <1>2, <1>4, <1>5 DEF NoSession

LEMMA ResolutionKeepsOne ==
    ASSUME NEW c, OneAttempt(c), c.resolving > 0
    PROVE  OneAttempt(Resolved(c)) /\ OneAttempt(ResolveFailed(c))
<1>1. /\ c \in ClientType(MaxStarts)
      /\ c.resolving = 1 /\ c.connecting = 0 /\ c.made = 0
      /\ c.open = {} /\ c.closing = {} /\ c.session = 0
  BY SessionIsFirst DEF OneAttempt, ClientType, NoSession
<1>2. ASSUME NEW d \in {Resolved(c), ResolveFailed(c)}
      PROVE  OneAttempt(d)
  <2>1. d = [c EXCEPT !.resolving = 0] \/ d = [c EXCEPT !.resolving = 0, !.connecting = 1]
    BY <1>1, <1>2 DEF Resolved, ResolveFailed
  <2>2. d \in ClientType(MaxStarts)
    BY <1>1, <2>1 DEF ClientType
  <2>3. /\ d.resolving = 0 /\ d.connecting \in {0, 1} /\ d.made = 0
        /\ d.open = {} /\ d.closing = {} /\ d.session = 0
    BY <1>1, <2>1 DEF ClientType
  <2> QED
    BY <2>2, <2>3 DEF OneAttempt, IsConnected, NoSession
<1> QED
  BY <1>2

LEMMA ConnectionKeepsOne ==
    ASSUME NEW c, OneAttempt(c), c.connecting > 0
    PROVE  OneAttempt(Connected(c)) /\ OneAttempt(ConnectFailed(c))
<1>1. /\ c \in ClientType(MaxStarts)
      /\ c.resolving = 0 /\ c.connecting = 1 /\ c.made = 0
      /\ c.open = {} /\ c.closing = {} /\ c.session = 0
  BY SessionIsFirst DEF OneAttempt, ClientType, NoSession
<1>2. OneAttempt(ConnectFailed(c))
  BY DEF OneAttempt, ClientType, IsConnected, ConnectFailed
<1> DEFINE d == Connected(c)
<1>3. d = [c EXCEPT !.connecting = 0, !.made = 1, !.session = 1, !.open = {1}]
  BY <1>1 DEF Connected
<1> HIDE DEF d
<1>5. 1 \in 0 .. MaxStarts /\ 1 \in 1 .. MaxStarts
  BY StartBound
<1>6. d \in ClientType(MaxStarts)
  BY <1>1, <1>3, <1>5 DEF ClientType
<1>7. /\ d.resolving = 0 /\ d.connecting = 0 /\ d.made = 1
      /\ d.open = {1} /\ d.closing = {} /\ d.session = 1
  BY <1>1, <1>3 DEF ClientType
<1>4. OneAttempt(d)
  BY <1>6, <1>7 DEF OneAttempt, IsConnected, NoSession
<1> QED
  BY <1>2, <1>4 DEF d

LEMMA DisconnectKeepsOne ==
    ASSUME NEW c, OneAttempt(c)
    PROVE  OneAttempt(Disconnect(c))
<1>1. CASE ~IsConnected(c)
  BY <1>1 DEF Disconnect
<1>2. CASE IsConnected(c)
  <2> DEFINE d == Disconnect(c)
  <2>1. /\ c \in ClientType(MaxStarts)
        /\ c.made = 1 /\ c.session = 1 /\ c.resolving = 0 /\ c.connecting = 0
        /\ c.open \subseteq {1} /\ c.closing \subseteq {1}
    BY <1>2, SessionIsFirst DEF OneAttempt, IsConnected, NoSession
  <2>4. d = [c EXCEPT !.session = 0, !.closing = c.closing \cup {1}]
    BY <1>2, <2>1 DEF Disconnect, NoSession
  <2> HIDE DEF d
  <2>5. 0 \in 0 .. MaxStarts /\ 1 \in 1 .. MaxStarts
    BY StartBound
  <2>6. d \in ClientType(MaxStarts)
    BY <2>1, <2>4, <2>5 DEF ClientType
  <2>2. /\ d.resolving = 0 /\ d.connecting = 0 /\ d.made = 1
        /\ d.open = c.open /\ d.closing = c.closing \cup {1} /\ d.session = 0
    BY <2>1, <2>4 DEF ClientType
  <2>3. d.open \subseteq 1 .. 1 /\ d.closing \subseteq 1 .. 1 /\ d.open \ d.closing = {}
    BY <2>1, <2>2
  <2>7. OneAttempt(d)
    BY <2>2, <2>3, <2>6 DEF OneAttempt, IsConnected, NoSession
  <2> QED
    BY <2>7 DEF d
<1> QED
  BY <1>1, <1>2

LEMMA EndKeepsOne ==
    ASSUME NEW c, OneAttempt(c), NEW s
    PROVE  /\ s \in c.closing => OneAttempt(Closed(c, s))
           /\ s \in c.open => OneAttempt(Ended(c, s))
<1>1. ASSUME s \in c.closing
      PROVE  OneAttempt(Closed(c, s))
  <2>1. (c.open \ {s}) \ (c.closing \ {s}) = c.open \ c.closing
    BY <1>1
  <2> QED
    BY <2>1 DEF OneAttempt, ClientType, IsConnected, Closed
<1>2. ASSUME s \in c.open
      PROVE  OneAttempt(Ended(c, s))
  <2> DEFINE d == Ended(c, s)
  <2>1. /\ c \in ClientType(MaxStarts)
        /\ c.open \ {s} = {} /\ c.closing \ {s} = {}
        /\ c.made = 1 /\ c.resolving = 0 /\ c.connecting = 0
    BY <1>2, SessionIsFirst DEF OneAttempt
  <2>2. d = [[c EXCEPT !.open = {}, !.closing = {}] EXCEPT !.session = 0]
    BY <2>1 DEF Ended, Closed, NoSession
  <2> HIDE DEF d
  <2>6. 0 \in 0 .. MaxStarts
    BY StartBound
  <2>4. d \in ClientType(MaxStarts)
    BY <2>1, <2>2, <2>6 DEF ClientType
  <2>5. /\ d.resolving = 0 /\ d.connecting = 0 /\ d.made = 1
        /\ d.open = {} /\ d.closing = {} /\ d.session = 0
    BY <2>1, <2>2 DEF ClientType
  <2>3. OneAttempt(d)
    BY <2>4, <2>5 DEF OneAttempt, IsConnected, NoSession
  <2> QED
    BY <2>3 DEF d
<1> QED
  BY <1>1, <1>2

-----------------------------------------------------------------------------
(* Initial states, and the steps of the game thread.                       *)

LEMMA InitInv == Init => ClientInv
<1> SUFFICES ASSUME Init PROVE ClientInv
  OBVIOUS
<1>1. client \in ClientType(MaxStarts) /\ OneAttempt(client)
  BY NewClientIsOne DEF Init, OneAttempt
<1>2. TypeOK
  <2>1. /\ enterRequested \in BOOLEAN /\ workGuard \in BOOLEAN /\ ioStopped \in BOOLEAN
    BY DEF Init
  <2>2. /\ posted \in Seq(Operation) /\ inQ \in Seq(Packet)
        /\ pumped \in Seq(Packet) /\ sent \in Seq(Message)
    BY DEF Init
  <2>3. starts \in 0 .. MaxStarts /\ arrived \in 0 .. MaxPackets
    BY StartBound, PacketBound DEF Init
  <2> QED
    BY <1>1, <2>1, <2>2, <2>3 DEF Init, TypeOK
<1>3. ConnectsOnce /\ StopsInOrder
  BY StartBound DEF Init, ConnectsOnce, StopsInOrder
<1> QED
  BY <1>1, <1>2, <1>3 DEF ClientInv

\* Posting anything but a connection.
LEMMA PostKeeps ==
    ASSUME ClientInv, NEW o \in Operation, o # Connecting, starts' = starts, starts # 0,
           posted' = Append(posted, o) \/ posted' = posted,
           client' = client, ioStopped' = ioStopped, inHandler' = inHandler
    PROVE  /\ posted' \in Seq(Operation)
           /\ ~ioStopped' \/ inHandler' => \A i \in 1 .. Len(posted') :
                                posted'[i] = Connecting => i = 1 /\ client' = NewClient
<1>1. posted \in Seq(Operation)
  BY DEF ClientInv, TypeOK
<1>2. CASE posted' = posted
  BY <1>1, <1>2 DEF ClientInv, ConnectsOnce
<1>3. CASE posted' = Append(posted, o)
  <2>1. /\ posted' \in Seq(Operation) /\ Len(posted') = Len(posted) + 1
        /\ \A i \in 1 .. Len(posted) : posted'[i] = posted[i]
        /\ posted'[Len(posted) + 1] = o
    BY <1>1, <1>3
  <2>2. ASSUME ~ioStopped' \/ inHandler', NEW i \in 1 .. Len(posted'), posted'[i] = Connecting
        PROVE  i = 1 /\ client' = NewClient
    <3>1. i \in 1 .. Len(posted)
      BY <2>1, <2>2
    <3> QED
      BY <2>1, <2>2, <3>1 DEF ClientInv, ConnectsOnce
  <2> QED
    BY <2>1, <2>2
<1> QED
  BY <1>2, <1>3

LEMMA OperationKinds ==
    /\ Connecting \in Operation /\ Disconnecting \in Operation
    /\ Disconnecting # Connecting
    /\ \A m \in Message : Sending(m) \in Operation /\ Sending(m) # Connecting
  BY DEF Operation, Connecting, Disconnecting, Sending

LEMMA StartKeeps ==
    ASSUME ClientInv, Start
    PROVE  ClientInv' /\ StaysFinal
<1>1. posted \in Seq(Operation)
  BY DEF ClientInv, TypeOK
<1>2. posted' = Append(posted, Connecting) /\ posted' \in Seq(Operation)
  BY <1>1, OperationKinds DEF Start
<1>3. starts' \in 0 .. MaxStarts /\ starts' # 0
  BY StartBound DEF Start, ClientInv, TypeOK
<1>4. TypeOK'
  BY <1>2, <1>3 DEF Start, StoppedAtStart, ClientInv, TypeOK
<1>5. ConnectsOnce'
  <2>0. ~inHandler' /\ ioStopped' = ioStopped
    BY DEF Start, StoppedAtStart, ClientInv, ConnectsOnce, StopsInOrder
  <2>1. CASE ioStopped
    BY <1>3, <2>0, <2>1 DEF Start, ConnectsOnce
  <2>2. CASE ~ioStopped
    <3>1. starts = 0
      BY <2>2 DEF Start, ClientInv, ConnectsOnce, StopsInOrder
    <3>2. posted = <<>> /\ client' = NewClient
      BY <3>1 DEF Start, ClientInv, ConnectsOnce
    <3>3. Len(posted') = 1
      BY <1>2, <3>2
    <3> QED
      BY <1>3, <3>2, <3>3 DEF Start, ConnectsOnce
  <2> QED
    BY <2>1, <2>2
<1>6. StopsInOrder' /\ OneAttempt(client)' /\ StaysFinal
  BY DEF Start, StoppedAtStart, ClientInv, TypeOK, ConnectsOnce, StopsInOrder, OneAttempt, StaysFinal
<1> QED
  BY <1>4, <1>5, <1>6 DEF ClientInv

LEMMA FrameKeeps ==
    ASSUME ClientInv, RegisterHandlers \/ PumpIncoming \/ PumpEnds \/ CheckConnected
    PROVE  ClientInv' /\ StaysFinal
<1>1. /\ main # "off" /\ main' \in {"pump", "check"} /\ starts # 0
      /\ UNCHANGED <<starts, netThread, workGuard, ioStopped, inHandler, client, sent, arrived>>
  BY DEF RegisterHandlers, PumpIncoming, PumpEnds, CheckConnected, netVars,
         ClientInv, ConnectsOnce
<1>2. inQ \in Seq(Packet) /\ pumped \in Seq(Packet) /\ enterRequested \in BOOLEAN
  BY DEF ClientInv, TypeOK
<1>3. /\ inQ' \in Seq(Packet) /\ pumped' \in Seq(Packet) /\ enterRequested' \in BOOLEAN
      /\ Len(inQ') <= Len(inQ) /\ (inQ = <<>> => inQ' = <<>>)
      /\ \E o \in Operation : o # Connecting /\ (posted' = Append(posted, o) \/ posted' = posted)
  <2>1. CASE PumpIncoming
    <3>1. /\ Head(inQ) \in Packet /\ Tail(inQ) \in Seq(Packet)
          /\ Len(Tail(inQ)) <= Len(inQ) /\ inQ # <<>>
      BY <1>2, <2>1 DEF PumpIncoming
    <3>2. /\ pumped' = Append(pumped, Head(inQ)) /\ inQ' = Tail(inQ)
          /\ posted' = Append(posted, Sending(Head(inQ))) /\ enterRequested' = enterRequested
      BY <2>1 DEF PumpIncoming, PopIncoming
    <3> QED
      BY <1>2, <3>1, <3>2, OperationKinds DEF Message
  <2>2. CASE CheckConnected
    <3>1. /\ inQ' = inQ /\ pumped' = pumped /\ enterRequested' = Requested
          /\ posted' = Append(posted, Sending(Enter)) \/ posted' = posted
      BY <2>2 DEF CheckConnected
    <3> QED
      BY <1>2, <3>1, OperationKinds DEF Message, Requested, IsConnected
  <2>3. CASE RegisterHandlers \/ PumpEnds
    BY <1>2, <2>3, OperationKinds DEF RegisterHandlers, PumpEnds
  <2> QED
    BY <2>1, <2>2, <2>3
<1>4. PICK o \in Operation : o # Connecting /\ (posted' = Append(posted, o) \/ posted' = posted)
  BY <1>3
<1>5. /\ posted' \in Seq(Operation)
      /\ ~ioStopped' \/ inHandler' => \A i \in 1 .. Len(posted') :
                           posted'[i] = Connecting => i = 1 /\ client' = NewClient
  BY <1>1, <1>4, PostKeeps
<1>6. TypeOK'
  BY <1>1, <1>3, <1>5 DEF ClientInv, TypeOK
<1>7. ConnectsOnce'
  BY <1>1, <1>5 DEF ConnectsOnce
<1>8. StopsInOrder' /\ OneAttempt(client)' /\ StaysFinal
  BY <1>1, <1>3 DEF ClientInv, TypeOK, StopsInOrder, OneAttempt, StaysFinal
<1> QED
  BY <1>6, <1>7, <1>8 DEF ClientInv

LEMMA StoppingKeeps ==
    ASSUME ClientInv, Stopping
    PROVE  ClientInv' /\ StaysFinal
<1>1. /\ main # "off" /\ starts # 0
      /\ UNCHANGED <<starts, enterRequested, pumped, netThread, inHandler, client, sent, arrived>>
  BY DEF Stopping, Stop, StopIo, Join, ClearIncoming, netVars, ClientInv, ConnectsOnce
<1>2. CASE Stop
  <2>1. /\ main' = "stop" /\ posted' = Append(posted, Disconnecting)
        /\ UNCHANGED <<workGuard, ioStopped, inQ>>
    BY <1>2 DEF Stop, netVars
  <2>2. /\ posted' \in Seq(Operation)
        /\ ~ioStopped' \/ inHandler' => \A i \in 1 .. Len(posted') :
                             posted'[i] = Connecting => i = 1 /\ client' = NewClient
    BY <1>1, <2>1, PostKeeps, OperationKinds
  <2> QED
    BY <1>1, <2>1, <2>2
       DEF ClientInv, TypeOK, ConnectsOnce, StopsInOrder, OneAttempt, StaysFinal
<1>3. CASE StopIo
  <2>1. /\ main' = "join" /\ workGuard' = FALSE /\ ioStopped' = TRUE
        /\ UNCHANGED <<posted, inQ>>
    BY <1>3 DEF StopIo, IoStop
  <2>2. TypeOK' /\ OneAttempt(client)' /\ StaysFinal
    BY <1>1, <2>1 DEF ClientInv, TypeOK, OneAttempt, StaysFinal
  <2>3. ConnectsOnce'
    BY <1>1, <1>3, <2>1 DEF ClientInv, ConnectsOnce, StopsInOrder, StopIo
  <2>4. StopsInOrder'
    BY <1>1, <2>1 DEF ClientInv, StopsInOrder
  <2> QED
    BY <2>2, <2>3, <2>4 DEF ClientInv
<1>4. CASE Join
  BY <1>1, <1>4
     DEF Join, netVars, ClientInv, TypeOK, ConnectsOnce, StopsInOrder, OneAttempt, StaysFinal
<1>5. CASE ClearIncoming
  BY <1>1, <1>5
     DEF ClearIncoming, netVars, ClientInv, TypeOK, ConnectsOnce, StopsInOrder, OneAttempt,
         StaysFinal
<1> QED
  BY <1>2, <1>3, <1>4, <1>5 DEF Stopping

-----------------------------------------------------------------------------
(* The steps of the network thread.                                        *)

\* A handler runs between the first Start and the join of its Stop.
LEMMA RunningIsFirst ==
    ASSUME ClientInv, inHandler
    PROVE  starts = 1 /\ main # "off" /\ netThread = "running" /\ NotStoppedYet
  BY DEF ClientInv, TypeOK, ConnectsOnce, StopsInOrder, NotStoppedYet

LEMMA BeginHandlerKeeps ==
    ASSUME ClientInv, BeginHandler
    PROVE  ClientInv' /\ StaysFinal
<1>1. /\ netThread = "running" /\ ~ioStopped /\ inHandler'
      /\ UNCHANGED <<main, starts, enterRequested, pumped, netThread, workGuard, ioStopped,
                     client, sent, posted, arrived, inQ>>
  BY DEF BeginHandler, gameVars
<1>2. TypeOK'
  BY <1>1 DEF ClientInv, TypeOK
<1>3. ConnectsOnce'
  BY <1>1 DEF ClientInv, ConnectsOnce
<1>4. starts \in Nat /\ (starts > 1 => ioStopped)
  BY DEF ClientInv, TypeOK, StopsInOrder
<1>5. StopsInOrder'
  BY <1>1, <1>4 DEF ClientInv, StopsInOrder
<1> QED
  BY <1>1, <1>2, <1>3, <1>5 DEF ClientInv, StaysFinal

LEMMA RunPostedKeeps ==
    ASSUME ClientInv, RunPosted
    PROVE  ClientInv' /\ StaysFinal
<1>1. /\ inHandler /\ inHandler' = FALSE /\ posted # <<>> /\ posted' = Tail(posted)
      /\ UNCHANGED <<main, starts, enterRequested, pumped, netThread, workGuard, ioStopped,
                     arrived, inQ>>
  BY DEF RunPosted, gameVars
<1>2. /\ posted \in Seq(Operation) /\ Tail(posted) \in Seq(Operation)
      /\ Head(posted) = posted[1] /\ 1 \in 1 .. Len(posted) /\ Head(posted) \in Operation
      /\ Len(Tail(posted)) = Len(posted) - 1
      /\ \A i \in 1 .. Len(Tail(posted)) : Tail(posted)[i] = posted[i + 1]
  BY <1>1 DEF ClientInv, TypeOK
<1>3. OneAttempt(client')
  <2>1. CASE Head(posted).op = "connect"
    <3>1. Head(posted) = Connecting
      BY <1>2, <2>1 DEF Operation, Connecting, Disconnecting, Sending
    <3>2. client' = Connect(NewClient)
      BY <1>1, <1>2, <2>1, <3>1, RunningIsFirst DEF RunPosted, ClientInv, ConnectsOnce
    <3> QED
      BY <3>2, ConnectIsOne
  <2>2. CASE Head(posted).op = "disconnect"
    <3>1. client' = Disconnect(client)
      BY <2>2 DEF RunPosted
    <3> QED
      BY <3>1, DisconnectKeepsOne DEF ClientInv
  <2>3. CASE Head(posted).op \notin {"connect", "disconnect"}
    <3>1. client' = client
      BY <2>3 DEF RunPosted
    <3> QED
      BY <3>1 DEF ClientInv
  <2> QED
    BY <2>1, <2>2, <2>3
<1>4. sent' \in Seq(Message)
  <2>1. sent \in Seq(Message)
    BY DEF ClientInv, TypeOK
  <2>2. CASE Head(posted).op = "send" /\ IsConnected(client)
    <3>1. Head(posted).msg \in Message
      BY <1>2, <2>2 DEF Operation, Connecting, Disconnecting, Sending
    <3> QED
      BY <2>1, <2>2, <3>1 DEF RunPosted
  <2>3. CASE ~(Head(posted).op = "send" /\ IsConnected(client))
    BY <2>1, <2>3 DEF RunPosted
  <2> QED
    BY <2>2, <2>3
<1>5. client' \in ClientType(MaxStarts)
  BY <1>3 DEF OneAttempt
<1>6. TypeOK'
  BY <1>1, <1>2, <1>4, <1>5 DEF ClientInv, TypeOK
<1>7. ConnectsOnce'
  <2>1. starts' = 1 /\ main' # "off"
    BY <1>1, RunningIsFirst
  <2>2. ASSUME NEW i \in 1 .. Len(posted')
        PROVE  posted'[i] # Connecting
    <3>1. i + 1 \in 1 .. Len(posted) /\ i + 1 # 1 /\ posted'[i] = posted[i + 1]
      BY <1>1, <1>2, <2>2
    <3> QED
      BY <1>1, <3>1, RunningIsFirst DEF ClientInv, ConnectsOnce
  <2> QED
    BY <2>1, <2>2 DEF ConnectsOnce
<1>8. StopsInOrder' /\ StaysFinal
  BY <1>1, RunningIsFirst DEF ClientInv, StopsInOrder, StaysFinal
<1> QED
  BY <1>3, <1>6, <1>7, <1>8 DEF ClientInv

\* A completion of the client; what is posted cannot be a connection any more,
\* since the client that waits for one has nothing to complete.
LEMMA ClientStepKeeps ==
    ASSUME ClientInv, NEW c, OneAttempt(c), ClientStep(c), client # NewClient
    PROVE  ClientInv' /\ StaysFinal
<1>1. /\ inHandler /\ inHandler' = FALSE /\ client' = c
      /\ UNCHANGED <<main, starts, enterRequested, pumped, netThread, workGuard, ioStopped,
                     posted, sent, arrived, inQ>>
  BY DEF ClientStep, gameVars
<1>2. TypeOK'
  BY <1>1 DEF ClientInv, TypeOK, OneAttempt
<1>3. ConnectsOnce'
  BY <1>1, RunningIsFirst DEF ClientInv, ConnectsOnce
<1>4. StopsInOrder' /\ StaysFinal
  BY <1>1, RunningIsFirst DEF ClientInv, StopsInOrder, StaysFinal
<1> QED
  BY <1>1, <1>2, <1>3, <1>4 DEF ClientInv

LEMMA PacketArrivesKeeps ==
    ASSUME ClientInv, NEW s, PacketArrives(s)
    PROVE  ClientInv' /\ StaysFinal /\ inQ' = Append(inQ, arrived') /\ arrived' \in Packet
<1>1. /\ inHandler /\ inHandler' = FALSE /\ arrived < MaxPackets /\ arrived' = arrived + 1
      /\ inQ' = Append(inQ, arrived')
      /\ UNCHANGED <<main, starts, enterRequested, pumped, netThread, workGuard, ioStopped,
                     client, sent, posted>>
  BY DEF PacketArrives, gameVars
<1>2. arrived' \in Packet /\ arrived' \in 0 .. MaxPackets /\ arrived \in Nat
  BY <1>1, PacketBound DEF Packet, ClientInv, TypeOK
<1>3. inQ \in Seq(Packet) /\ inQ' \in Seq(Packet) /\ Len(inQ') = Len(inQ) + 1
  BY <1>1, <1>2 DEF ClientInv, TypeOK
<1>4. TypeOK'
  BY <1>1, <1>2, <1>3 DEF ClientInv, TypeOK
<1>5. starts' = 1 /\ main' # "off" /\ ConnectsOnce'
  BY <1>1, RunningIsFirst DEF ClientInv, ConnectsOnce
<1>6. StopsInOrder' /\ StaysFinal /\ OneAttempt(client)'
  BY <1>1, <1>2, <1>3, <1>5, RunningIsFirst DEF ClientInv, StopsInOrder, StaysFinal, OneAttempt
<1> QED
  BY <1>1, <1>2, <1>4, <1>5, <1>6 DEF ClientInv

LEMMA NetworkKeeps ==
    ASSUME ClientInv, Network
    PROVE  ClientInv' /\ StaysFinal
<1>1. /\ NewClient.resolving = 0 /\ NewClient.connecting = 0
      /\ NewClient.open = {} /\ NewClient.closing = {}
  BY DEF NewClient
<1>2. OneAttempt(client)
  BY DEF ClientInv
<1>3. CASE ResolveHandler
  BY <1>1, <1>2, <1>3, ResolutionKeepsOne, ClientStepKeeps DEF ResolveHandler
<1>4. CASE ConnectHandler
  BY <1>1, <1>2, <1>4, ConnectionKeepsOne, ClientStepKeeps DEF ConnectHandler
<1>5. ASSUME NEW s \in 1 .. MaxStarts, SessionCloses(s) \/ SessionEnds(s) \/ PacketArrives(s)
      PROVE  ClientInv' /\ StaysFinal
  BY <1>1, <1>2, <1>5, EndKeepsOne, ClientStepKeeps, PacketArrivesKeeps
     DEF SessionCloses, SessionEnds
<1> QED
  BY <1>3, <1>4, <1>5 DEF Network

LEMMA RunReturnsKeeps ==
    ASSUME ClientInv, RunReturns
    PROVE  ClientInv' /\ StaysFinal
<1>1. main # "off"
  BY DEF RunReturns, ClientInv, ConnectsOnce
<1> QED
  BY <1>1 DEF RunReturns, gameVars, ClientInv, TypeOK, ConnectsOnce, StopsInOrder, OneAttempt,
              StaysFinal

LEMMA StepInv ==
    ASSUME ClientInv, [Next]_vars
    PROVE  ClientInv' /\ StaysFinal
<1>1. CASE UNCHANGED vars
  BY <1>1 DEF vars, gameVars, netVars, ClientInv, TypeOK, ConnectsOnce, StopsInOrder,
              OneAttempt, StaysFinal
<1>2. CASE Game
  BY <1>2, StartKeeps, FrameKeeps DEF Game
<1>3. CASE Stopping \/ BeginHandler \/ Handler \/ RunReturns
  BY <1>3, StoppingKeeps, BeginHandlerKeeps, RunPostedKeeps, NetworkKeeps, RunReturnsKeeps
     DEF Handler
<1> QED
  BY <1>1, <1>2, <1>3 DEF Next

-----------------------------------------------------------------------------
(* Theorems.                                                               *)

\* In every reachable state there has been one attempt to connect, nobody
\* fills the queue after the join, and a second Start finds a dead io_context.
THEOREM ClientInvAlways == Spec => []ClientInv
  BY InitInv, StepInv, PTL DEF Spec

\* Game thread and network thread agree on the connection, for any number of
\* starts and packets: the session the client calls current has an open socket
\* nobody asked to close, and after Stop the queue stays empty
\* (TcpClient.cpp:61, :104, YunoClientNetwork.cpp:89-99).
THEOREM ThreadsAlwaysAgree == Spec => []ThreadsAgree
<1>1. ClientInv => ThreadsAgree
  <2> SUFFICES ASSUME ClientInv PROVE ThreadsAgree
    OBVIOUS
  <2>1. StoppedIsQuiet
    BY DEF ClientInv, StoppedIsQuiet, ConnectsOnce, StopsInOrder
  <2>2. CurrentIsOpen
    BY DEF ClientInv, OneAttempt, CurrentIsOpen
  <2> QED
    BY <2>1, <2>2 DEF ThreadsAgree, ClientInv
<1> QED
  BY <1>1, ClientInvAlways, PTL

\* Once Stop has returned nothing is connected, sent or received, however often
\* Start is called again: the join waits for the handler m_io.stop() met, and
\* nobody restarts the io_context (YunoClientNetwork.cpp:52-72, :90-93).
THEOREM StopAlwaysFinal == Spec => StopIsFinal
<1>1. ClientInv /\ [Next]_vars => [~NotStoppedYet => UNCHANGED <<client, sent, arrived>>]_vars
  BY StepInv DEF StaysFinal
<1> QED
  BY <1>1, ClientInvAlways, PTL DEF Spec, StopIsFinal

-----------------------------------------------------------------------------
(* The queue of incoming packets implements PacketPipe.                    *)

\* The steps that touch the pipe: an arrival, the pump, the clearing in Stop.
LEMMA PipeUntouched ==
    ASSUME UNCHANGED <<inQ, pumped>>, UNCHANGED NotStoppedYet
    PROVE  UNCHANGED Incoming!pipeVars
  BY DEF Incoming!pipeVars

LEMMA PipeStep ==
    ASSUME ClientInv, [Next]_vars
    PROVE  [Incoming!PipeNext]_Incoming!pipeVars
<1>1. /\ inQ \in Seq(Packet) /\ Len(inQ) <= arrived /\ arrived \in 0 .. MaxPackets
      /\ starts \in Nat
  BY DEF ClientInv, TypeOK, StopsInOrder
<1>2. CASE UNCHANGED vars
  BY <1>2, PipeUntouched DEF vars, gameVars, NotStoppedYet
<1>3. CASE Start
  BY <1>1, <1>3, PipeUntouched DEF Start, NotStoppedYet
<1>4. CASE PumpIncoming
  <2>1. NotStoppedYet /\ NotStoppedYet'
    BY <1>1, <1>4 DEF PumpIncoming, netVars, ClientInv, ConnectsOnce, StopsInOrder, NotStoppedYet
  <2>2. Incoming!Transmit
    BY <1>4, <2>1 DEF PumpIncoming, PopIncoming, Incoming!Transmit
  <2> QED
    BY <2>2 DEF Incoming!PipeNext
<1>5. CASE RegisterHandlers \/ PumpEnds \/ CheckConnected \/ Stop \/ StopIo \/ Join
  <2>1. UNCHANGED <<inQ, pumped, starts>> /\ main # "off" /\ main' # "off"
    BY <1>5 DEF RegisterHandlers, PumpEnds, CheckConnected, Stop, StopIo, Join
  <2> QED
    BY <2>1, PipeUntouched DEF NotStoppedYet
<1>6. CASE ClearIncoming
  <2>1. inQ' = <<>> /\ pumped' = pumped /\ starts' = starts /\ main # "off" /\ main' = "off"
    BY <1>6 DEF ClearIncoming
  <2>2. CASE starts = 1
    <3>1. Incoming!Break
      BY <2>1, <2>2 DEF Incoming!Break, NotStoppedYet
    <3> QED
      BY <3>1 DEF Incoming!PipeNext
  <2>3. CASE starts # 1
    <3>1. starts > 1 /\ inQ = <<>>
      BY <1>1, <2>1, <2>3 DEF ClientInv, ConnectsOnce, StopsInOrder
    <3> QED
      BY <2>1, <3>1, PipeUntouched DEF NotStoppedYet
  <2> QED
    BY <2>2, <2>3
<1>7. CASE BeginHandler \/ RunPosted \/ RunReturns \/ ResolveHandler \/ ConnectHandler
  BY <1>7, PipeUntouched
     DEF BeginHandler, RunPosted, RunReturns, ResolveHandler, ConnectHandler, ClientStep, gameVars, NotStoppedYet
<1>8. ASSUME NEW s \in 1 .. MaxStarts, SessionCloses(s) \/ SessionEnds(s)
      PROVE  UNCHANGED Incoming!pipeVars
  BY <1>8, PipeUntouched DEF SessionCloses, SessionEnds, ClientStep, gameVars, NotStoppedYet
<1>9. ASSUME NEW s \in 1 .. MaxStarts, PacketArrives(s)
      PROVE  Incoming!PipeNext
  <2>1. /\ inQ' = Append(inQ, arrived') /\ arrived' \in Packet
        /\ UNCHANGED <<pumped, starts, main>> /\ inHandler /\ arrived < MaxPackets
    BY <1>9, PacketArrivesKeeps DEF PacketArrives, gameVars
  <2>2. NotStoppedYet /\ NotStoppedYet'
    BY <2>1, RunningIsFirst DEF NotStoppedYet
  <2>3. Len(inQ) < MaxPackets
    BY <1>1, <2>1, PacketBound
  <2>4. Incoming!Accept(arrived')
    BY <2>1, <2>2, <2>3 DEF Incoming!Accept
  <2> QED
    BY <2>1, <2>4 DEF Incoming!PipeNext
<1> QED
  BY <1>2, <1>3, <1>4, <1>5, <1>6, <1>7, <1>8, <1>9
     DEF Next, Game, Stopping, Handler, Network

\* The game thread gets every packet once, in the order of arrival, and none
\* after Stop cleared the queue (YunoClientNetwork.cpp:126-156).
THEOREM IncomingImplementsPipe == Spec => IncomingPipe
<1>1. Init => Incoming!PipeInit
  BY DEF Init, Incoming!PipeInit, NotStoppedYet
<1> QED
  BY <1>1, PipeStep, ClientInvAlways, PTL DEF Spec, IncomingPipe, Incoming!PipeSpec

-----------------------------------------------------------------------------
(***************************************************************************)
(* The clocks (Pacing).  Every input under way was sent after those behind *)
(* it were due: its age bounds how many they are, and so do the age of the *)
(* server's window and the longest delay for those the window lets in.     *)
(***************************************************************************)

\* The time the client has yet to make inputs of, and the most it can be.
Owed == inputAcc + ClampedDt
MostOwed == Step - 1 + MaxDt

InputsPaced ==
    \A i \in 1 .. Len(inFlight) :
        Step * (Len(inFlight) + 1 - i) + Owed <= inFlight[i] + MostOwed

WindowPaced ==
    windowAge < Window =>
        Step * (moves + Len(inFlight)) + Owed <= windowAge + MaxDelay + MostOwed

\* The oldest comes first.
SentInOrder ==
    \A i, j \in 1 .. Len(inFlight) : i <= j => inFlight[j] <= inFlight[i]

ClockInv ==
    /\ ClockTypeOK
    /\ ~dropped
    /\ SentInOrder
    /\ InputsPaced
    /\ WindowPaced
    /\ snapshotAge = snapshotAcc + tickAge

LEMMA Periods ==
    /\ Step \in Nat \ {0} /\ MaxDt \in Nat \ {0} /\ MaxFrame \in Nat \ {0}
    /\ Interval \in Nat \ {0} /\ MaxTick \in Nat \ {0}
    /\ Window \in Nat \ {0} /\ MaxMoves \in Nat \ {0} /\ MaxDelay \in Nat
  BY PeriodsAssumption

LEMMA TimesSum ==
    ASSUME NEW a \in Nat, NEW b \in Nat
    PROVE  /\ Step * (a + b) = Step * a + Step * b /\ Step * a \in Nat
           /\ Step * (a + 1) = Step * a + Step /\ Step * 0 = 0
           /\ a <= b => Step * a <= Step * b
  BY Periods

LEMMA OwedBounds ==
    ASSUME ClockTypeOK
    PROVE  /\ ClampedDt \in 0 .. MaxDt /\ Owed \in 0 .. MostOwed /\ MostOwed \in Nat
           /\ Len(inFlight) \in Nat /\ DOMAIN inFlight = 1 .. Len(inFlight)
           /\ \A i \in 1 .. Len(inFlight) : inFlight[i] \in 0 .. MaxDelay
           /\ windowAge \in 0 .. Window /\ moves \in 0 .. MaxMoves
  BY Periods DEF ClockTypeOK, ClampedDt, Least, Owed, MostOwed

\* An input too many would be one more than the window and the delay have room
\* for.
LEMMA InputFits ==
    ASSUME ClockInv, inFlight # <<>>, ~WindowOver
    PROVE  HasBudget(moves)
<1> DEFINE n == moves + Len(inFlight)
<1>1. /\ n \in Nat /\ moves \in 0 .. MaxMoves /\ windowAge \in Nat /\ windowAge < Window
      /\ Owed \in Nat /\ n >= moves + 1
  BY OwedBounds, Periods DEF ClockInv, ClockTypeOK, WindowOver
<1>2. Step * n + Owed <= windowAge + MaxDelay + MostOwed
  BY <1>1 DEF ClockInv, WindowPaced
<1> HIDE DEF n
<1> SUFFICES ASSUME moves = MaxMoves PROVE FALSE
  BY <1>1, Periods DEF HasBudget
<1>3. MaxMoves + 1 \in Nat /\ MaxMoves + 1 <= n /\ MaxMoves \in Nat
  BY <1>1, Periods
<1>4. /\ Step * (MaxMoves + 1) <= Step * n /\ Step * (MaxMoves + 1) = Step * MaxMoves + Step
      /\ Step * n \in Nat /\ Step * MaxMoves \in Nat
  BY <1>1, <1>3, TimesSum
<1> DEFINE spent == Step * n
           room == Step * MaxMoves
<1>5. Window + MaxDelay + MaxDt < room + 2
  BY StallAssumption
<1>6. room + Step <= spent /\ spent + Owed <= windowAge + MaxDelay + (Step - 1 + MaxDt)
      /\ room \in Nat /\ spent \in Nat
  BY <1>2, <1>4 DEF MostOwed
<1> HIDE DEF spent, room
<1> QED
  BY <1>1, <1>5, <1>6, Periods

-----------------------------------------------------------------------------
(* The steps of the clocks.                                                *)

LEMMA ClockInvInit == ClockInit => ClockInv
<1> SUFFICES ASSUME ClockInit PROVE ClockInv
  OBVIOUS
<1>1. ClockTypeOK
  <2>1. /\ 0 \in 0 .. MaxFrame /\ 0 \in 0 .. Step - 1 /\ Window \in 0 .. Window
        /\ 0 \in 0 .. MaxMoves /\ 0 \in 0 .. MaxTick /\ 0 \in 0 .. Interval - 1
    BY Periods
  <2>2. <<>> \in Seq(0 .. MaxDelay)
    OBVIOUS
  <2> QED
    BY <2>1, <2>2 DEF ClockInit, ClockTypeOK
<1>2. Len(inFlight) = 0
  BY DEF ClockInit
<1> QED
  BY <1>1, <1>2, Periods DEF ClockInit, ClockInv, SentInOrder, InputsPaced, WindowPaced

LEMMA ClockInvTime ==
    ASSUME ClockInv, TimePasses
    PROVE  ClockInv'
<1> DEFINE len == Len(inFlight)
<1>0. len \in Nat /\ inFlight \in [1 .. len -> 0 .. MaxDelay] /\ MaxDelay \in Nat
  BY Periods DEF ClockInv, ClockTypeOK
<1>1. /\ inFlight' = [i \in 1 .. len |-> inFlight[i] + 1]
      /\ len # 0 => inFlight[1] < MaxDelay
  BY DEF TimePasses, ClockInv, ClockTypeOK
<1>2. Owed' \in {Owed, Owed + 1} /\ Owed \in Nat /\ MostOwed' = MostOwed /\ MostOwed \in Nat
  BY OwedBounds, Periods
     DEF TimePasses, Owed, ClampedDt, Least, MostOwed, ClockInv, ClockTypeOK
<1>3. \A i \in 1 .. len : inFlight'[i] = inFlight[i] + 1 /\ inFlight'[i] \in 0 .. MaxDelay
  <2> SUFFICES ASSUME NEW i \in 1 .. len
               PROVE  inFlight[i] + 1 \in 0 .. MaxDelay
    BY <1>1
  <2>1. inFlight[i] <= inFlight[1] /\ inFlight[i] \in 0 .. MaxDelay /\ inFlight[1] \in 0 .. MaxDelay
    BY <1>0 DEF ClockInv, SentInOrder
  <2> QED
    BY <1>0, <1>1, <2>1
<1>4. inFlight' \in Seq(0 .. MaxDelay) /\ Len(inFlight') = len
  <2>1. inFlight' \in [1 .. len -> 0 .. MaxDelay]
    BY <1>1, <1>3
  <2> QED
    BY <1>0, <2>1
<1>5. SentInOrder'
  <2> SUFFICES ASSUME NEW i \in 1 .. len, NEW j \in 1 .. len, i <= j
               PROVE  inFlight'[j] <= inFlight'[i]
    BY <1>4 DEF SentInOrder
  <2>1. inFlight[j] <= inFlight[i] /\ inFlight[j] \in Nat /\ inFlight[i] \in Nat
    BY <1>0 DEF ClockInv, SentInOrder
  <2> QED
    BY <1>3, <2>1
<1>6. InputsPaced'
  <2> SUFFICES ASSUME NEW i \in 1 .. len
               PROVE  Step * (len + 1 - i) + Owed' <= inFlight'[i] + MostOwed
    BY <1>2, <1>4 DEF InputsPaced
  <2> DEFINE k == len + 1 - i
             spent == Step * k
  <2>1. spent + Owed <= inFlight[i] + MostOwed
    BY DEF ClockInv, InputsPaced
  <2>2. k \in Nat /\ inFlight[i] \in Nat
    BY <1>0
  <2> HIDE DEF k
  <2>3. spent \in Nat
    BY <2>2, TimesSum
  <2> HIDE DEF spent
  <2>4. spent + Owed' <= inFlight'[i] + MostOwed
    BY <1>2, <1>3, <2>1, <2>2, <2>3
  <2> QED
    BY <2>4 DEF spent, k
<1>7. WindowPaced'
  <2> DEFINE n == moves + len
             spent == Step * n
  <2>1. windowAge' < Window => windowAge' = windowAge + 1 /\ windowAge < Window
    BY OwedBounds, Periods DEF TimePasses, Least, ClockInv
  <2>2. windowAge < Window => spent + Owed <= windowAge + MaxDelay + MostOwed
    BY DEF ClockInv, WindowPaced
  <2>3. n \in Nat /\ windowAge \in Nat
    BY <1>0, OwedBounds, Periods DEF ClockInv
  <2> HIDE DEF n
  <2>4. spent \in Nat
    BY <2>3, TimesSum
  <2> HIDE DEF spent
  <2>5. windowAge' < Window => spent + Owed' <= windowAge' + MaxDelay + MostOwed
    <3> SUFFICES ASSUME windowAge' < Window
                 PROVE  spent + Owed' <= windowAge' + MaxDelay + MostOwed
      OBVIOUS
    <3>1. spent + Owed <= windowAge + MaxDelay + MostOwed
      BY <2>1, <2>2
    <3>2. windowAge' = windowAge + 1
      BY <2>1
    <3>3. Owed' = Owed \/ Owed' = Owed + 1
      BY <1>2
    <3>4. Owed \in Nat /\ MostOwed \in Nat /\ MaxDelay \in Nat
      BY <1>0, <1>2
    <3> QED
      BY <2>3, <2>4, <3>1, <3>2, <3>3, <3>4
  <2>6. moves' = moves
    BY DEF TimePasses
  <2> QED
    BY <1>2, <1>4, <2>5, <2>6 DEF WindowPaced, spent, n
<1>8. ClockTypeOK'
  BY <1>4, Periods DEF TimePasses, Least, ClockInv, ClockTypeOK
<1>9. ~dropped' /\ snapshotAge' = snapshotAcc' + tickAge'
  BY Periods DEF TimePasses, ClockInv, ClockTypeOK
<1> QED
  BY <1>5, <1>6, <1>7, <1>8, <1>9 DEF ClockInv

\* A frame makes inputs of what the client owes: what is owed and what was sent
\* stay the same sum.
LEMMA FrameSends ==
    ASSUME ClockInv, ClientFrame
    PROVE  \E k \in Nat :
             /\ Step * k + Owed' = Owed /\ Owed' \in Nat
             /\ inputAcc' \in 0 .. Step - 1
             /\ inFlight' \in Seq(0 .. MaxDelay)
             /\ Len(inFlight') = Len(inFlight) + k
             /\ \A i \in 1 .. Len(inFlight) : inFlight'[i] = inFlight[i]
             /\ \A i \in Len(inFlight) + 1 .. Len(inFlight) + k : inFlight'[i] = 0
<1> DEFINE acc == inputAcc + ClampedDt
           k == acc \div Step
           new == [i \in 1 .. k |-> 0]
<1>1. acc \in Nat /\ acc = Owed
  BY OwedBounds DEF ClockInv, Owed
<1>2. inFlight' = inFlight \o new /\ inputAcc' = acc % Step /\ frameAge' = 0
  BY DEF ClientFrame
<1> HIDE DEF acc
<1>3. k \in Nat /\ acc = Step * k + (acc % Step) /\ acc % Step \in 0 .. Step - 1
  BY <1>1, Periods
<1>4. Owed' = acc % Step
  BY <1>2, <1>3, Periods DEF Owed, ClampedDt, Least
<1> HIDE DEF k
<1>5. new \in Seq(0 .. MaxDelay) /\ Len(new) = k /\ \A i \in 1 .. k : new[i] = 0
  <2>1. new \in [1 .. k -> 0 .. MaxDelay]
    BY Periods
  <2> QED
    BY <1>3, <2>1
<1> HIDE DEF new
<1>6. inFlight \in Seq(0 .. MaxDelay)
  BY DEF ClockInv, ClockTypeOK
<1>7. /\ inFlight' \in Seq(0 .. MaxDelay) /\ Len(inFlight') = Len(inFlight) + k
      /\ \A i \in 1 .. Len(inFlight) : inFlight'[i] = inFlight[i]
      /\ \A i \in Len(inFlight) + 1 .. Len(inFlight) + k : inFlight'[i] = 0
  <2>1. inFlight' \in Seq(0 .. MaxDelay) /\ Len(inFlight') = Len(inFlight) + k
    BY <1>2, <1>5, <1>6
  <2>2. ASSUME NEW i \in 1 .. Len(inFlight) PROVE inFlight'[i] = inFlight[i]
    BY <1>2, <1>5, <1>6
  <2>3. ASSUME NEW i \in Len(inFlight) + 1 .. Len(inFlight) + k PROVE inFlight'[i] = 0
    <3>1. Len(inFlight) \in Nat /\ i - Len(inFlight) \in 1 .. k /\ i \notin 1 .. Len(inFlight)
      BY <1>3, <1>6
    <3>2. inFlight'[i] = new[i - Len(inFlight)]
      BY <1>2, <1>3, <1>5, <1>6, <3>1
    <3> QED
      BY <1>5, <3>1, <3>2
  <2> QED
    BY <2>1, <2>2, <2>3
<1> QED
  BY <1>1, <1>2, <1>3, <1>4, <1>7

LEMMA ClockInvFrame ==
    ASSUME ClockInv, ClientFrame
    PROVE  ClockInv'
<1> DEFINE len == Len(inFlight)
<1>1. PICK k \in Nat :
         /\ Step * k + Owed' = Owed /\ Owed' \in Nat
         /\ inputAcc' \in 0 .. Step - 1
         /\ inFlight' \in Seq(0 .. MaxDelay)
         /\ Len(inFlight') = len + k
         /\ \A i \in 1 .. len : inFlight'[i] = inFlight[i]
         /\ \A i \in len + 1 .. len + k : inFlight'[i] = 0
  BY FrameSends
<1>2. /\ len \in Nat /\ \A i \in 1 .. len : inFlight[i] \in Nat
      /\ MostOwed' = MostOwed /\ MostOwed \in Nat /\ Owed \in 0 .. MostOwed
      /\ windowAge' = windowAge /\ moves' = moves /\ moves \in Nat
  BY OwedBounds DEF ClientFrame, budgetVars, MostOwed, ClockInv
<1>3. SentInOrder'
  <2> SUFFICES ASSUME NEW i \in 1 .. len + k, NEW j \in 1 .. len + k, i <= j
               PROVE  inFlight'[j] <= inFlight'[i]
    BY <1>1 DEF SentInOrder
  <2>1. CASE j \in 1 .. len
    <3>1. i \in 1 .. len
      BY <1>2, <2>1
    <3>2. inFlight[j] <= inFlight[i]
      BY <2>1, <3>1 DEF ClockInv, SentInOrder
    <3> QED
      BY <1>1, <2>1, <3>1, <3>2
  <2>2. CASE j \in len + 1 .. len + k
    <3>1. inFlight'[j] = 0
      BY <1>1, <2>2
    <3>2. inFlight'[i] \in Nat
      <4>1. i \in 1 .. len \/ i \in len + 1 .. len + k
        BY <1>2
      <4> QED
        BY <1>1, <1>2, <4>1
    <3> QED
      BY <3>1, <3>2
  <2> QED
    BY <1>2, <2>1, <2>2
<1>4. InputsPaced'
  <2> SUFFICES ASSUME NEW i \in 1 .. len + k
               PROVE  Step * (len + k + 1 - i) + Owed' <= inFlight'[i] + MostOwed
    BY <1>1, <1>2 DEF InputsPaced
  <2>1. CASE i \in 1 .. len
    <3> DEFINE m == len + 1 - i
    <3>1. Step * m + Owed <= inFlight[i] + MostOwed
      BY <2>1 DEF ClockInv, InputsPaced
    <3>2. m \in Nat /\ len + k + 1 - i = m + k
      BY <1>2, <2>1
    <3> HIDE DEF m
    <3>3. Step * (m + k) = Step * m + Step * k /\ Step * m \in Nat /\ Step * k \in Nat
      BY <3>2, TimesSum
    <3>4. Step * (m + k) + Owed' = Step * m + Owed
      BY <1>1, <1>2, <3>3
    <3> QED
      BY <1>1, <2>1, <3>1, <3>2, <3>4
  <2>2. CASE i \in len + 1 .. len + k
    <3> DEFINE m == len + k + 1 - i
    <3>1. m \in Nat /\ m <= k /\ inFlight'[i] = 0
      BY <1>1, <1>2, <2>2
    <3> HIDE DEF m
    <3>2. Step * m <= Step * k /\ Step * m \in Nat /\ Step * k \in Nat
      BY <3>1, TimesSum
    <3>3. Step * m + Owed' <= MostOwed
      BY <1>1, <1>2, <3>2
    <3> QED
      BY <1>2, <3>1, <3>3 DEF m
  <2> QED
    BY <1>2, <2>1, <2>2
<1>5. WindowPaced'
  <2> DEFINE n == moves + len
  <2>1. n \in Nat /\ moves + (len + k) = n + k
    BY <1>2
  <2>2. windowAge < Window => Step * n + Owed <= windowAge + MaxDelay + MostOwed
    BY DEF ClockInv, WindowPaced
  <2> HIDE DEF n
  <2>3. Step * (n + k) = Step * n + Step * k /\ Step * n \in Nat /\ Step * k \in Nat
    BY <2>1, TimesSum
  <2>4. Step * (n + k) + Owed' = Step * n + Owed
    BY <1>1, <1>2, <2>3
  <2> QED
    BY <1>1, <1>2, <2>1, <2>2, <2>4 DEF WindowPaced
<1>6. ClockTypeOK'
  BY <1>1, Periods DEF ClientFrame, budgetVars, serverVars, ClockInv, ClockTypeOK
<1>7. ~dropped' /\ snapshotAge' = snapshotAcc' + tickAge'
  BY DEF ClientFrame, budgetVars, serverVars, ClockInv
<1> QED
  BY <1>3, <1>4, <1>5, <1>6, <1>7 DEF ClockInv

\* The oldest input is received; it fits the window it falls in.
LEMMA ClockInvReceive ==
    ASSUME ClockInv, ReceiveInput
    PROVE  ClockInv'
<1> DEFINE len == Len(inFlight)
           before == IF WindowOver THEN 0 ELSE moves
<1>1. /\ inFlight \in Seq(0 .. MaxDelay) /\ inFlight # <<>> /\ inFlight' = Tail(inFlight)
      /\ len \in Nat /\ len >= 1
  BY DEF ReceiveInput, ClockInv, ClockTypeOK
<1>2. /\ inFlight' \in Seq(0 .. MaxDelay) /\ Len(inFlight') = len - 1
      /\ \A i \in 1 .. len - 1 : inFlight'[i] = inFlight[i + 1] /\ i + 1 \in 1 .. len
  BY <1>1
<1>3. HasBudget(before)
  BY <1>1, InputFits, Periods DEF HasBudget
<1>4. /\ moves' = before + 1 /\ dropped' = dropped
      /\ windowAge' = IF WindowOver THEN 0 ELSE windowAge
      /\ UNCHANGED <<frameAge, inputAcc, tickAge, snapshotAcc, snapshotAge>>
  BY <1>3 DEF ReceiveInput, clientVars, serverVars
<1>5. Owed' = Owed /\ MostOwed' = MostOwed /\ Owed \in Nat /\ MostOwed \in Nat
  BY <1>4, OwedBounds DEF Owed, ClampedDt, Least, MostOwed, ClockInv
<1>6. SentInOrder'
  BY <1>1, <1>2 DEF ClockInv, SentInOrder
<1>7. InputsPaced'
  <2> SUFFICES ASSUME NEW i \in 1 .. len - 1
               PROVE  Step * (len - 1 + 1 - i) + Owed <= inFlight'[i] + MostOwed
    BY <1>2, <1>5 DEF InputsPaced
  <2>1. Step * (len + 1 - (i + 1)) + Owed <= inFlight[i + 1] + MostOwed
    BY <1>2 DEF ClockInv, InputsPaced
  <2>2. len + 1 - (i + 1) = len - 1 + 1 - i
    BY <1>1
  <2> QED
    BY <1>2, <2>1, <2>2
<1>8. WindowPaced'
  <2>1. moves' + Len(inFlight') = before + len
    BY <1>1, <1>2, <1>4, OwedBounds DEF ClockInv
  <2>2. CASE WindowOver
    <3>1. Step * (len + 1 - 1) + Owed <= inFlight[1] + MostOwed /\ inFlight[1] \in 0 .. MaxDelay
      BY <1>1, OwedBounds DEF ClockInv, InputsPaced
    <3>2. len + 1 - 1 = before + len
      BY <1>1, <2>2
    <3>3. Step * (before + len) \in Nat
      BY <1>1, <2>2, TimesSum
    <3> HIDE DEF before
    <3>4. Step * (before + len) + Owed <= 0 + MaxDelay + MostOwed
      BY <1>5, <3>1, <3>2, <3>3, Periods
    <3> QED
      BY <1>4, <1>5, <2>1, <2>2, <3>4 DEF WindowPaced
  <2>3. CASE ~WindowOver
    BY <1>4, <1>5, <2>1, <2>3 DEF ClockInv, WindowPaced
  <2> QED
    BY <2>2, <2>3
<1>9. ClockTypeOK'
  <2>1. moves' \in 0 .. MaxMoves
    BY <1>3, <1>4, OwedBounds, Periods DEF HasBudget, ClockInv
  <2>2. windowAge' \in 0 .. Window
    BY <1>4, OwedBounds, Periods DEF ClockInv
  <2> QED
    BY <1>2, <1>4, <2>1, <2>2 DEF ClockInv, ClockTypeOK
<1> QED
  BY <1>4, <1>6, <1>7, <1>8, <1>9 DEF ClockInv

\* A window that another packet opens has room for all that is under way.
LEMMA ClockInvOther ==
    ASSUME ClockInv, ReceiveOther
    PROVE  ClockInv'
<1>1. /\ windowAge' = 0 /\ moves' = 0
      /\ UNCHANGED <<dropped, frameAge, inputAcc, inFlight, tickAge, snapshotAcc, snapshotAge>>
  BY DEF ReceiveOther, clientVars, serverVars
<1>2. Owed' = Owed /\ MostOwed' = MostOwed /\ Owed \in 0 .. MostOwed /\ MostOwed \in Nat
  BY <1>1, OwedBounds DEF Owed, ClampedDt, Least, MostOwed, ClockInv
<1>3. Step * Len(inFlight) + Owed <= MaxDelay + MostOwed
  <2>1. CASE Len(inFlight) = 0
    BY <1>2, <2>1, TimesSum, Periods
  <2>2. CASE Len(inFlight) # 0
    <3>1. 1 \in 1 .. Len(inFlight) /\ Len(inFlight) + 1 - 1 = Len(inFlight)
      BY <2>2, OwedBounds DEF ClockInv
    <3>2. Step * Len(inFlight) + Owed <= inFlight[1] + MostOwed /\ inFlight[1] \in 0 .. MaxDelay
      BY <3>1, OwedBounds DEF ClockInv, InputsPaced
    <3>3. Step * Len(inFlight) \in Nat
      BY OwedBounds, TimesSum DEF ClockInv
    <3> DEFINE spent == Step * Len(inFlight)
    <3> HIDE DEF spent
    <3>4. spent + Owed <= MaxDelay + MostOwed
      BY <1>2, <3>2, <3>3, Periods DEF spent
    <3> QED
      BY <3>4 DEF spent
  <2> QED
    BY <2>1, <2>2
<1>4. WindowPaced'
  <2>1. 0 + Len(inFlight) = Len(inFlight) /\ 0 + MaxDelay = MaxDelay
    BY OwedBounds, Periods DEF ClockInv
  <2> QED
    BY <1>1, <1>2, <1>3, <2>1 DEF WindowPaced
<1>5. SentInOrder' /\ InputsPaced'
  BY <1>1, <1>2 DEF ClockInv, SentInOrder, InputsPaced
<1>6. ClockTypeOK'
  BY <1>1, Periods DEF ClockInv, ClockTypeOK
<1> QED
  BY <1>1, <1>4, <1>5, <1>6 DEF ClockInv

LEMMA ClockInvTick ==
    ASSUME ClockInv, Tick
    PROVE  ClockInv' /\ (snapshotAge' < snapshotAge => snapshotAge >= Interval)
<1>1. UNCHANGED <<frameAge, inputAcc, inFlight, windowAge, moves, dropped>>
  BY DEF Tick, clientVars, budgetVars
<1>2. InputsPaced' /\ WindowPaced' /\ SentInOrder' /\ ~dropped'
  BY <1>1 DEF ClockInv, InputsPaced, WindowPaced, SentInOrder, Owed, ClampedDt, Least, MostOwed
<1>3. /\ tickAge' = 0
      /\ \/ /\ snapshotAcc + tickAge >= Interval
            /\ snapshotAcc' = 0 /\ snapshotAge' = 0
         \/ /\ ~(snapshotAcc + tickAge >= Interval)
            /\ snapshotAcc' = snapshotAcc + tickAge /\ snapshotAge' = snapshotAge
  BY DEF Tick, ShouldSendSnapshot, AfterSnapshot
<1>4. snapshotAcc \in Nat /\ tickAge \in Nat /\ snapshotAge = snapshotAcc + tickAge
  BY Periods DEF ClockInv, ClockTypeOK
<1>5. snapshotAcc' \in 0 .. Interval - 1 /\ tickAge' \in 0 .. MaxTick /\ snapshotAge' \in Nat
      /\ snapshotAge' = snapshotAcc' + tickAge'
      /\ (snapshotAge' < snapshotAge => snapshotAge >= Interval)
  BY <1>3, <1>4, Periods
<1>6. ClockTypeOK'
  BY <1>1, <1>5 DEF ClockInv, ClockTypeOK
<1> QED
  BY <1>2, <1>5, <1>6 DEF ClockInv

LEMMA ClockInvNext ==
    ASSUME ClockInv, [ClockNext]_clockVars
    PROVE  ClockInv' /\ (snapshotAge' < snapshotAge => snapshotAge >= Interval)
<1>1. CASE TimePasses
  BY <1>1, ClockInvTime DEF TimePasses, ClockInv, ClockTypeOK
<1>2. CASE ClientFrame \/ ReceiveInput \/ ReceiveOther
  <2>1. ClockInv'
    BY <1>2, ClockInvFrame, ClockInvReceive, ClockInvOther
  <2>2. snapshotAge' = snapshotAge /\ snapshotAge \in Nat
    BY <1>2 DEF ClientFrame, ReceiveInput, ReceiveOther, serverVars, ClockInv, ClockTypeOK
  <2> QED
    BY <2>1, <2>2
<1>3. CASE Tick
  BY <1>3, ClockInvTick
<1>4. CASE UNCHANGED clockVars
  BY <1>4 DEF clockVars, clientVars, budgetVars, serverVars, ClockInv, ClockTypeOK, InputsPaced,
              WindowPaced, SentInOrder, Owed, ClampedDt, Least, MostOwed
<1> QED
  BY <1>1, <1>2, <1>3, <1>4 DEF ClockNext

\* In every reachable state the ages of the inputs under way and of the window
\* bound how many there are (GameApp.cpp:320-345, YunoServerNetwork.cpp:525-570).
THEOREM ClockInvAlways == ClockSpec => []ClockInv
<1>1. ClockInv /\ [ClockNext]_clockVars => ClockInv'
  BY ClockInvNext
<1> QED
  BY <1>1, ClockInvInit, PTL DEF ClockSpec

\* No input of a client that keeps its own pace is dropped, for every pace,
\* window and budget, as long as no stall exceeds what StallAssumption allows
\* (YunoServerNetwork.cpp:525-570).
THEOREM HonestInputsAlwaysPass == ClockSpec => []HonestInputsPass
<1>1. ClockInv => HonestInputsPass
  BY DEF ClockInv, HonestInputsPass
<1> QED
  BY <1>1, ClockInvAlways, PTL

\* Broadcasts are never closer than the interval nor further apart than the
\* interval and a round of the main loop (YunoServerNetwork.cpp:703-719).
THEOREM SnapshotsAlwaysPaced == ClockSpec => SnapshotsArePaced
<1>1. ClockInv => ClockTypeOK /\ SnapshotsComeInTime
  BY Periods DEF ClockInv, ClockTypeOK, SnapshotsComeInTime
<1>2. ClockInv /\ [ClockNext]_clockVars
        => [snapshotAge' < snapshotAge => snapshotAge >= Interval]_clockVars
  BY ClockInvNext
<1> QED
  BY <1>1, <1>2, ClockInvAlways, PTL DEF ClockSpec, SnapshotsArePaced, SnapshotsAreSpaced
=============================================================================
