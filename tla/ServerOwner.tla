---------------------------- MODULE ServerOwner -----------------------------
(***************************************************************************)
(* TcpServer under any owner: a packet makes it send to any sessions it    *)
(* knows, or disconnect the sender; Update sends to any sessions in the    *)
(* map.  Messages are numbered in the order they are sent in, and carried  *)
(* records the order they reach the write queue of each session in.        *)
(***************************************************************************)
EXTENDS TcpServer

CONSTANT LastMessage     \* bound: messages sent in a behaviour

ASSUME MessageBound == LastMessage \in Nat

VARIABLES
    issued,      \* messages sent so far
    carried      \* per session, the messages its write queue has taken

vars == <<serverVars, sessionVars, issued, carried>>

\* A message: its number and the session in whose handler it was sent, or 0.
Message == {<<"message", n, by>> : n \in 1 .. LastMessage, by \in 0 .. LastSid}

TypeOK ==
    /\ ServerTypeOK
    /\ strandQ \in [Sid -> Seq(Message \cup {<<Handler>>})]
    /\ issued \in 0 .. LastMessage
    /\ carried \in [Sid -> Seq(Message)]

Init ==
    /\ ServerInit
    /\ issued = 0
    /\ carried = [sid \in Sid |-> <<>>]

\* The write queues take what was sent at once and did not end the session.
Take(batch, now) ==
    carried' = [sid \in Sid |-> IF sid \notin Waiting(Sid, now) /\ link'[sid] = "up"
                                THEN carried[sid] \o batch[sid] ELSE carried[sid]]

SendMessage(targets, polled, own, q, late) ==
    LET message == <<"message", issued + 1, own>>
        batch == [sid \in Sid |-> IF sid \in targets THEN <<message>> ELSE <<>>]
        now == RunsAtOnce(polled, own, q)
    IN  /\ issued < LastMessage
        /\ issued' = issued + 1
        /\ SendAll(batch, now, own, q, late)
        /\ Take(batch, now)
        /\ UNCHANGED <<running, acceptOp, nextSessionId>>

\* m_onPacket: the owner has the session of the packet at hand, and can find
\* the others in the map.
OnPacketSends(sid) ==
    /\ HandlerTurn(sid)
    /\ \E targets \in SUBSET (sessions \cup {sid}) \ {{}} :
          SendMessage(targets, TRUE, sid, StrandsAfter(sid), LateAfter(sid))

OnPacketDisconnects(sid) ==
    /\ HandlerTurn(sid)
    /\ DisconnectSession(sid)
    /\ strandQ' = StrandsAfter(sid)
    /\ lateReads' = LateAfter(sid)
    /\ UNCHANGED <<running, acceptOp, nextSessionId, issued, carried>>

Update ==
    /\ running /\ PollIsDry
    /\ \E targets \in SUBSET sessions \ {{}} :
          SendMessage(targets, FALSE, 0, strandQ, lateReads)

Deferred(sid) ==
    /\ RunStrand(sid)
    /\ Take([s \in Sid |-> IF s = sid THEN <<Head(strandQ[sid])>> ELSE <<>>], {sid})
    /\ UNCHANGED issued

Stop == PollIsDry /\ StopServer

Next ==
    \/ /\ StartServer \/ Connect \/ (running /\ AcceptHandler) \/ Stop
       /\ UNCHANGED <<issued, carried>>
    \/ Update
    \/ \E sid \in Sid :
         \/ OnPacketSends(sid)
         \/ OnPacketDisconnects(sid)
         \/ Deferred(sid)
         \/ /\ HandlerWaits(sid) \/ LinkFails(sid) \/ QuietTurn(sid)
            /\ UNCHANGED <<issued, carried>>

Spec == Init /\ [][Next]_vars

-----------------------------------------------------------------------------
(* Properties.                                                             *)

\* Strands keep the messages to a session in the order they were sent in, with
\* one exception: a reply sent from a handler of the session itself does not
\* wait, and passes what others left on the strand behind that handler
\* (TcpSession.cpp:50).
OnlyOwnRepliesOvertake ==
    \A sid \in Sid : \A i, j \in DOMAIN carried[sid] :
        (i < j /\ carried[sid][i][2] > carried[sid][j][2]) => carried[sid][i][3] = sid
=============================================================================
