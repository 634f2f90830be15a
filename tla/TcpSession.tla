----------------------------- MODULE TcpSession -----------------------------
(***************************************************************************)
(* One yuno::net::TcpSession: the asynchronous read chain, the write       *)
(* queue, the idle timer and the inbound budget of one TCP connection.     *)
(* Every handler of a session runs on its strand, so a handler is one      *)
(* atomic step.  The exception is m_onPacket, which the read chain calls   *)
(* in the middle of a handler and from which the owner may call Send and   *)
(* Close inline: the handler is split there (readOp.op = "callback").      *)
(*                                                                         *)
(* An asynchronous operation is "wait" (the kernel has it), "ok" or "err"  *)
(* (its handler is queued).  Closing the socket turns "wait" into "err"    *)
(* but cannot recall a handler that is already queued with a success.      *)
(*                                                                         *)
(* Time is kept as ages (idleFor = now - m_lastRecvTime and so on), which  *)
(* stop growing once no comparison of the code can tell them apart.        *)
(*                                                                         *)
(* Definitions marked "Variant" are not part of the specification: each is *)
(* the next definition with a plausible bug, and shows that the property   *)
(* it names can tell the two apart.                                        *)
(***************************************************************************)
EXTENDS Integers, Sequences

CONSTANTS
    HeaderSize,                  \* yunoTCPPacketHeaderSize
    MaxBodyLengthBytes,          \* kMaxBodyLengthBytes
    MaxWriteQueuePackets,        \* kMaxWriteQueuePackets
    MaxWriteQueueBytes,          \* kMaxWriteQueueBytes
    IdleTimeout,                 \* kIdleTimeout, in ticks
    InboundRateWindow,           \* kInboundRateWindow, in ticks
    MaxInboundPacketsPerWindow,  \* kMaxInboundPacketsPerWindow
    MaxInboundBytesPerWindow,    \* kMaxInboundBytesPerWindow
    BodyLengths,                 \* body lengths a peer may announce
    PacketSizes,                 \* sizes the owner passes to Send
    MaxAccepted                  \* bound: bytes accepted by Send in a behaviour

ASSUME SessionLimits ==
    /\ HeaderSize \in Nat \ {0}
    /\ MaxBodyLengthBytes \in Nat
    /\ MaxWriteQueuePackets \in Nat \ {0}
    /\ MaxWriteQueueBytes \in Nat
    /\ IdleTimeout \in Nat \ {0}
    /\ InboundRateWindow \in Nat \ {0}
    /\ MaxInboundPacketsPerWindow \in Nat \ {0}
    /\ MaxInboundBytesPerWindow \in Nat
    /\ BodyLengths \subseteq Nat
    /\ PacketSizes \subseteq Nat
    /\ MaxAccepted \in Nat

VARIABLES
    socket,                   \* "open" | "closed"
    disconnectedNotified,     \* m_disconnectedNotified
    readOp,                   \* the read chain: [op, st, len]
    writeQ,                   \* m_writeQ
    writeQueueBytes,          \* m_writeQueueBytes
    writing,                  \* m_writing
    writeOps,                 \* async_writes in flight: sequence of [pkt, st]
    timer,                    \* m_idleTimer and its wait handler
    timerLeft,                \* ticks until the timer expires
    idleFor,                  \* now - m_lastRecvTime
    windowAge,                \* now - m_inboundWindowStart
    inboundPacketsInWindow,   \* m_inboundPacketsInWindow
    inboundBytesInWindow,     \* m_inboundBytesInWindow
    accepted,                 \* history: bytes accepted by Send so far
    wire,                     \* history: packets the kernel took, in order
    notifications,            \* history: calls of m_onDisconnected
    ownerClosed,              \* history: Close has run
    lateDeliveries,           \* history: m_onPacket calls on a closed socket
    recent                    \* history: m_onPacket calls in the last k ticks, for each k

outVars == <<writeQ, writeQueueBytes, writing, writeOps, accepted, wire>>
timeVars == <<timerLeft, idleFor>>
budgetVars == <<windowAge, inboundPacketsInWindow, inboundBytesInWindow>>
connVars == <<socket, disconnectedNotified, notifications, ownerClosed>>
inVars == <<lateDeliveries, recent>>
vars == <<connVars, readOp, outVars, timer, timeVars, budgetVars, inVars>>

(***************************************************************************)
(* A packet handed to Send is the range of the outgoing byte stream it     *)
(* fills: bytes from + 1 to to.                                            *)
(***************************************************************************)
Packet == [from : 0 .. MaxAccepted, to : 0 .. MaxAccepted]
Size(pkt) == pkt.to - pkt.from

NoRead == [op |-> "none", st |-> "ok", len |-> 0]
InCallback == [op |-> "callback", st |-> "ok", len |-> 0]

\* The state a new asynchronous operation starts in: on a closed socket it
\* completes at once with bad_descriptor.
Begun == IF socket = "open" THEN "wait" ELSE "err"

ReadHeader == readOp' = [op |-> "header", st |-> Begun, len |-> 0]

\* What socket.close() does to an operation the kernel still holds.
Aborted(op) == [op EXCEPT !.st = IF @ = "wait" THEN "err" ELSE @]

\* Variant (AtMostOneLateDelivery): the socket is left open.
LeftOpen(read, ops, tm) ==
    /\ UNCHANGED socket
    /\ readOp' = read /\ writeOps' = ops /\ timer' = tm

CloseSocket(read, ops, tm) ==
    /\ socket' = "closed"
    /\ readOp' = Aborted(read)
    /\ writeOps' = [i \in DOMAIN ops |-> Aborted(ops[i])]
    /\ timer' = IF tm = "wait" THEN "aborted" ELSE tm

\* Variant (EndReportedOnce, CloseIsSilent): without the m_disconnectedNotified guard.
NotifyEveryTime(read, ops, tm) ==
    /\ disconnectedNotified' = TRUE
    /\ notifications' = notifications + 1
    /\ CloseSocket(read, ops, tm)
    /\ UNCHANGED ownerClosed

(***************************************************************************)
(* NotifyDisconnected, called by a handler that leaves the read chain at   *)
(* read, the writes in flight at ops and the timer at tm.                  *)
(***************************************************************************)
NotifyDisconnected(read, ops, tm) ==
    \/ /\ disconnectedNotified
       /\ readOp' = read /\ writeOps' = ops /\ timer' = tm
       /\ UNCHANGED connVars
    \/ /\ ~disconnectedNotified
       /\ disconnectedNotified' = TRUE
       /\ notifications' = notifications + 1
       /\ CloseSocket(read, ops, tm)
       /\ UNCHANGED ownerClosed

-----------------------------------------------------------------------------
(* The inbound budget: a fixed window that a consuming call restarts.      *)

WindowOver == windowAge >= InboundRateWindow
PacketsSoFar == IF WindowOver THEN 0 ELSE inboundPacketsInWindow
BytesSoFar == IF WindowOver THEN 0 ELSE inboundBytesInWindow

\* Variant (DeliveryRateBounded): the packet itself is not counted.
HasBudgetBefore(bytes) ==
    /\ PacketsSoFar <= MaxInboundPacketsPerWindow
    /\ BytesSoFar + bytes <= MaxInboundBytesPerWindow

HasInboundBudget(bytes) ==
    /\ PacketsSoFar + 1 <= MaxInboundPacketsPerWindow
    /\ BytesSoFar + bytes <= MaxInboundBytesPerWindow

TryConsumeInboundBudget(bytes) ==
    /\ windowAge' = IF WindowOver THEN 0 ELSE windowAge
    /\ inboundPacketsInWindow' =
           PacketsSoFar + (IF HasInboundBudget(bytes) THEN 1 ELSE 0)
    /\ inboundBytesInWindow' =
           BytesSoFar + (IF HasInboundBudget(bytes) THEN bytes ELSE 0)

\* A complete packet of this many bytes: handed to m_onPacket, or dropped
\* without a word when the budget is used up, and then the next header.
TakePacket(bytes) ==
    /\ TryConsumeInboundBudget(bytes)
    /\ \/ /\ HasInboundBudget(bytes)
          /\ readOp' = InCallback
          /\ recent' = [k \in DOMAIN recent |-> recent[k] + 1]
          /\ lateDeliveries' = IF disconnectedNotified THEN lateDeliveries + 1
                                                       ELSE lateDeliveries
       \/ /\ ~HasInboundBudget(bytes)
          /\ ReadHeader
          /\ UNCHANGED inVars

-----------------------------------------------------------------------------
Init ==
    /\ socket = "open" /\ disconnectedNotified = FALSE
    /\ readOp = NoRead
    /\ writeQ = <<>> /\ writeQueueBytes = 0
    /\ writing = FALSE /\ writeOps = <<>>
    /\ timer = "new" /\ timerLeft = 0
    /\ idleFor = 0 /\ windowAge = 0
    /\ inboundPacketsInWindow = 0 /\ inboundBytesInWindow = 0
    /\ accepted = 0 /\ wire = <<>>
    /\ notifications = 0 /\ ownerClosed = FALSE
    /\ lateDeliveries = 0
    /\ recent = [k \in 1 .. InboundRateWindow |-> 0]

Started == timer # "new"
StrandFree == Started /\ readOp.op # "callback"

ArmIdleTimer == timer' = "wait" /\ timerLeft' = IdleTimeout

Start ==
    /\ ~Started
    /\ idleFor' = 0
    /\ ArmIdleTimer
    /\ ReadHeader
    /\ UNCHANGED <<connVars, outVars, budgetVars, inVars>>

\* Variant (QueueAccounted): the queue is cleared, the byte count is not.
ClearQueueOnly == writeQ' = <<>> /\ UNCHANGED writeQueueBytes

ClearWriteQueue == writeQ' = <<>> /\ writeQueueBytes' = 0

Close ==
    /\ Started
    /\ disconnectedNotified' = TRUE /\ ownerClosed' = TRUE
    /\ ClearWriteQueue
    /\ CloseSocket(readOp, writeOps, timer)
    /\ UNCHANGED <<notifications, writing, accepted, wire,
                   timeVars, budgetVars, inVars>>

-----------------------------------------------------------------------------
(* Sending.                                                                *)

CheckWriteQueueBudget(nextPacketBytes) ==
    /\ Len(writeQ) < MaxWriteQueuePackets
    /\ writeQueueBytes + nextPacketBytes <= MaxWriteQueueBytes

\* Variant (AcceptedIsSent): m_writing is not cleared when
\* the queue has run empty.
DoWriteKeepsWriting(q, ops) ==
    \/ /\ q = <<>>
       /\ writing' = writing
       /\ writeOps' = ops
    \/ /\ q # <<>>
       /\ writing' = TRUE
       /\ writeOps' = Append(ops, [pkt |-> Head(q), st |-> Begun])

\* DoWrite on queue q when the writes ops are in flight.
DoWrite(q, ops) ==
    \/ /\ q = <<>>
       /\ writing' = FALSE
       /\ writeOps' = ops
    \/ /\ q # <<>>
       /\ writing' = TRUE
       /\ writeOps' = Append(ops, [pkt |-> Head(q), st |-> Begun])

\* Variant (WritesMatchQueue): only the empty queue is looked at.
EnqueueIgnoresWriting(pkt) ==
    /\ accepted' = pkt.to
    /\ writeQueueBytes' = writeQueueBytes + Size(pkt)
    /\ writeQ' = Append(writeQ, pkt)
    /\ IF writeQ = <<>>
       THEN DoWrite(writeQ', writeOps)
       ELSE UNCHANGED <<writing, writeOps>>
    /\ UNCHANGED <<connVars, readOp, timer, wire>>

Enqueue(pkt) ==
    /\ accepted' = pkt.to
    /\ writeQueueBytes' = writeQueueBytes + Size(pkt)
    /\ writeQ' = Append(writeQ, pkt)
    /\ IF writeQ = <<>> /\ ~writing
       THEN DoWrite(writeQ', writeOps)
       ELSE UNCHANGED <<writing, writeOps>>
    /\ UNCHANGED <<connVars, readOp, timer, wire>>

Send(bytes) ==
    /\ Started
    /\ bytes >= HeaderSize
    /\ \/ /\ CheckWriteQueueBudget(bytes)
          /\ accepted + bytes <= MaxAccepted
          /\ Enqueue([from |-> accepted, to |-> accepted + bytes])
       \/ /\ ~CheckWriteQueueBudget(bytes)
          /\ NotifyDisconnected(readOp, writeOps, timer)
          /\ UNCHANGED <<writeQ, writeQueueBytes, writing, accepted, wire>>
    /\ UNCHANGED <<timeVars, budgetVars, inVars>>

\* Variant (PipeSpec): the packet just written stays in the queue.
PopNothing == UNCHANGED <<writeQ, writeQueueBytes>>

\* The front of the queue leaves it, which after Close need not be the
\* packet that was written.
PopFront ==
    IF writeQ = <<>>
    THEN UNCHANGED <<writeQ, writeQueueBytes>>
    ELSE /\ writeQueueBytes' = writeQueueBytes - Size(Head(writeQ))
         /\ writeQ' = Tail(writeQ)

WriteHandler ==
    /\ StrandFree
    /\ writeOps # <<>> /\ Head(writeOps).st # "wait"
    /\ \/ /\ Head(writeOps).st = "err"
          /\ NotifyDisconnected(readOp, Tail(writeOps), timer)
          /\ UNCHANGED <<writeQ, writeQueueBytes, writing>>
       \/ /\ Head(writeOps).st = "ok"
          /\ PopFront
          /\ DoWrite(writeQ', Tail(writeOps))
          /\ UNCHANGED <<connVars, readOp, timer>>
    /\ UNCHANGED <<accepted, wire, timeVars, budgetVars, inVars>>

-----------------------------------------------------------------------------
(* Receiving.                                                              *)

ReadHeaderHandler ==
    /\ StrandFree
    /\ readOp.op = "header" /\ readOp.st # "wait"
    /\ \/ /\ readOp.st = "err" \/ readOp.len > MaxBodyLengthBytes
          /\ NotifyDisconnected(NoRead, writeOps, timer)
          /\ UNCHANGED <<idleFor, budgetVars, inVars>>
       \/ /\ readOp.st = "ok" /\ readOp.len <= MaxBodyLengthBytes
          /\ idleFor' = 0
          /\ \/ /\ readOp.len = 0
                /\ TakePacket(HeaderSize)
             \/ /\ readOp.len # 0
                /\ readOp' = [readOp EXCEPT !.op = "body", !.st = Begun]
                /\ UNCHANGED <<budgetVars, inVars>>
          /\ UNCHANGED <<connVars, writeOps, timer>>
    /\ UNCHANGED <<writeQ, writeQueueBytes, writing, accepted, wire, timerLeft>>

ReadBodyHandler ==
    /\ StrandFree
    /\ readOp.op = "body" /\ readOp.st # "wait"
    /\ \/ /\ readOp.st = "err"
          /\ NotifyDisconnected(NoRead, writeOps, timer)
          /\ UNCHANGED <<budgetVars, inVars>>
       \/ /\ readOp.st = "ok"
          /\ TakePacket(HeaderSize + readOp.len)
          /\ UNCHANGED <<connVars, writeOps, timer>>
    /\ UNCHANGED <<writeQ, writeQueueBytes, writing, accepted, wire, timeVars>>

\* m_onPacket returns: the rest of the handler that called it.
CallbackReturns ==
    /\ readOp.op = "callback"
    /\ idleFor' = 0
    /\ ReadHeader
    /\ UNCHANGED <<connVars, outVars, timer, timerLeft, budgetVars, inVars>>

-----------------------------------------------------------------------------
(* The idle timer's wait handler: expired, or cancelled by cancel().       *)

\* Variant (IdleBelowTwiceTimeout): > for >=.
IdleLonger == idleFor > IdleTimeout

IdleTooLong == idleFor >= IdleTimeout

TimerHandler ==
    /\ StrandFree
    /\ timer \in {"expired", "aborted"}
    /\ \/ /\ timer = "aborted" \/ disconnectedNotified
          /\ timer' = "idle"
          /\ UNCHANGED <<connVars, readOp, writeOps, timerLeft>>
       \/ /\ timer = "expired" /\ ~disconnectedNotified /\ IdleTooLong
          /\ NotifyDisconnected(readOp, writeOps, "idle")
          /\ UNCHANGED timerLeft
       \/ /\ timer = "expired" /\ ~disconnectedNotified /\ ~IdleTooLong
          /\ ArmIdleTimer
          /\ UNCHANGED <<connVars, readOp, writeOps>>
    /\ UNCHANGED <<writeQ, writeQueueBytes, writing, accepted, wire,
                   idleFor, budgetVars, inVars>>

-----------------------------------------------------------------------------
(* The environment: kernel, network, peer and clock.                       *)

PeerSends ==
    /\ readOp.op \in {"header", "body"} /\ readOp.st = "wait"
    /\ \E len \in IF readOp.op = "header" THEN BodyLengths ELSE {readOp.len} :
           readOp' = [readOp EXCEPT !.st = "ok", !.len = len]
    /\ UNCHANGED <<connVars, outVars, timer, timeVars, budgetVars, inVars>>

ReadFails ==
    /\ readOp.op \in {"header", "body"} /\ readOp.st = "wait"
    /\ readOp' = [readOp EXCEPT !.st = "err"]
    /\ UNCHANGED <<connVars, outVars, timer, timeVars, budgetVars, inVars>>

WriteCompletes ==
    /\ writeOps # <<>> /\ Head(writeOps).st = "wait"
    /\ writeOps' = [writeOps EXCEPT ![1].st = "ok"]
    /\ wire' = Append(wire, Head(writeOps).pkt)
    /\ UNCHANGED <<connVars, readOp, writeQ, writeQueueBytes, writing,
                   accepted, timer, timeVars, budgetVars, inVars>>

WriteFails ==
    /\ writeOps # <<>> /\ Head(writeOps).st = "wait"
    /\ writeOps' = [writeOps EXCEPT ![1].st = "err"]
    /\ UNCHANGED <<connVars, readOp, writeQ, writeQueueBytes, writing,
                   accepted, wire, timer, timeVars, budgetVars, inVars>>

TimerExpires ==
    /\ timer = "wait" /\ timerLeft = 0
    /\ timer' = "expired"
    /\ UNCHANGED <<connVars, readOp, outVars, timeVars, budgetVars, inVars>>

\* Ages stop one past the largest value any comparison needs.
Older(age, cap) == IF age < cap THEN age + 1 ELSE age

\* A tick is long against a poll of the io_context, so the clock does not
\* pass a due timer or its queued handler.
Tick ==
    /\ StrandFree
    /\ timer # "expired"
    /\ timer = "wait" => timerLeft > 0
    /\ timerLeft' = IF timer = "wait" THEN timerLeft - 1 ELSE timerLeft
    /\ idleFor' = Older(idleFor, 2 * IdleTimeout)
    /\ windowAge' = Older(windowAge, InboundRateWindow)
    /\ recent' = [k \in 1 .. InboundRateWindow |->
                     IF k = 1 THEN 0 ELSE recent[k - 1]]
    /\ UNCHANGED <<connVars, readOp, outVars, timer, inboundPacketsInWindow,
                   inboundBytesInWindow, lateDeliveries>>

Owner == Start \/ Close \/ \E bytes \in PacketSizes : Send(bytes)
Handler == ReadHeaderHandler \/ ReadBodyHandler \/ CallbackReturns
               \/ WriteHandler \/ TimerHandler
Environment == PeerSends \/ ReadFails \/ WriteCompletes \/ WriteFails
                   \/ TimerExpires \/ Tick

Next == Owner \/ Handler \/ Environment

Spec == Init /\ [][Next]_vars

(***************************************************************************)
(* Fairness.  The io_context keeps running queued handlers and time keeps  *)
(* passing; a started write is eventually taken by the kernel or fails.    *)
(* Nothing is assumed of the owner, of the peer, or of reads.              *)
(***************************************************************************)
Fairness ==
    /\ WF_vars(Start)
    /\ WF_vars(ReadHeaderHandler) /\ WF_vars(ReadBodyHandler)
    /\ WF_vars(CallbackReturns)
    /\ SF_vars(WriteHandler) /\ SF_vars(TimerHandler)
    /\ WF_vars(WriteCompletes \/ WriteFails)
    /\ WF_vars(TimerExpires) /\ SF_vars(Tick)

FairSpec == Spec /\ Fairness

-----------------------------------------------------------------------------
(* Properties.                                                             *)

\* Every variable keeps the values its C++ counterpart can take; in
\* particular the unsigned m_writeQueueBytes never wraps below zero.
TypeOK ==
    /\ socket \in {"open", "closed"}
    /\ disconnectedNotified \in BOOLEAN
    /\ readOp \in [op : {"none", "header", "body", "callback"},
                   st : {"wait", "ok", "err"}, len : Nat]
    /\ writeQ \in Seq(Packet) /\ writeQueueBytes \in Nat
    /\ writing \in BOOLEAN
    /\ writeOps \in Seq([pkt : Packet, st : {"wait", "ok", "err"}])
    /\ timer \in {"new", "wait", "expired", "aborted", "idle"}
    /\ timerLeft \in 0 .. IdleTimeout
    /\ idleFor \in 0 .. 2 * IdleTimeout
    /\ windowAge \in 0 .. InboundRateWindow
    /\ inboundPacketsInWindow \in 0 .. MaxInboundPacketsPerWindow
    /\ inboundBytesInWindow \in 0 .. MaxInboundBytesPerWindow
    /\ accepted \in Nat /\ wire \in Seq(Packet)
    /\ notifications \in Nat /\ ownerClosed \in BOOLEAN
    /\ lateDeliveries \in Nat
    /\ recent \in [1 .. InboundRateWindow -> Nat]

\* Packets that follow each other in the accepted stream without a gap.
Contiguous(q) == \A i \in 1 .. Len(q) - 1 : q[i].to = q[i + 1].from

\* The count of the queue's bytes is exactly what the queue holds, a gapless
\* run of accepted packets, ...
QueueBytesExact ==
    /\ Contiguous(writeQ)
    /\ writeQueueBytes = IF writeQ = <<>> THEN 0
                         ELSE writeQ[Len(writeQ)].to - writeQ[1].from

\* ... and stays within the limits.
QueueWithinLimits ==
    /\ Len(writeQ) <= MaxWriteQueuePackets
    /\ writeQueueBytes <= MaxWriteQueueBytes

\* The documented limits hold for what is really queued: no path (a success
\* after Close emptied the queue, a Send on a dead socket, an overflow) makes
\* the count go astray (TcpSession.cpp:34, :63, :190, :242-250).
QueueAccounted == TypeOK /\ QueueBytesExact /\ QueueWithinLimits

\* Two async_writes never overlap on the socket ...
OneWriteInFlight == Len(writeOps) <= 1

\* ... and while it is open a queued packet always has a write in flight,
\* which is of the queue's front.
NoStalledQueue ==
    socket = "open" /\ writeQ # <<>> =>
        writeOps # <<>> /\ Head(writeOps).pkt = Head(writeQ)

\* Each write is started by the Send or by the handler before it: none is
\* lost, none is started twice, not even when Close empties the queue under
\* a write and Send refills it (TcpSession.cpp:66-70, :188-195).
WritesMatchQueue == OneWriteInFlight /\ NoStalledQueue

\* m_onDisconnected reports the end of a connection exactly once, unless the
\* owner ended it with Close; an open connection is never reported.
EndReportedOnce ==
    /\ notifications <= 1
    /\ socket = "open" => notifications = 0 /\ ~disconnectedNotified
    /\ socket = "closed" => notifications = 1 \/ ownerClosed

\* After Close has run the session never calls m_onDisconnected, whatever
\* error, timeout or overflow is still on its way.
CloseIsSilent == [][ownerClosed => notifications' = notifications]_vars

\* A read handler that was queued when the socket was closed still delivers
\* its packet (the handlers do not look at m_disconnectedNotified), but
\* never more than that one.
AtMostOneLateDelivery == lateDeliveries <= 1

\* An idle connection is dropped before twice the timeout has passed.
IdleBelowTwiceTimeout ==
    Started /\ socket = "open" => idleFor < 2 * IdleTimeout

\* Over any stretch of one window length the owner gets at most twice the
\* packets of the budget (the window is fixed, not sliding).
DeliveryRateBounded ==
    recent[InboundRateWindow] <= 2 * MaxInboundPacketsPerWindow

\* Every byte Send accepted reaches the wire or the connection ends.
AcceptedIsSent ==
    \A n \in 1 .. MaxAccepted :
        accepted >= n ~> \/ wire # <<>> /\ wire[Len(wire)].to >= n
                        \/ socket = "closed"

-----------------------------------------------------------------------------
(* What ties the variables together: the inductive strengthening of the    *)
(* queue invariants.                                                       *)

\* m_writing is set whenever a write is in flight; while the socket is open
\* it says exactly that, and exactly that the queue holds the packet written.
WritingIsWriteInFlight ==
    /\ writeOps # <<>> => writing
    /\ socket = "open" => /\ writing <=> writeOps # <<>>
                          /\ writing <=> writeQ # <<>>
                          /\ writing => Head(writeOps).pkt = Head(writeQ)

\* The socket is closed exactly when the end has been noted.
ClosedIsNoted ==
    /\ (socket = "closed") <=> disconnectedNotified
    /\ ownerClosed => disconnectedNotified

\* The kernel holds no write of a closed session.
ClosedWritesEnded ==
    socket = "closed" => \A i \in 1 .. Len(writeOps) : writeOps[i].st # "wait"

-----------------------------------------------------------------------------
(* The promise to the sender: PacketPipe.  What is pending is what the     *)
(* queue holds but for a front packet whose successful write has not been  *)
(* handled yet.                                                            *)

Untransmitted ==
    IF writeOps # <<>> /\ Head(writeOps).st = "ok" THEN Tail(writeQ) ELSE writeQ

Pipe == INSTANCE PacketPipe WITH
            Content <- Packet,
            Capacity <- MaxWriteQueuePackets,
            up <- socket = "open",
            pending <- IF socket = "open" THEN Untransmitted ELSE <<>>,
            wire <- wire

\* The session implements the pipe: FIFO, no loss while up, no duplicate,
\* nothing transmitted after the end.
PipeSpec == Pipe!PipeInit /\ [][Pipe!PipeNext]_Pipe!pipeVars
=============================================================================
