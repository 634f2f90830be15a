-------------------------- MODULE TcpSessionProofs --------------------------
(***************************************************************************)
(* Proofs about TcpSession, for every value of its constants.              *)
(***************************************************************************)
EXTENDS TcpSession, SequenceTheorems, TLAPS

WriteOp == [pkt : Packet, st : {"wait", "ok", "err"}]

-----------------------------------------------------------------------------
(* Lemmas about the queue and the operations in flight.                    *)

LEMMA AtLeastOne == \A n \in Nat \ {0} : (n <= 1 => n = 1) /\ (n = 1 \/ 1 < n)
  OBVIOUS

\* Bytes held by a queue of packets that follow each other.
HeldBytes(q) == IF q = <<>> THEN 0 ELSE q[Len(q)].to - q[1].from

\* A queue whose packets are not empty and follow each other.  The third
\* conjunct follows from the others, but only by induction.
GoodQueue(q) ==
    /\ Contiguous(q)
    /\ \A i \in 1 .. Len(q) : q[i].from < q[i].to
    /\ \A i, j \in 1 .. Len(q) : i < j => q[i].to <= q[j].from

LEMMA AbortedOps ==
    ASSUME NEW ops \in Seq(WriteOp)
    PROVE  LET done == [i \in DOMAIN ops |-> Aborted(ops[i])]
           IN  /\ done \in Seq(WriteOp)
               /\ Len(done) = Len(ops)
               /\ \A i \in 1 .. Len(ops) : /\ done[i].pkt = ops[i].pkt
                                             /\ done[i].st # "wait"
<1> DEFINE done == [i \in DOMAIN ops |-> Aborted(ops[i])]
<1>1. \A i \in 1 .. Len(ops) : /\ Aborted(ops[i]) \in WriteOp
                               /\ Aborted(ops[i]).pkt = ops[i].pkt
                               /\ Aborted(ops[i]).st # "wait"
  <2> TAKE i \in 1 .. Len(ops)
  <2>1. ops[i] \in WriteOp
    OBVIOUS
  <2> QED
    BY <2>1 DEF Aborted, WriteOp
<1>2. done \in [1 .. Len(ops) -> WriteOp]
  BY <1>1
<1>3. done \in Seq(WriteOp) /\ Len(done) = Len(ops)
  BY <1>2
<1> QED
  BY <1>1, <1>3

LEMMA PacketRange ==
    ASSUME NEW pkt \in Packet
    PROVE  pkt.from \in Nat /\ pkt.to \in Nat /\ Size(pkt) = pkt.to - pkt.from
  BY SessionLimits DEF Packet, Size

LEMMA EmptyQueue == GoodQueue(<<>>) /\ HeldBytes(<<>>) = 0
  BY DEF GoodQueue, Contiguous, HeldBytes

LEMMA AppendQueue ==
    ASSUME NEW q \in Seq(Packet), GoodQueue(q),
           NEW pkt \in Packet, pkt.from < pkt.to,
           q # <<>> => q[Len(q)].to = pkt.from
    PROVE  /\ Append(q, pkt) \in Seq(Packet)
           /\ GoodQueue(Append(q, pkt))
           /\ HeldBytes(Append(q, pkt)) = HeldBytes(q) + Size(pkt)
<1> DEFINE r == Append(q, pkt)
<1>1. /\ r \in Seq(Packet)
      /\ Len(r) = Len(q) + 1
      /\ \A i \in 1 .. Len(q) : r[i] = q[i]
      /\ r[Len(r)] = pkt
      /\ r # <<>>
  BY AppendProperties, EmptySeq
<1> HIDE DEF r
<1>2. Contiguous(r)
  BY <1>1 DEF GoodQueue, Contiguous
<1>3. \A i \in 1 .. Len(r) : r[i].from < r[i].to
  BY <1>1 DEF GoodQueue
<1>4. HeldBytes(r) = HeldBytes(q) + Size(pkt)
  <2>1. CASE q = <<>>
    <3>1. Len(r) = 1 /\ r[1] = pkt
      BY <1>1, <2>1
    <3> QED
      BY <1>1, <2>1, <3>1 DEF HeldBytes, Size, Packet
  <2>2. CASE q # <<>>
    <3>1. q[Len(q)] \in Packet /\ q[1] \in Packet /\ r[1] = q[1]
      BY <1>1, <2>2
    <3>2. r[Len(r)] = pkt /\ q[Len(q)].to = pkt.from
      BY <1>1, <2>2
    <3>3. /\ HeldBytes(r) = pkt.to - q[1].from
          /\ HeldBytes(q) = pkt.from - q[1].from
      BY <1>1, <2>2, <3>1, <3>2 DEF HeldBytes
    <3> QED
      BY <3>1, <3>3, PacketRange
  <2> QED
    BY <2>1, <2>2
<1>5. ASSUME NEW i \in 1 .. Len(r), NEW j \in 1 .. Len(r), i < j
      PROVE  r[i].to <= r[j].from
  <2>1. i \in 1 .. Len(q) /\ r[i] = q[i] /\ q[i] \in Packet
    BY <1>1, <1>5
  <2>2. CASE j \in 1 .. Len(q)
    BY <1>1, <1>5, <2>1, <2>2 DEF GoodQueue
  <2>3. CASE j = Len(q) + 1
    <3>1. r[j] = pkt /\ q[Len(q)].to = pkt.from /\ q[Len(q)] \in Packet
      BY <1>1, <2>1, <2>3
    <3>2. CASE i = Len(q)
      BY <2>1, <3>1, <3>2, PacketRange
    <3>3. CASE i < Len(q)
      <4>1. q[i].to <= q[Len(q)].from /\ q[Len(q)].from < q[Len(q)].to
        BY <2>1, <3>3 DEF GoodQueue
      <4> QED
        BY <2>1, <3>1, <4>1, PacketRange
    <3> QED
      BY <2>1, <3>2, <3>3
  <2> QED
    BY <1>1, <2>2, <2>3
<1>6. GoodQueue(r)
  BY <1>2, <1>3, <1>5 DEF GoodQueue
<1> QED
  BY <1>1, <1>4, <1>6 DEF r

LEMMA TailQueue ==
    ASSUME NEW q \in Seq(Packet), GoodQueue(q), q # <<>>
    PROVE  /\ Tail(q) \in Seq(Packet)
           /\ GoodQueue(Tail(q))
           /\ Tail(q) # <<>> => /\ Tail(q)[1].from = Head(q).to
                                /\ Tail(q)[Len(Tail(q))] = q[Len(q)]
           /\ HeldBytes(Tail(q)) = HeldBytes(q) - Size(Head(q))
<1> DEFINE r == Tail(q)
<1>1. /\ r \in Seq(Packet)
      /\ Len(q) \in Nat \ {0} /\ Len(r) = Len(q) - 1
      /\ \A i \in 1 .. Len(r) : r[i] = q[i + 1]
      /\ Head(q) = q[1]
      /\ r = <<>> <=> Len(q) = 1
  <2>1. r \in Seq(Packet) /\ Len(r) = Len(q) - 1
    BY HeadTailProperties
  <2>2. Len(q) \in Nat \ {0} /\ Head(q) = q[1]
    BY EmptySeq
  <2>3. \A i \in 1 .. Len(r) : r[i] = q[i + 1]
    BY HeadTailProperties
  <2>4. r = <<>> <=> Len(r) = 0
    BY <2>1, EmptySeq
  <2> HIDE DEF r
  <2> QED
    BY <2>1, <2>2, <2>3, <2>4
<1>2. \A i \in 1 .. Len(q) : q[i] \in Packet
  OBVIOUS
<1> HIDE DEF r
<1>3. Contiguous(r)
  BY <1>1 DEF GoodQueue, Contiguous
<1>4. \A i \in 1 .. Len(r) : r[i].from < r[i].to
  BY <1>1 DEF GoodQueue
<1>5. r # <<>> => r[1].from = Head(q).to /\ r[Len(r)] = q[Len(q)]
  BY <1>1 DEF GoodQueue, Contiguous
<1>6. HeldBytes(r) = HeldBytes(q) - Size(Head(q))
  <2>1. CASE r = <<>>
    <3>0. Len(q) = 1
      BY <1>1, <2>1
    <3>1. q[1] \in Packet /\ HeldBytes(q) = q[1].to - q[1].from
      BY <1>2, <3>0 DEF HeldBytes
    <3>2. HeldBytes(r) = 0
      BY <2>1 DEF HeldBytes
    <3>3. Size(q[1]) = q[1].to - q[1].from /\ q[1].from \in Nat /\ q[1].to \in Nat
      BY <3>1, PacketRange
    <3> QED
      BY <1>1, <3>0, <3>1, <3>2, <3>3
  <2>2. CASE r # <<>>
    <3>1. HeldBytes(r) = q[Len(q)].to - Head(q).to
      BY <1>5, <2>2 DEF HeldBytes
    <3> QED
      BY <1>1, <1>2, <3>1, PacketRange DEF HeldBytes
  <2> QED
    BY <2>1, <2>2
<1>7. \A i, j \in 1 .. Len(r) : i < j => r[i].to <= r[j].from
  BY <1>1 DEF GoodQueue
<1> QED
  BY <1>1, <1>3, <1>4, <1>5, <1>6, <1>7 DEF GoodQueue, r

\* A queue of consecutive packets holds a natural number of bytes.
LEMMA HeldBytesNat ==
    ASSUME NEW q \in Seq(Packet), GoodQueue(q)
    PROVE  HeldBytes(q) \in Nat
<1>1. CASE q = <<>>
  BY <1>1 DEF HeldBytes
<1>2. CASE q # <<>>
  <2>1. 1 \in 1 .. Len(q) /\ Len(q) \in 1 .. Len(q)
    BY <1>2, EmptySeq
  <2>2. q[1] \in Packet /\ q[Len(q)] \in Packet
    BY <2>1, ElementOfSeq
  <2>3. q[1].from <= q[Len(q)].to
    <3>1. CASE Len(q) = 1
      BY <2>1, <2>2, <3>1, PacketRange DEF GoodQueue
    <3>2. CASE 1 < Len(q)
      <4>1. /\ q[1].to <= q[Len(q)].from
            /\ q[1].from < q[1].to /\ q[Len(q)].from < q[Len(q)].to
        BY <2>1, <3>2 DEF GoodQueue
      <4> QED
        BY <2>2, <4>1, PacketRange
    <3>3. Len(q) \in Nat \ {0}
      BY <1>2, EmptySeq
    <3> QED
      BY <3>1, <3>2, <3>3, AtLeastOne
  <2> QED
    BY <1>2, <2>2, <2>3, PacketRange DEF HeldBytes
<1> QED
  BY <1>1, <1>2

-----------------------------------------------------------------------------
(***************************************************************************)
(* The sending side.  SendInv is inductive: the queue is a gapless run of  *)
(* accepted packets that ends where the accepted stream ends, its bytes    *)
(* are counted exactly, and m_writing tells whether a write is in flight.  *)
(***************************************************************************)

sendVars == <<connVars, outVars>>

SendTypeOK ==
    /\ socket \in {"open", "closed"} /\ disconnectedNotified \in BOOLEAN
    /\ notifications \in Nat /\ ownerClosed \in BOOLEAN
    /\ writeQ \in Seq(Packet) /\ writeQueueBytes \in Nat
    /\ writing \in BOOLEAN /\ writeOps \in Seq(WriteOp)
    /\ accepted \in 0 .. MaxAccepted /\ wire \in Seq(Packet)

QueueIsStreamEnd ==
    /\ GoodQueue(writeQ)
    /\ writeQueueBytes = HeldBytes(writeQ)
    /\ writeQ # <<>> => writeQ[Len(writeQ)].to = accepted

SendInv ==
    /\ SendTypeOK
    /\ QueueIsStreamEnd
    /\ QueueWithinLimits
    /\ OneWriteInFlight
    /\ WritingIsWriteInFlight
    /\ ClosedIsNoted
    /\ ClosedWritesEnded
    /\ EndReportedOnce

LEMMA SendInvInit == Init => SendInv
<1> SUFFICES ASSUME Init PROVE SendInv
  OBVIOUS
<1>1. SendTypeOK
  <2>1. <<>> \in Seq(Packet) /\ <<>> \in Seq(WriteOp)
    BY EmptySeq
  <2>2. 0 \in 0 .. MaxAccepted
    BY SessionLimits
  <2> QED
    BY <2>1, <2>2 DEF Init, SendTypeOK
<1>2. QueueIsStreamEnd
  BY EmptyQueue DEF Init, QueueIsStreamEnd
<1>3. QueueWithinLimits
  BY SessionLimits DEF Init, QueueWithinLimits
<1>4. OneWriteInFlight /\ WritingIsWriteInFlight
  BY DEF Init, OneWriteInFlight, WritingIsWriteInFlight
<1>5. ClosedIsNoted /\ ClosedWritesEnded /\ EndReportedOnce
  BY DEF Init, ClosedIsNoted, ClosedWritesEnded, EndReportedOnce
<1> QED
  BY <1>1, <1>2, <1>3, <1>4, <1>5 DEF SendInv

LEMMA SendInvStutter == SendInv /\ UNCHANGED sendVars => SendInv'
<1> SUFFICES ASSUME SendInv, UNCHANGED sendVars PROVE SendInv'
  OBVIOUS
<1> USE DEF sendVars, connVars, outVars
<1>1. SendTypeOK'
  BY DEF SendInv, SendTypeOK
<1>2. QueueIsStreamEnd'
  BY DEF SendInv, QueueIsStreamEnd
<1>3. QueueWithinLimits' /\ OneWriteInFlight'
  BY DEF SendInv, QueueWithinLimits, OneWriteInFlight
<1>4. WritingIsWriteInFlight'
  BY DEF SendInv, WritingIsWriteInFlight
<1>5. ClosedIsNoted' /\ ClosedWritesEnded' /\ EndReportedOnce'
  BY DEF SendInv, ClosedIsNoted, ClosedWritesEnded, EndReportedOnce
<1> QED
  BY <1>1, <1>2, <1>3, <1>4, <1>5 DEF SendInv

\* However the connection ends, the queue is as it was and at most the write
\* that was in flight still is.
LEMMA SendInvNotify ==
    ASSUME SendInv,
           NEW read, NEW ops \in Seq(WriteOp), NEW tm,
           Len(ops) <= Len(writeOps),
           socket = "closed" => \A i \in 1 .. Len(ops) : ops[i].st # "wait",
           NotifyDisconnected(read, ops, tm),
           UNCHANGED <<writeQ, writeQueueBytes, writing, accepted, wire>>
    PROVE  SendInv'
<1>1. /\ writeOps' \in Seq(WriteOp)
      /\ Len(writeOps') = Len(ops)
      /\ \A i \in 1 .. Len(ops) : writeOps'[i].st # "wait"
      /\ socket' = "closed" /\ disconnectedNotified' = TRUE
      /\ ownerClosed' = ownerClosed
  <2>1. CASE disconnectedNotified
    <3>1. writeOps' = ops /\ UNCHANGED connVars
      BY <2>1 DEF NotifyDisconnected
    <3>2. socket = "closed" /\ ownerClosed' = ownerClosed
      BY <2>1, <3>1 DEF connVars, SendInv, ClosedIsNoted
    <3> QED
      BY <2>1, <3>1, <3>2 DEF connVars
  <2>2. CASE ~disconnectedNotified
    <3>1. /\ writeOps' = [i \in DOMAIN ops |-> Aborted(ops[i])]
          /\ socket' = "closed" /\ disconnectedNotified' = TRUE
          /\ ownerClosed' = ownerClosed
      BY <2>2 DEF NotifyDisconnected, CloseSocket
    <3> QED
      BY <3>1, AbortedOps
  <2> QED
    BY <2>1, <2>2
<1>2. /\ notifications' \in Nat
      /\ notifications' <= 1
      /\ notifications' = 1 \/ ownerClosed'
  BY DEF NotifyDisconnected, connVars, SendInv, SendTypeOK, ClosedIsNoted,
         EndReportedOnce
<1>3. SendTypeOK'
  BY <1>1, <1>2 DEF SendInv, SendTypeOK
<1>4. QueueIsStreamEnd' /\ QueueWithinLimits'
  BY DEF SendInv, QueueIsStreamEnd, QueueWithinLimits
<1>5. Len(writeOps) \in Nat /\ Len(ops) \in Nat
  BY LenProperties DEF SendInv, SendTypeOK
<1>6. OneWriteInFlight'
  BY <1>1, <1>5 DEF SendInv, OneWriteInFlight
<1>7. WritingIsWriteInFlight'
  BY <1>1, <1>5, EmptySeq DEF SendInv, SendTypeOK, WritingIsWriteInFlight
<1>8. ClosedIsNoted' /\ EndReportedOnce'
  BY <1>1, <1>2 DEF ClosedIsNoted, EndReportedOnce
<1>9. ClosedWritesEnded'
  BY <1>1 DEF ClosedWritesEnded
<1> QED
  BY <1>3, <1>4, <1>6, <1>7, <1>8, <1>9 DEF SendInv

\* DoWrite, on the queue the step leaves and with no write in flight, starts
\* the write of its front.
LEMMA SendInvDoWrite ==
    ASSUME SendInv,
           writeQ' \in Seq(Packet),
           DoWrite(writeQ', <<>>),
           UNCHANGED connVars
    PROVE  /\ writing' \in BOOLEAN /\ writeOps' \in Seq(WriteOp)
           /\ OneWriteInFlight' /\ WritingIsWriteInFlight' /\ ClosedWritesEnded'
<1> USE DEF connVars
<1>1. CASE writeQ' = <<>>
  <2>1. writing' = FALSE /\ writeOps' = <<>>
    BY <1>1 DEF DoWrite
  <2> QED
    <3>1. writeOps' \in Seq(WriteOp) /\ Len(writeOps') = 0
      BY <2>1, EmptySeq
    <3>2. OneWriteInFlight'
      BY <3>1 DEF OneWriteInFlight
    <3>3. WritingIsWriteInFlight'
      BY <1>1, <2>1 DEF WritingIsWriteInFlight
    <3>4. ClosedWritesEnded'
      BY <3>1 DEF ClosedWritesEnded
    <3> QED
      BY <2>1, <3>1, <3>2, <3>3, <3>4
<1>2. CASE writeQ' # <<>>
  <2> DEFINE op == [pkt |-> Head(writeQ'), st |-> Begun]
  <2>1. writing' = TRUE /\ writeOps' = Append(<<>>, op)
    BY <1>2 DEF DoWrite
  <2>2. op \in WriteOp
    BY <1>2, HeadTailProperties DEF WriteOp, Begun
  <2>3. writeOps' \in Seq(WriteOp) /\ Len(writeOps') = 1 /\ writeOps' # <<>>
    <3> HIDE DEF op
    <3>1. <<>> \in Seq(WriteOp) /\ Len(<<>>) = 0
      BY EmptySeq
    <3> QED
      BY <2>1, <2>2, <3>1, AppendProperties
  <2>4. Head(writeOps') = op /\ writeOps'[1] = op
    BY <2>1, <2>2
  <2>5. ClosedWritesEnded'
    <3>1. socket' = "closed" => op.st = "err"
      BY DEF Begun
    <3> HIDE DEF op
    <3> QED
      BY <2>3, <2>4, <3>1 DEF ClosedWritesEnded
  <2> QED
    BY <1>2, <2>1, <2>3, <2>4, <2>5 DEF OneWriteInFlight, WritingIsWriteInFlight
<1> QED
  BY <1>1, <1>2

LEMMA SendInvClose == SendInv /\ Close => SendInv'
<1> SUFFICES ASSUME SendInv, Close PROVE SendInv'
  OBVIOUS
<1>1. writeOps \in Seq(WriteOp) /\ writeQ' = <<>> /\ writeQueueBytes' = 0
  BY DEF SendInv, SendTypeOK, Close, ClearWriteQueue
<1>2. /\ writeOps' \in Seq(WriteOp) /\ Len(writeOps') = Len(writeOps)
      /\ \A i \in 1 .. Len(writeOps) : writeOps'[i].st # "wait"
      /\ socket' = "closed" /\ disconnectedNotified' = TRUE /\ ownerClosed' = TRUE
      /\ UNCHANGED <<notifications, writing, accepted, wire>>
  BY <1>1, AbortedOps DEF Close, CloseSocket
<1>3. SendTypeOK'
  BY <1>1, <1>2, EmptySeq DEF SendInv, SendTypeOK
<1>4. QueueIsStreamEnd'
  <2>1. GoodQueue(writeQ') /\ writeQueueBytes' = HeldBytes(writeQ')
    BY <1>1, EmptyQueue
  <2> QED
    BY <1>1, <2>1 DEF QueueIsStreamEnd
<1>8. QueueWithinLimits'
  <2>1. Len(writeQ') = 0
    BY <1>1
  <2>2. 0 <= MaxWriteQueuePackets /\ 0 <= MaxWriteQueueBytes
    BY SessionLimits
  <2> QED
    BY <1>1, <2>1, <2>2 DEF QueueWithinLimits
<1>5. OneWriteInFlight' /\ ClosedWritesEnded'
  <2>1. OneWriteInFlight'
    BY <1>2 DEF SendInv, OneWriteInFlight
  <2>2. ClosedWritesEnded'
    BY <1>2 DEF ClosedWritesEnded
  <2> QED
    BY <2>1, <2>2
<1>6. WritingIsWriteInFlight'
  <2>1. writeOps' # <<>> => writeOps # <<>>
    BY <1>1, <1>2, EmptySeq
  <2> QED
    BY <1>2, <2>1 DEF SendInv, WritingIsWriteInFlight
<1>7. ClosedIsNoted' /\ EndReportedOnce'
  BY <1>2 DEF SendInv, ClosedIsNoted, EndReportedOnce
<1> QED
  BY <1>3, <1>4, <1>5, <1>6, <1>7, <1>8 DEF SendInv

LEMMA SendInvEnqueue ==
    ASSUME SendInv, NEW bytes \in PacketSizes, bytes >= HeaderSize,
           CheckWriteQueueBudget(bytes), accepted + bytes <= MaxAccepted,
           Enqueue([from |-> accepted, to |-> accepted + bytes])
    PROVE  SendInv'
<1> DEFINE pkt == [from |-> accepted, to |-> accepted + bytes]
<1>1. /\ pkt \in Packet /\ pkt.from < pkt.to
      /\ pkt.from = accepted /\ Size(pkt) = bytes
      /\ bytes \in Nat /\ pkt.to = accepted + bytes
  BY SessionLimits DEF SendInv, SendTypeOK, Packet, Size
<1>2. /\ accepted' = pkt.to
      /\ writeQ' = Append(writeQ, pkt)
      /\ writeQueueBytes' = writeQueueBytes + Size(pkt)
      /\ UNCHANGED connVars /\ UNCHANGED wire
  BY DEF Enqueue
<1> HIDE DEF pkt
<1>3. /\ writeQ' \in Seq(Packet) /\ writeQ' # <<>>
      /\ Len(writeQ') = Len(writeQ) + 1
      /\ writeQ'[Len(writeQ')] = pkt
      /\ writeQ # <<>> => Head(writeQ') = Head(writeQ)
      /\ GoodQueue(writeQ')
      /\ HeldBytes(writeQ') = HeldBytes(writeQ) + Size(pkt)
  BY <1>1, <1>2, AppendQueue, AppendProperties, HeadTailAppend
     DEF SendInv, SendTypeOK, QueueIsStreamEnd
<1>4. QueueIsStreamEnd'
  BY <1>2, <1>3 DEF SendInv, QueueIsStreamEnd
<1>5. QueueWithinLimits'
  BY <1>1, <1>2, <1>3, SessionLimits, LenProperties
     DEF SendInv, SendTypeOK, CheckWriteQueueBudget, QueueWithinLimits
<1>6. /\ writing' \in BOOLEAN /\ writeOps' \in Seq(WriteOp)
      /\ OneWriteInFlight' /\ WritingIsWriteInFlight' /\ ClosedWritesEnded'
  <2>1. CASE writeQ = <<>> /\ ~writing
    <3>1. writeOps = <<>>
      BY <2>1 DEF SendInv, WritingIsWriteInFlight
    <3>2. DoWrite(writeQ', <<>>)
      BY <2>1, <3>1 DEF Enqueue
    <3> QED
      BY <1>2, <1>3, <3>2, SendInvDoWrite
  <2>2. CASE ~(writeQ = <<>> /\ ~writing)
    <3>1. UNCHANGED <<writing, writeOps>>
      BY <2>2 DEF Enqueue
    <3> QED
      BY <1>2, <1>3, <2>2, <3>1
         DEF SendInv, SendTypeOK, OneWriteInFlight, WritingIsWriteInFlight,
             ClosedWritesEnded, connVars
  <2> QED
    BY <2>1, <2>2
<1>7. SendTypeOK'
  <2>1. accepted' \in 0 .. MaxAccepted /\ writeQueueBytes' \in Nat
    BY <1>1, <1>2, SessionLimits DEF SendInv, SendTypeOK
  <2> QED
    BY <1>2, <1>3, <1>6, <2>1 DEF SendInv, SendTypeOK, connVars
<1>8. ClosedIsNoted' /\ EndReportedOnce'
  BY <1>2 DEF SendInv, ClosedIsNoted, EndReportedOnce, connVars
<1> QED
  BY <1>4, <1>5, <1>6, <1>7, <1>8 DEF SendInv

LEMMA SendInvSend ==
    ASSUME SendInv, NEW bytes \in PacketSizes, Send(bytes)
    PROVE  SendInv'
<1>1. CASE CheckWriteQueueBudget(bytes)
  BY <1>1, SendInvEnqueue DEF Send
<1>2. CASE ~CheckWriteQueueBudget(bytes)
  <2>1. NotifyDisconnected(readOp, writeOps, timer)
    BY <1>2 DEF Send
  <2>2. /\ UNCHANGED <<writeQ, writeQueueBytes, writing, accepted, wire>>
        /\ writeOps \in Seq(WriteOp)
        /\ Len(writeOps) <= Len(writeOps)
        /\ socket = "closed" => \A i \in 1 .. Len(writeOps) : writeOps[i].st # "wait"
    BY <1>2, LenProperties DEF Send, SendInv, SendTypeOK, ClosedWritesEnded
  <2> QED
    BY <2>1, <2>2, SendInvNotify
<1> QED
  BY <1>1, <1>2

LEMMA SendInvWriteHandler == SendInv /\ WriteHandler => SendInv'
<1> SUFFICES ASSUME SendInv, WriteHandler PROVE SendInv'
  OBVIOUS
<1> DEFINE ops == Tail(writeOps)
<1>1. /\ writeOps \in Seq(WriteOp) /\ writeOps # <<>>
      /\ writeOps[1] = Head(writeOps)
      /\ ops \in Seq(WriteOp) /\ Len(ops) = 0 /\ ops = <<>>
      /\ Len(ops) <= Len(writeOps)
  <2>1. writeOps \in Seq(WriteOp) /\ writeOps # <<>> /\ Len(writeOps) <= 1
    BY DEF WriteHandler, SendInv, SendTypeOK, OneWriteInFlight
  <2>2. Len(writeOps) \in Nat \ {0}
    BY <2>1, EmptySeq
  <2>3. Len(writeOps) = 1
    BY <2>1, <2>2, AtLeastOne
  <2>4. ops \in Seq(WriteOp) /\ Len(ops) = 0
    BY <2>1, <2>3, HeadTailProperties
  <2>5. ops = <<>>
    BY <2>4, EmptySeq
  <2>6. writeOps[1] = Head(writeOps)
    OBVIOUS
  <2> HIDE DEF ops
  <2> QED
    BY <2>1, <2>3, <2>4, <2>5, <2>6
<1>2. UNCHANGED <<accepted, wire>>
  BY DEF WriteHandler
<1>3. CASE Head(writeOps).st = "err"
  <2>1. NotifyDisconnected(readOp, ops, timer)
    BY <1>3 DEF WriteHandler
  <2>2. UNCHANGED <<writeQ, writeQueueBytes, writing>>
    BY <1>3 DEF WriteHandler
  <2> QED
    <3> HIDE DEF ops
    <3>1. \A i \in 1 .. Len(ops) : ops[i].st # "wait"
      BY <1>1
    <3> QED
      BY <1>1, <1>2, <2>1, <2>2, <3>1, SendInvNotify
<1>4. CASE Head(writeOps).st = "ok"
  <2>1. PopFront /\ DoWrite(writeQ', <<>>) /\ UNCHANGED connVars
    BY <1>1, <1>4 DEF WriteHandler
  <2>2. /\ writeQ' \in Seq(Packet)
        /\ QueueIsStreamEnd'
        /\ QueueWithinLimits'
        /\ writeQueueBytes' \in Nat
    <3>1. CASE writeQ = <<>>
      BY <1>2, <2>1, <3>1
         DEF PopFront, SendInv, SendTypeOK, QueueIsStreamEnd, QueueWithinLimits
    <3>2. CASE writeQ # <<>>
      <4>1. /\ writeQ' = Tail(writeQ)
            /\ writeQueueBytes' = writeQueueBytes - Size(Head(writeQ))
            /\ accepted' = accepted
        BY <1>2, <2>1, <3>2 DEF PopFront
      <4>2. /\ writeQ' \in Seq(Packet)
            /\ QueueIsStreamEnd'
        BY <3>2, <4>1, TailQueue DEF SendInv, SendTypeOK, QueueIsStreamEnd
      <4>3. HeldBytes(writeQ') \in Nat
        BY <4>2, HeldBytesNat DEF QueueIsStreamEnd
      <4>4. Size(Head(writeQ)) \in Nat
        <5>1. Head(writeQ) \in Packet /\ Head(writeQ).from < Head(writeQ).to
          BY <3>2, EmptySeq, HeadTailProperties
             DEF SendInv, SendTypeOK, QueueIsStreamEnd, GoodQueue
        <5> QED
          BY <5>1, PacketRange
      <4>5. Len(writeQ') = Len(writeQ) - 1
        BY <3>2, <4>1, HeadTailProperties DEF SendInv, SendTypeOK
      <4> QED
        BY <3>2, <4>1, <4>2, <4>3, <4>4, <4>5, SessionLimits, LenProperties
           DEF SendInv, SendTypeOK, QueueIsStreamEnd, QueueWithinLimits
    <3> QED
      BY <3>1, <3>2
  <2>3. /\ writing' \in BOOLEAN /\ writeOps' \in Seq(WriteOp)
        /\ OneWriteInFlight' /\ WritingIsWriteInFlight' /\ ClosedWritesEnded'
    BY <2>1, <2>2, SendInvDoWrite
  <2>4. SendTypeOK' /\ ClosedIsNoted' /\ EndReportedOnce'
    BY <1>2, <2>1, <2>2, <2>3
       DEF SendInv, SendTypeOK, ClosedIsNoted, EndReportedOnce, connVars
  <2> QED
    BY <2>2, <2>3, <2>4 DEF SendInv
<1>5. Head(writeOps).st \in {"err", "ok"}
  BY <1>1 DEF WriteHandler
<1> QED
  BY <1>3, <1>4, <1>5

\* The kernel reports on a write in flight.
LEMMA SendInvWriteDone ==
    SendInv /\ (WriteCompletes \/ WriteFails) => SendInv'
<1> SUFFICES ASSUME SendInv, WriteCompletes \/ WriteFails PROVE SendInv'
  OBVIOUS
<1>1. writeOps \in Seq(WriteOp) /\ writeOps # <<>> /\ 1 \in 1 .. Len(writeOps)
  BY EmptySeq DEF WriteCompletes, WriteFails, SendInv, SendTypeOK
<1>2. PICK st \in {"ok", "err"} : writeOps' = [writeOps EXCEPT ![1].st = st]
  BY DEF WriteCompletes, WriteFails
<1> DEFINE op == [writeOps[1] EXCEPT !.st = st]
<1>3. op \in WriteOp /\ op.pkt = writeOps[1].pkt
  <2>1. writeOps[1] \in WriteOp
    BY <1>1, ElementOfSeq
  <2> QED
    BY <2>1 DEF WriteOp
<1>4. writeOps' = [writeOps EXCEPT ![1] = op]
  BY <1>2
<1>5. /\ writeOps' \in Seq(WriteOp)
      /\ Len(writeOps') = Len(writeOps)
      /\ writeOps'[1].pkt = writeOps[1].pkt
  <2> HIDE DEF op
  <2> QED
    BY <1>1, <1>3, <1>4, ExceptSeq
<1>6. writeOps' # <<>> /\ Head(writeOps').pkt = Head(writeOps).pkt
  BY <1>1, <1>5, EmptySeq
<1>7. UNCHANGED <<connVars, writeQ, writeQueueBytes, writing, accepted>>
  BY DEF WriteCompletes, WriteFails
<1>8. wire' \in Seq(Packet)
  <2>1. Head(writeOps) \in WriteOp
    BY <1>1, HeadTailProperties
  <2>2. Head(writeOps).pkt \in Packet
    BY <2>1 DEF WriteOp
  <2>3. Append(wire, Head(writeOps).pkt) \in Seq(Packet) /\ wire \in Seq(Packet)
    BY <2>2, AppendProperties DEF SendInv, SendTypeOK
  <2> QED
    BY <2>3 DEF WriteCompletes, WriteFails
<1>9. SendTypeOK' /\ QueueIsStreamEnd' /\ QueueWithinLimits'
  BY <1>5, <1>7, <1>8
     DEF SendInv, SendTypeOK, QueueIsStreamEnd, QueueWithinLimits, connVars
<1>10. OneWriteInFlight' /\ WritingIsWriteInFlight' /\ ClosedWritesEnded'
  <2>1. socket # "closed"
    BY <1>1 DEF WriteCompletes, WriteFails, SendInv, ClosedWritesEnded
  <2> QED
    BY <1>1, <1>5, <1>6, <1>7, <2>1
       DEF SendInv, OneWriteInFlight, WritingIsWriteInFlight, ClosedWritesEnded,
           connVars
<1>11. ClosedIsNoted' /\ EndReportedOnce'
  BY <1>7 DEF SendInv, ClosedIsNoted, EndReportedOnce, connVars
<1> QED
  BY <1>9, <1>10, <1>11 DEF SendInv

\* A read handler that leaves ends the connection or leaves the sending side
\* alone.
LEMMA SendInvReading ==
    SendInv /\ (ReadHeaderHandler \/ ReadBodyHandler \/ TimerHandler) => SendInv'
<1> SUFFICES ASSUME SendInv, ReadHeaderHandler \/ ReadBodyHandler \/ TimerHandler
             PROVE  SendInv'
  OBVIOUS
<1>1. /\ UNCHANGED <<writeQ, writeQueueBytes, writing, accepted, wire>>
      /\ \/ UNCHANGED <<connVars, writeOps>>
         \/ NotifyDisconnected(NoRead, writeOps, timer)
         \/ NotifyDisconnected(readOp, writeOps, "idle")
  BY DEF ReadHeaderHandler, ReadBodyHandler, TimerHandler
<1>2. CASE UNCHANGED <<connVars, writeOps>>
  BY <1>1, <1>2, SendInvStutter DEF sendVars, outVars
<1>3. ASSUME NEW read, NEW tm, NotifyDisconnected(read, writeOps, tm)
      PROVE  SendInv'
  <2>1. /\ writeOps \in Seq(WriteOp) /\ Len(writeOps) <= Len(writeOps)
        /\ socket = "closed" => \A i \in 1 .. Len(writeOps) : writeOps[i].st # "wait"
    BY LenProperties DEF SendInv, SendTypeOK, ClosedWritesEnded
  <2> QED
    BY <1>1, <1>3, <2>1, SendInvNotify
<1> QED
  BY <1>1, <1>2, <1>3

LEMMA SendInvNext == SendInv /\ [Next]_vars => SendInv'
<1> SUFFICES ASSUME SendInv, [Next]_vars PROVE SendInv'
  OBVIOUS
<1>1. CASE Start
  BY <1>1, SendInvStutter DEF Start, sendVars
<1>2. CASE Close
  BY <1>2, SendInvClose
<1>3. ASSUME NEW bytes \in PacketSizes, Send(bytes) PROVE SendInv'
  BY <1>3, SendInvSend
<1>4. CASE ReadHeaderHandler \/ ReadBodyHandler \/ TimerHandler
  BY <1>4, SendInvReading
<1>5. CASE CallbackReturns
  BY <1>5, SendInvStutter DEF CallbackReturns, sendVars
<1>6. CASE WriteHandler
  BY <1>6, SendInvWriteHandler
<1>7. CASE PeerSends \/ ReadFails \/ TimerExpires \/ Tick
  BY <1>7, SendInvStutter DEF PeerSends, ReadFails, TimerExpires, Tick, sendVars
<1>8. CASE WriteCompletes \/ WriteFails
  BY <1>8, SendInvWriteDone
<1>9. CASE UNCHANGED vars
  BY <1>9, SendInvStutter DEF vars, sendVars
<1> QED
  BY <1>1, <1>2, <1>3, <1>4, <1>5, <1>6, <1>7, <1>8, <1>9
     DEF Next, Owner, Handler, Environment

\* In every reachable state of every session the invariant of the sending
\* side holds.
THEOREM SendInvAlways == Spec => []SendInv
<1>1. Init => SendInv
  BY SendInvInit
<1>2. SendInv /\ [Next]_vars => SendInv'
  BY SendInvNext
<1> QED
  BY <1>1, <1>2, PTL DEF Spec

\* async_write is never called while a write of the session is in flight, and
\* while the socket is open the queue's front is always being written.
THEOREM WritesAlwaysMatchQueue == Spec => []WritesMatchQueue
<1>1. SendInv => WritesMatchQueue
  BY DEF SendInv, WritingIsWriteInFlight, NoStalledQueue, WritesMatchQueue
<1> QED
  BY <1>1, SendInvAlways, PTL

\* m_onDisconnected is called at most once, only with the end of the
\* connection, and always then unless Close came first.
THEOREM EndAlwaysReportedOnce == Spec => []EndReportedOnce
<1>1. SendInv => EndReportedOnce
  BY DEF SendInv
<1> QED
  BY <1>1, SendInvAlways, PTL

\* Once Close has run, no step calls m_onDisconnected.
THEOREM CloseAlwaysSilent == Spec => CloseIsSilent
<1>1. ASSUME SendInv, [Next]_vars, ownerClosed
      PROVE  notifications' = notifications
  <2>1. disconnectedNotified
    BY <1>1 DEF SendInv, ClosedIsNoted
  <2>2. \A read, ops, tm :
            NotifyDisconnected(read, ops, tm) => notifications' = notifications
    BY <2>1 DEF NotifyDisconnected, connVars
  <2>3. CASE Next
    BY <2>2, <2>3
       DEF Next, Owner, Handler, Environment, Start, Close, Send, Enqueue,
           ReadHeaderHandler, ReadBodyHandler, CallbackReturns, WriteHandler,
           TimerHandler, PeerSends, ReadFails, WriteCompletes, WriteFails,
           TimerExpires, Tick, connVars
  <2>4. CASE UNCHANGED vars
    BY <2>4 DEF vars, connVars
  <2> QED
    BY <1>1, <2>3, <2>4
<1>2. SendInv /\ [Next]_vars => [ownerClosed => notifications' = notifications]_vars
  BY <1>1
<1> QED
  BY <1>2, SendInvAlways, PTL DEF Spec, CloseIsSilent

-----------------------------------------------------------------------------
(***************************************************************************)
(* The session implements PacketPipe.  Only four kinds of step change the  *)
(* pipe: Send accepting a packet, the kernel taking one, and the two ways  *)
(* a connection ends.                                                      *)
(***************************************************************************)

pending == IF socket = "open" THEN Untransmitted ELSE <<>>

LEMMA PipeInitHolds == Init => Pipe!PipeInit
  BY DEF Init, Pipe!PipeInit, Untransmitted

\* A step that changes neither the queue nor what has been written of it.
LEMMA PipeIdle ==
    UNCHANGED <<socket, writeQ, writeOps, wire>> => UNCHANGED Pipe!pipeVars
  BY DEF Pipe!pipeVars, Untransmitted

LEMMA PipeEnds ==
    ASSUME SendInv, socket' = "closed", wire' = wire
    PROVE  [Pipe!PipeNext]_Pipe!pipeVars
<1>1. CASE socket = "open"
  <2>1. Pipe!Break
    BY <1>1 DEF Pipe!Break
  <2> QED
    BY <2>1 DEF Pipe!PipeNext
<1>2. CASE socket = "closed"
  BY <1>2 DEF Pipe!pipeVars
<1> QED
  BY <1>1, <1>2 DEF SendInv, SendTypeOK

LEMMA NotifyEnds ==
    ASSUME SendInv, NEW read, NEW ops, NEW tm, NotifyDisconnected(read, ops, tm)
    PROVE  socket' = "closed"
  BY DEF NotifyDisconnected, CloseSocket, connVars, SendInv, ClosedIsNoted

LEMMA PipeSend ==
    ASSUME SendInv, NEW bytes \in PacketSizes, Send(bytes)
    PROVE  [Pipe!PipeNext]_Pipe!pipeVars
<1> DEFINE pkt == [from |-> accepted, to |-> accepted + bytes]
<1>1. CASE CheckWriteQueueBudget(bytes) /\ socket = "open"
  <2>1. Enqueue(pkt) /\ bytes >= HeaderSize /\ accepted + bytes <= MaxAccepted
    BY <1>1 DEF Send
  <2>2. pkt \in Packet
    BY <2>1, SessionLimits DEF SendInv, SendTypeOK, Packet
  <2> HIDE DEF pkt
  <2>3. /\ writeQ \in Seq(Packet)
        /\ writeQ' = Append(writeQ, pkt) /\ wire' = wire /\ socket' = "open"
    BY <1>1, <2>1 DEF Enqueue, connVars, SendInv, SendTypeOK
  <2>4. pending' = Append(pending, pkt) /\ Len(pending) < MaxWriteQueuePackets
    <3>1. CASE writeQ = <<>>
      <4>1. writeOps = <<>> /\ ~writing
        BY <1>1, <3>1 DEF SendInv, WritingIsWriteInFlight
      <4>2. writeOps' = Append(<<>>, [pkt |-> Head(writeQ'), st |-> Begun])
        BY <2>1, <2>2, <2>3, <3>1, <4>1, AppendProperties DEF Enqueue, DoWrite
      <4>3. Head(writeOps').st = "wait"
        BY <1>1, <4>2 DEF Begun
      <4>4. pending = writeQ /\ pending' = writeQ'
        BY <1>1, <2>3, <4>1, <4>3 DEF pending, Untransmitted
      <4> QED
        BY <1>1, <2>3, <4>4 DEF CheckWriteQueueBudget
    <3>2. CASE writeQ # <<>>
      <4>1. writeOps' = writeOps /\ writeOps # <<>>
        BY <1>1, <2>1, <3>2 DEF Enqueue, SendInv, WritingIsWriteInFlight
      <4>2. /\ Tail(writeQ') = Append(Tail(writeQ), pkt)
            /\ Len(Tail(writeQ)) = Len(writeQ) - 1
            /\ Len(writeQ) \in Nat
        BY <2>2, <2>3, <3>2, HeadTailAppend, HeadTailProperties, LenProperties
      <4>3. Len(writeQ) < MaxWriteQueuePackets /\ MaxWriteQueuePackets \in Nat
        BY <1>1, SessionLimits DEF CheckWriteQueueBudget
      <4>4. CASE Head(writeOps).st = "ok"
        <5>1. pending = Tail(writeQ) /\ pending' = Tail(writeQ')
          BY <1>1, <2>3, <4>1, <4>4 DEF pending, Untransmitted
        <5>2. pending' = Append(pending, pkt)
          BY <4>2, <5>1
        <5>3. Len(pending) = Len(writeQ) - 1
          BY <4>2, <5>1
        <5>4. Len(pending) < MaxWriteQueuePackets
          BY <4>2, <4>3, <5>3
        <5> QED
          BY <5>2, <5>4
      <4>5. CASE Head(writeOps).st # "ok"
        <5>1. pending = writeQ /\ pending' = writeQ'
          BY <1>1, <2>3, <4>1, <4>5 DEF pending, Untransmitted
        <5> QED
          BY <2>3, <4>3, <5>1
      <4> QED
        BY <4>4, <4>5
    <3> QED
      BY <3>1, <3>2
  <2>5. Pipe!Accept(pkt)
    BY <1>1, <2>3, <2>4 DEF Pipe!Accept, pending
  <2> QED
    BY <2>2, <2>5 DEF Pipe!PipeNext
<1>2. CASE CheckWriteQueueBudget(bytes) /\ socket = "closed"
  BY <1>2, PipeEnds DEF Send, Enqueue, connVars
<1>3. CASE ~CheckWriteQueueBudget(bytes)
  BY <1>3, NotifyEnds, PipeEnds DEF Send
<1> QED
  BY <1>1, <1>2, <1>3 DEF SendInv, SendTypeOK

LEMMA PipeWriteHandler ==
    ASSUME SendInv, WriteHandler
    PROVE  [Pipe!PipeNext]_Pipe!pipeVars
<1>0. writeOps \in Seq(WriteOp) /\ writeOps # <<>> /\ wire' = wire
  BY DEF WriteHandler, SendInv, SendTypeOK
<1>1. CASE Head(writeOps).st = "err"
  BY <1>0, <1>1, NotifyEnds, PipeEnds DEF WriteHandler
<1>2. CASE Head(writeOps).st = "ok" /\ socket = "closed"
  BY <1>0, <1>2, PipeEnds DEF WriteHandler, connVars
<1>3. CASE Head(writeOps).st = "ok" /\ socket = "open"
  <2>1. writeQ # <<>> /\ Tail(writeOps) = <<>>
    <3>1. Len(writeOps) = 1
      BY <1>0, EmptySeq, AtLeastOne DEF SendInv, OneWriteInFlight
    <3>2. Tail(writeOps) \in Seq(WriteOp) /\ Len(Tail(writeOps)) = 0
      BY <1>0, <3>1, HeadTailProperties
    <3> QED
      BY <1>0, <1>3, <3>2, EmptySeq DEF SendInv, WritingIsWriteInFlight
  <2>2. writeQ' = Tail(writeQ) /\ DoWrite(writeQ', <<>>) /\ socket' = "open"
    BY <1>3, <2>1 DEF WriteHandler, PopFront, connVars
  <2>3. writeOps' = <<>> \/ Head(writeOps').st = "wait"
    <3>1. writeOps' = <<>> \/ writeOps' = Append(<<>>, [pkt |-> Head(writeQ'), st |-> Begun])
      BY <2>2 DEF DoWrite
    <3> QED
      BY <1>3, <3>1 DEF Begun
  <2>4. pending = Tail(writeQ) /\ pending' = writeQ'
    BY <1>0, <1>3, <2>2, <2>3 DEF pending, Untransmitted
  <2> QED
    BY <1>0, <1>3, <2>2, <2>4 DEF Pipe!pipeVars, pending
<1>4. Head(writeOps).st \in {"err", "ok"}
  BY <1>0 DEF WriteHandler
<1> QED
  BY <1>1, <1>2, <1>3, <1>4 DEF SendInv, SendTypeOK

LEMMA PipeWriteCompletes ==
    ASSUME SendInv, WriteCompletes
    PROVE  [Pipe!PipeNext]_Pipe!pipeVars
<1>1. /\ writeOps \in Seq(WriteOp) /\ writeOps # <<>>
      /\ 1 \in 1 .. Len(writeOps) /\ Head(writeOps) = writeOps[1]
  BY EmptySeq DEF WriteCompletes, SendInv, SendTypeOK
<1>2. socket = "open"
  BY <1>1 DEF WriteCompletes, SendInv, SendTypeOK, ClosedWritesEnded
<1>3. writeQ # <<>> /\ Head(writeOps).pkt = Head(writeQ)
  BY <1>1, <1>2 DEF SendInv, WritingIsWriteInFlight
<1>4. writeOps' # <<>> /\ Head(writeOps').st = "ok"
  <2> DEFINE op == [writeOps[1] EXCEPT !.st = "ok"]
  <2>1. writeOps[1] \in WriteOp
    BY <1>1, ElementOfSeq
  <2>2. op \in WriteOp /\ op.st = "ok"
    BY <2>1 DEF WriteOp
  <2>3. writeOps' = [writeOps EXCEPT ![1] = op]
    BY DEF WriteCompletes
  <2> HIDE DEF op
  <2>4. writeOps' \in Seq(WriteOp) /\ Len(writeOps') = Len(writeOps) /\ writeOps'[1] = op
    BY <1>1, <2>2, <2>3, ExceptSeq
  <2> QED
    BY <1>1, <2>2, <2>4, EmptySeq
<1>5. /\ wire' = Append(wire, Head(writeQ))
      /\ writeQ' = writeQ /\ socket' = "open"
  BY <1>2, <1>3 DEF WriteCompletes, connVars
<1>6. pending = writeQ /\ pending' = Tail(writeQ)
  BY <1>2, <1>4, <1>5 DEF WriteCompletes, pending, Untransmitted
<1>7. Pipe!Transmit
  BY <1>2, <1>3, <1>5, <1>6 DEF Pipe!Transmit, pending
<1> QED
  BY <1>7 DEF Pipe!PipeNext

LEMMA PipeWriteFails ==
    ASSUME SendInv, WriteFails
    PROVE  UNCHANGED Pipe!pipeVars
<1>1. /\ writeOps \in Seq(WriteOp) /\ writeOps # <<>>
      /\ 1 \in 1 .. Len(writeOps) /\ Head(writeOps) = writeOps[1]
  BY EmptySeq DEF WriteFails, SendInv, SendTypeOK
<1> DEFINE op == [writeOps[1] EXCEPT !.st = "err"]
<1>2. writeOps[1] \in WriteOp
  BY <1>1, ElementOfSeq
<1>3. op \in WriteOp /\ op.st = "err"
  BY <1>2 DEF WriteOp
<1>4. writeOps' = [writeOps EXCEPT ![1] = op]
  BY DEF WriteFails
<1> HIDE DEF op
<1>5. writeOps' \in Seq(WriteOp) /\ writeOps'[1] = op /\ Len(writeOps') = Len(writeOps)
  BY <1>1, <1>3, <1>4, ExceptSeq
<1>6. writeOps' # <<>> /\ Head(writeOps').st # "ok" /\ Head(writeOps).st # "ok"
  BY <1>1, <1>3, <1>5, EmptySeq DEF WriteFails
<1> QED
  BY <1>6 DEF WriteFails, connVars, Pipe!pipeVars, Untransmitted

\* What callers of Send may rely on: an accepted packet is transmitted in
\* order, at most once, never after the end, and only the end loses it.
THEOREM SessionImplementsPipe == Spec => PipeSpec
<1>1. Init => Pipe!PipeInit
  BY PipeInitHolds
<1>2. ASSUME SendInv, [Next]_vars
      PROVE  [Pipe!PipeNext]_Pipe!pipeVars
  <2>1. CASE Start \/ CallbackReturns \/ PeerSends \/ ReadFails \/ TimerExpires \/ Tick
    BY <2>1, PipeIdle
       DEF Start, CallbackReturns, PeerSends, ReadFails, TimerExpires, Tick,
           connVars, outVars
  <2>2. CASE Close
    BY <1>2, <2>2, PipeEnds DEF Close, CloseSocket
  <2>3. ASSUME NEW bytes \in PacketSizes, Send(bytes)
        PROVE  [Pipe!PipeNext]_Pipe!pipeVars
    BY <1>2, <2>3, PipeSend
  <2>4. CASE ReadHeaderHandler \/ ReadBodyHandler \/ TimerHandler
    <3>1. /\ wire' = wire
          /\ \/ UNCHANGED <<socket, writeQ, writeOps, wire>>
             \/ NotifyDisconnected(NoRead, writeOps, timer)
             \/ NotifyDisconnected(readOp, writeOps, "idle")
      BY <2>4 DEF ReadHeaderHandler, ReadBodyHandler, TimerHandler, connVars
    <3> QED
      BY <1>2, <3>1, PipeIdle, NotifyEnds, PipeEnds
  <2>5. CASE WriteHandler
    BY <1>2, <2>5, PipeWriteHandler
  <2>6. CASE WriteCompletes
    BY <1>2, <2>6, PipeWriteCompletes
  <2>7. CASE WriteFails
    BY <1>2, <2>7, PipeWriteFails
  <2>8. CASE UNCHANGED vars
    BY <2>8, PipeIdle DEF vars, connVars, outVars
  <2> QED
    BY <1>2, <2>1, <2>2, <2>3, <2>4, <2>5, <2>6, <2>7, <2>8
       DEF Next, Owner, Handler, Environment
<1> QED
  BY <1>1, <1>2, SendInvAlways, PTL DEF Spec, PipeSpec

-----------------------------------------------------------------------------
(***************************************************************************)
(* The receiving side.  RecvInv is inductive: the kernel holds no read of  *)
(* a closed session, a read that delivered late is followed by one that    *)
(* fails, and while the socket is open the time left on the timer bounds   *)
(* how long the peer has been silent.                                      *)
(***************************************************************************)

ReadState == [op : {"none", "header", "body", "callback"},
              st : {"wait", "ok", "err"}, len : Nat]

RecvTypeOK ==
    /\ socket \in {"open", "closed"} /\ disconnectedNotified \in BOOLEAN
    /\ disconnectedNotified => socket = "closed"
    /\ socket = "closed" => disconnectedNotified
    /\ readOp \in ReadState
    /\ timer \in {"new", "wait", "expired", "aborted", "idle"}
    /\ timerLeft \in Nat /\ idleFor \in Nat /\ lateDeliveries \in Nat

ReadsEnd ==
    socket = "closed" /\ readOp.op \in {"header", "body"} => readOp.st # "wait"

LateOnce ==
    lateDeliveries = 0
        \/ /\ lateDeliveries = 1 /\ socket = "closed"
           /\ readOp.op \in {"header", "body"} => readOp.st = "err"

TimerBounds ==
    socket = "open" =>
        \/ timer = "new"
        \/ timer = "wait" /\ idleFor + timerLeft < 2 * IdleTimeout
        \/ timer = "expired" /\ idleFor < 2 * IdleTimeout

RecvInv == RecvTypeOK /\ ReadsEnd /\ LateOnce /\ TimerBounds

recvVars == <<socket, disconnectedNotified, readOp, timer, timeVars, lateDeliveries>>

LEMMA TimeoutIsPositive == IdleTimeout \in Nat /\ 0 < IdleTimeout /\ 2 * IdleTimeout \in Nat
                           /\ IdleTimeout < 2 * IdleTimeout
  BY SessionLimits

LEMMA ReadInState ==
    ASSUME NEW r \in ReadState, NEW s \in {"wait", "ok", "err"}, NEW n \in Nat
    PROVE  /\ [r EXCEPT !.st = s] \in ReadState
           /\ [r EXCEPT !.st = s].st = s /\ [r EXCEPT !.st = s].op = r.op
           /\ [r EXCEPT !.st = s, !.len = n] \in ReadState
           /\ [r EXCEPT !.st = s, !.len = n].op = r.op
           /\ [r EXCEPT !.op = "body", !.st = s] \in ReadState
           /\ [r EXCEPT !.op = "body", !.st = s].st = s
  BY DEF ReadState

LEMMA AbortedRead ==
    ASSUME NEW r \in ReadState
    PROVE  Aborted(r) \in ReadState /\ Aborted(r).st # "wait" /\ Aborted(r).op = r.op
           /\ (r.st = "err" => Aborted(r).st = "err")
  BY DEF Aborted, ReadState

LEMMA RecvInvInit == Init => RecvInv
<1> SUFFICES ASSUME Init PROVE RecvInv
  OBVIOUS
<1>1. readOp \in ReadState
  BY DEF Init, NoRead, ReadState
<1>2. socket = "open" /\ ~disconnectedNotified /\ disconnectedNotified \in BOOLEAN
  BY DEF Init
<1>3. timer = "new" /\ timerLeft = 0 /\ idleFor = 0 /\ lateDeliveries = 0
  BY DEF Init
<1> QED
  BY <1>1, <1>2, <1>3 DEF RecvInv, RecvTypeOK, ReadsEnd, LateOnce, TimerBounds

LEMMA RecvInvStutter == RecvInv /\ UNCHANGED recvVars => RecvInv'
  BY DEF RecvInv, RecvTypeOK, ReadsEnd, LateOnce, TimerBounds, recvVars, timeVars

\* The next header is asked for: at once in vain on a closed socket.
LEMMA HeaderFacts ==
    ASSUME RecvTypeOK, ReadHeader
    PROVE  /\ readOp' \in ReadState
           /\ socket = "closed" => readOp'.st = "err"
  BY DEF RecvTypeOK, ReadHeader, Begun, ReadState

\* However the connection ends, a read the kernel held ends with it.
LEMMA RecvInvNotify ==
    ASSUME RecvInv, NEW read \in ReadState, NEW ops,
           NEW tm \in {"new", "wait", "expired", "aborted", "idle"},
           read = readOp \/ read = NoRead,
           NotifyDisconnected(read, ops, tm),
           timerLeft' \in Nat, idleFor' \in Nat, lateDeliveries' = lateDeliveries
    PROVE  RecvInv'
<1>1. /\ socket' = "closed" /\ disconnectedNotified' = TRUE
      /\ readOp' \in ReadState
      /\ readOp'.op \in {"header", "body"} => readOp'.st # "wait"
      /\ lateDeliveries = 1 /\ readOp'.op \in {"header", "body"} => readOp'.st = "err"
      /\ timer' \in {"new", "wait", "expired", "aborted", "idle"}
  <2>1. CASE disconnectedNotified
    <3>1. readOp' = read /\ timer' = tm /\ socket' = socket /\ socket = "closed"
          /\ disconnectedNotified' = disconnectedNotified
      BY <2>1 DEF NotifyDisconnected, connVars, RecvInv, RecvTypeOK
    <3>2. read.op \in {"header", "body"} => read = readOp
      BY DEF NoRead
    <3> QED
      BY <2>1, <3>1, <3>2 DEF RecvInv, ReadsEnd, LateOnce
  <2>2. CASE ~disconnectedNotified
    <3>1. /\ socket' = "closed" /\ disconnectedNotified' = TRUE
          /\ readOp' = Aborted(read) /\ timer' = IF tm = "wait" THEN "aborted" ELSE tm
      BY <2>2 DEF NotifyDisconnected, CloseSocket
    <3>2. lateDeliveries # 1
      BY <2>2 DEF RecvInv, RecvTypeOK, LateOnce
    <3> QED
      BY <3>1, <3>2, AbortedRead
  <2> QED
    BY <2>1, <2>2
<1>2. RecvTypeOK'
  BY <1>1 DEF RecvInv, RecvTypeOK
<1>3. ReadsEnd' /\ TimerBounds'
  BY <1>1 DEF ReadsEnd, TimerBounds
<1>4. LateOnce'
  BY <1>1 DEF RecvInv, LateOnce
<1> QED
  BY <1>2, <1>3, <1>4 DEF RecvInv

\* A packet is complete.  If the socket is closed already, nothing was
\* delivered late before, as the read has succeeded.
LEMMA RecvInvTake ==
    ASSUME RecvInv, readOp.op \in {"header", "body"}, readOp.st = "ok", NEW bytes,
           TakePacket(bytes),
           UNCHANGED <<socket, disconnectedNotified, timer, timerLeft>>,
           idleFor' = 0 \/ idleFor' = idleFor
    PROVE  RecvInv'
<1>1. lateDeliveries = 0
  BY DEF RecvInv, LateOnce
<1>2. TimerBounds'
  BY TimeoutIsPositive DEF RecvInv, RecvTypeOK, TimerBounds
<1>3. CASE readOp' = InCallback /\ lateDeliveries' = IF disconnectedNotified
                                                     THEN lateDeliveries + 1 ELSE lateDeliveries
  <2>1. readOp' \in ReadState /\ readOp'.op = "callback"
    BY <1>3 DEF InCallback, ReadState
  <2>2. lateDeliveries' = 0 \/ (lateDeliveries' = 1 /\ socket = "closed")
    BY <1>1, <1>3 DEF RecvInv, RecvTypeOK
  <2> QED
    BY <1>2, <2>1, <2>2 DEF RecvInv, RecvTypeOK, ReadsEnd, LateOnce
<1>4. CASE ReadHeader /\ lateDeliveries' = lateDeliveries
  <2>1. readOp' \in ReadState /\ (socket = "closed" => readOp'.st = "err")
    BY <1>4, HeaderFacts DEF RecvInv
  <2> QED
    BY <1>1, <1>2, <1>4, <2>1 DEF RecvInv, RecvTypeOK, ReadsEnd, LateOnce
<1> QED
  BY <1>3, <1>4 DEF TakePacket, inVars

LEMMA RecvInvReading ==
    ASSUME RecvInv, ReadHeaderHandler \/ ReadBodyHandler
    PROVE  RecvInv'
<1>1. NoRead \in ReadState /\ 0 \in Nat
  BY DEF NoRead, ReadState
<1>2. timerLeft' = timerLeft /\ readOp.op \in {"header", "body"}
  BY DEF ReadHeaderHandler, ReadBodyHandler, timeVars
<1>3. CASE /\ NotifyDisconnected(NoRead, writeOps, timer)
           /\ idleFor' = idleFor /\ lateDeliveries' = lateDeliveries
  <2>1. timerLeft' \in Nat /\ idleFor' \in Nat /\ timer \in {"new", "wait", "expired", "aborted", "idle"}
    BY <1>2, <1>3 DEF RecvInv, RecvTypeOK
  <2> QED
    BY <1>1, <1>3, <2>1, RecvInvNotify
<1>4. CASE /\ readOp.st = "ok" /\ \E bytes : TakePacket(bytes)
           /\ UNCHANGED <<connVars, timer>> /\ (idleFor' = 0 \/ idleFor' = idleFor)
  BY <1>2, <1>4, RecvInvTake DEF connVars
<1>5. CASE /\ readOp.st = "ok" /\ readOp' = [readOp EXCEPT !.op = "body", !.st = Begun]
           /\ UNCHANGED <<connVars, timer, inVars>> /\ idleFor' = 0
  <2>1. Begun \in {"wait", "ok", "err"} /\ (socket = "closed" => Begun = "err")
    BY DEF Begun
  <2>2. readOp' \in ReadState /\ (socket = "closed" => readOp'.st = "err")
    BY <1>5, <2>1, ReadInState DEF RecvInv, RecvTypeOK
  <2>3. TimerBounds'
    BY <1>2, <1>5, TimeoutIsPositive DEF RecvInv, RecvTypeOK, TimerBounds, connVars
  <2> QED
    BY <1>2, <1>5, <2>2, <2>3
       DEF RecvInv, RecvTypeOK, ReadsEnd, LateOnce, connVars, inVars
<1>6. CASE ReadHeaderHandler
  BY <1>3, <1>4, <1>5, <1>6 DEF ReadHeaderHandler, inVars
<1>7. CASE ReadBodyHandler
  BY <1>3, <1>4, <1>7 DEF ReadBodyHandler, timeVars, inVars
<1> QED
  BY <1>6, <1>7

LEMMA RecvInvTimer ==
    ASSUME RecvInv, TimerHandler
    PROVE  RecvInv'
<1>1. idleFor' = idleFor /\ lateDeliveries' = lateDeliveries
  BY DEF TimerHandler, inVars
<1>2. CASE NotifyDisconnected(readOp, writeOps, "idle") /\ timerLeft' = timerLeft
  BY <1>1, <1>2, RecvInvNotify DEF RecvInv, RecvTypeOK
<1>3. CASE (timer = "aborted" \/ disconnectedNotified) /\ timer' = "idle"
           /\ UNCHANGED <<connVars, readOp, timerLeft>>
  <2>1. socket = "closed"
    BY <1>3 DEF RecvInv, RecvTypeOK, TimerBounds
  <2> QED
    BY <1>1, <1>3, <2>1 DEF RecvInv, RecvTypeOK, ReadsEnd, LateOnce, TimerBounds, connVars
<1>4. CASE ~IdleTooLong /\ ArmIdleTimer /\ UNCHANGED <<connVars, readOp>>
  <2>1. timer' = "wait" /\ timerLeft' = IdleTimeout /\ ~(idleFor >= IdleTimeout)
    BY <1>4 DEF ArmIdleTimer, IdleTooLong
  <2>2. idleFor' + timerLeft' < 2 * IdleTimeout
    BY <1>1, <2>1, TimeoutIsPositive DEF RecvInv, RecvTypeOK
  <2> QED
    BY <1>1, <1>4, <2>1, <2>2, TimeoutIsPositive
       DEF RecvInv, RecvTypeOK, ReadsEnd, LateOnce, TimerBounds, connVars
<1> QED
  BY <1>2, <1>3, <1>4 DEF TimerHandler

LEMMA RecvInvOwner ==
    ASSUME RecvInv, Start \/ Close \/ CallbackReturns
    PROVE  RecvInv'
<1>1. CASE Start \/ CallbackReturns
  <2>1. /\ ReadHeader /\ idleFor' = 0 /\ lateDeliveries' = lateDeliveries
        /\ socket' = socket /\ disconnectedNotified' = disconnectedNotified
        /\ \/ timer' = timer /\ timerLeft' = timerLeft
           \/ timer' = "wait" /\ timerLeft' = IdleTimeout
    BY <1>1 DEF Start, CallbackReturns, ArmIdleTimer, connVars, inVars
  <2>2. readOp' \in ReadState /\ (socket = "closed" => readOp'.st = "err")
    BY <2>1, HeaderFacts DEF RecvInv
  <2>3. TimerBounds'
    BY <2>1, TimeoutIsPositive DEF RecvInv, RecvTypeOK, TimerBounds
  <2> QED
    BY <2>1, <2>2, <2>3, TimeoutIsPositive DEF RecvInv, RecvTypeOK, ReadsEnd, LateOnce
<1>2. CASE Close
  <2>1. /\ disconnectedNotified' = TRUE /\ socket' = "closed"
        /\ readOp' = Aborted(readOp) /\ timer' = IF timer = "wait" THEN "aborted" ELSE timer
        /\ lateDeliveries' = lateDeliveries /\ timerLeft' = timerLeft /\ idleFor' = idleFor
    BY <1>2 DEF Close, CloseSocket, timeVars, inVars
  <2>2. /\ readOp' \in ReadState /\ readOp'.st # "wait" /\ readOp'.op = readOp.op
        /\ readOp.st = "err" => readOp'.st = "err"
    BY <2>1, AbortedRead DEF RecvInv, RecvTypeOK
  <2> QED
    BY <2>1, <2>2 DEF RecvInv, RecvTypeOK, ReadsEnd, LateOnce, TimerBounds
<1> QED
  BY <1>1, <1>2

LEMMA RecvInvSending ==
    ASSUME RecvInv, (\E bytes \in PacketSizes : Send(bytes)) \/ WriteHandler
    PROVE  RecvInv'
<1>1. /\ timerLeft' = timerLeft /\ idleFor' = idleFor /\ lateDeliveries' = lateDeliveries
      /\ \/ UNCHANGED <<connVars, readOp, timer>>
         \/ \E ops : NotifyDisconnected(readOp, ops, timer)
  BY DEF Send, WriteHandler, Enqueue, timeVars, inVars
<1>2. CASE UNCHANGED <<connVars, readOp, timer>>
  BY <1>1, <1>2, RecvInvStutter DEF recvVars, timeVars, connVars
<1>3. CASE \E ops : NotifyDisconnected(readOp, ops, timer)
  BY <1>1, <1>3, RecvInvNotify DEF RecvInv, RecvTypeOK
<1> QED
  BY <1>1, <1>2, <1>3

LEMMA RecvInvEnvironment ==
    ASSUME RecvInv, Environment
    PROVE  RecvInv'
<1>1. socket' = socket /\ disconnectedNotified' = disconnectedNotified
      /\ lateDeliveries' = lateDeliveries
  BY DEF Environment, PeerSends, ReadFails, WriteCompletes, WriteFails, TimerExpires, Tick,
         connVars, inVars
<1>2. CASE PeerSends \/ ReadFails
  <2>1. timer' = timer /\ timerLeft' = timerLeft /\ idleFor' = idleFor
        /\ readOp.op \in {"header", "body"} /\ readOp.st = "wait"
    BY <1>2 DEF PeerSends, ReadFails, timeVars
  <2>2. socket = "open" /\ lateDeliveries = 0
    BY <2>1 DEF RecvInv, RecvTypeOK, ReadsEnd, LateOnce
  <2>3. readOp' \in ReadState
    <3>1. CASE PeerSends
      <4>1. PICK len \in IF readOp.op = "header" THEN BodyLengths ELSE {readOp.len} :
                readOp' = [readOp EXCEPT !.st = "ok", !.len = len]
        BY <3>1 DEF PeerSends
      <4>2. len \in Nat
        BY SessionLimits DEF RecvInv, RecvTypeOK, ReadState
      <4> QED
        BY <4>1, <4>2, ReadInState DEF RecvInv, RecvTypeOK
    <3>2. CASE ReadFails
      BY <3>2, ReadInState DEF ReadFails, RecvInv, RecvTypeOK
    <3> QED
      BY <1>2, <3>1, <3>2
  <2> QED
    BY <1>1, <2>1, <2>2, <2>3 DEF RecvInv, RecvTypeOK, ReadsEnd, LateOnce, TimerBounds
<1>3. CASE WriteCompletes \/ WriteFails
  BY <1>1, <1>3, RecvInvStutter DEF WriteCompletes, WriteFails, recvVars
<1>4. CASE TimerExpires
  <2>1. timer = "wait" /\ timerLeft = 0 /\ timer' = "expired" /\ readOp' = readOp
        /\ timerLeft' = timerLeft /\ idleFor' = idleFor
    BY <1>4 DEF TimerExpires, timeVars
  <2> QED
    BY <1>1, <2>1 DEF RecvInv, RecvTypeOK, ReadsEnd, LateOnce, TimerBounds
<1>5. CASE Tick
  <2>1. /\ timer # "expired" /\ timer' = timer /\ readOp' = readOp
        /\ timer = "wait" => timerLeft > 0 /\ timerLeft' = timerLeft - 1
        /\ timer # "wait" => timerLeft' = timerLeft
        /\ idleFor' = idleFor + 1 \/ idleFor' = idleFor
    BY <1>5 DEF Tick, Older
  <2>2. TimerBounds' /\ timerLeft' \in Nat /\ idleFor' \in Nat
    BY <1>1, <2>1, TimeoutIsPositive DEF RecvInv, RecvTypeOK, TimerBounds
  <2> QED
    BY <1>1, <2>1, <2>2 DEF RecvInv, RecvTypeOK, ReadsEnd, LateOnce
<1> QED
  BY <1>2, <1>3, <1>4, <1>5 DEF Environment

LEMMA RecvInvNext == RecvInv /\ [Next]_vars => RecvInv'
<1> SUFFICES ASSUME RecvInv, [Next]_vars PROVE RecvInv'
  OBVIOUS
<1>1. CASE Start \/ Close \/ CallbackReturns
  BY <1>1, RecvInvOwner
<1>2. CASE (\E bytes \in PacketSizes : Send(bytes)) \/ WriteHandler
  BY <1>2, RecvInvSending
<1>3. CASE ReadHeaderHandler \/ ReadBodyHandler
  BY <1>3, RecvInvReading
<1>4. CASE TimerHandler
  BY <1>4, RecvInvTimer
<1>5. CASE Environment
  BY <1>5, RecvInvEnvironment
<1>6. CASE UNCHANGED vars
  BY <1>6, RecvInvStutter DEF vars, recvVars, connVars, inVars
<1> QED
  BY <1>1, <1>2, <1>3, <1>4, <1>5, <1>6 DEF Next, Owner, Handler

\* In every reachable state of every session the invariant of the receiving
\* side holds (TcpSession.cpp:78-183, :206-258).
THEOREM RecvInvAlways == Spec => []RecvInv
  BY RecvInvInit, RecvInvNext, PTL DEF Spec

\* A session that is closed delivers one packet at most, that of the read
\* which had succeeded when it was closed (TcpSession.cpp:102, :142).
THEOREM AlwaysAtMostOneLate == Spec => []AtMostOneLateDelivery
<1>1. RecvInv => AtMostOneLateDelivery
  BY DEF RecvInv, LateOnce, AtMostOneLateDelivery
<1> QED
  BY <1>1, RecvInvAlways, PTL

\* No open session is idle for twice the timeout, whatever the timeout
\* (TcpSession.cpp:206-240).
THEOREM IdleAlwaysBelowTwice == Spec => []IdleBelowTwiceTimeout
<1>1. RecvInv => IdleBelowTwiceTimeout
  BY TimeoutIsPositive DEF RecvInv, RecvTypeOK, TimerBounds, IdleBelowTwiceTimeout, Started
<1> QED
  BY <1>1, RecvInvAlways, PTL

-----------------------------------------------------------------------------
(***************************************************************************)
(* The inbound budget.  What was delivered while the window was open is    *)
(* counted in m_inboundPacketsInWindow; a stretch that begins before the   *)
(* window did also meets the window before, and no other, for windows are  *)
(* restarted only when they are over.                                      *)
(***************************************************************************)

RateTypeOK ==
    /\ windowAge \in 0 .. InboundRateWindow
    /\ inboundPacketsInWindow \in 0 .. MaxInboundPacketsPerWindow
    /\ inboundBytesInWindow \in 0 .. MaxInboundBytesPerWindow
    /\ timerLeft \in 0 .. IdleTimeout /\ idleFor \in 0 .. 2 * IdleTimeout
    /\ recent \in [1 .. InboundRateWindow -> Nat]

\* What the window before the present one may add to the last k ticks.
Before(k) == IF k <= windowAge THEN 0 ELSE MaxInboundPacketsPerWindow

RecentIsCounted ==
    \A k \in 1 .. InboundRateWindow : recent[k] <= inboundPacketsInWindow + Before(k)

RateInv == RateTypeOK /\ RecentIsCounted

rateVars == <<timeVars, budgetVars, recent>>

LEMMA RateLimits ==
    /\ InboundRateWindow \in Nat \ {0} /\ MaxInboundPacketsPerWindow \in Nat \ {0}
    /\ MaxInboundBytesPerWindow \in Nat /\ HeaderSize \in Nat
    /\ 0 \in 0 .. IdleTimeout /\ IdleTimeout \in 0 .. IdleTimeout
    /\ 0 \in 0 .. 2 * IdleTimeout
  BY SessionLimits

LEMMA RateInvInit == Init => RateInv
<1> SUFFICES ASSUME Init PROVE RateInv
  OBVIOUS
<1>1. RateTypeOK
  BY RateLimits DEF Init, RateTypeOK
<1>2. RecentIsCounted
  BY RateLimits DEF Init, RecentIsCounted, Before
<1> QED
  BY <1>1, <1>2 DEF RateInv

LEMMA RateInvStutter == RateInv /\ UNCHANGED rateVars => RateInv'
  BY DEF RateInv, RateTypeOK, RecentIsCounted, Before, rateVars, timeVars, budgetVars

\* A step that touches neither the budget nor what was delivered.
LEMMA RateInvTimes ==
    ASSUME RateInv, UNCHANGED <<budgetVars, recent>>,
           timerLeft' = timerLeft \/ timerLeft' = IdleTimeout,
           idleFor' = idleFor \/ idleFor' = 0
    PROVE  RateInv'
<1>1. RateTypeOK'
  BY RateLimits DEF RateInv, RateTypeOK, budgetVars
<1> QED
  BY <1>1 DEF RateInv, RecentIsCounted, Before, budgetVars

\* The window in which a packet is counted: the open one, or a new one that has
\* the last one as the window before it.
LEMMA WindowRestarts ==
    ASSUME RateInv
    PROVE  /\ PacketsSoFar \in 0 .. MaxInboundPacketsPerWindow
           /\ BytesSoFar \in 0 .. MaxInboundBytesPerWindow
           /\ \A k \in 1 .. InboundRateWindow :
                recent[k] <= PacketsSoFar + (IF k <= (IF WindowOver THEN 0 ELSE windowAge)
                                             THEN 0 ELSE MaxInboundPacketsPerWindow)
<1>1. CASE WindowOver
  <2>1. ASSUME NEW k \in 1 .. InboundRateWindow
        PROVE  recent[k] <= MaxInboundPacketsPerWindow
    BY <1>1, <2>1, RateLimits DEF WindowOver, RateInv, RateTypeOK, RecentIsCounted, Before
  <2> QED
    BY <1>1, <2>1, RateLimits DEF PacketsSoFar, BytesSoFar
<1>2. CASE ~WindowOver
  BY <1>2 DEF PacketsSoFar, BytesSoFar, RateInv, RateTypeOK, RecentIsCounted, Before
<1> QED
  BY <1>1, <1>2

LEMMA RateInvTake ==
    ASSUME RateInv, NEW bytes \in Nat, TakePacket(bytes),
           timerLeft' = timerLeft, idleFor' = idleFor \/ idleFor' = 0
    PROVE  RateInv'
<1> DEFINE age == IF WindowOver THEN 0 ELSE windowAge
           more == IF HasInboundBudget(bytes) THEN 1 ELSE 0
<1>1. /\ windowAge' = age /\ inboundPacketsInWindow' = PacketsSoFar + more
      /\ inboundBytesInWindow' = BytesSoFar + (IF HasInboundBudget(bytes) THEN bytes ELSE 0)
  BY DEF TakePacket, TryConsumeInboundBudget
<1>2. /\ recent' \in [1 .. InboundRateWindow -> Nat]
      /\ \A k \in 1 .. InboundRateWindow : recent'[k] = recent[k] + more
  <2>1. recent \in [1 .. InboundRateWindow -> Nat]
    BY DEF RateInv, RateTypeOK
  <2>2. CASE HasInboundBudget(bytes)
    <3>1. recent' = [k \in 1 .. InboundRateWindow |-> recent[k] + 1] /\ more = 1
      BY <2>1, <2>2 DEF TakePacket
    <3> QED
      BY <2>1, <3>1
  <2>3. CASE ~HasInboundBudget(bytes)
    <3>1. recent' = recent /\ more = 0
      BY <2>3 DEF TakePacket, inVars
    <3> QED
      BY <2>1, <3>1
  <2> QED
    BY <2>2, <2>3
<1>3. /\ PacketsSoFar + more \in 0 .. MaxInboundPacketsPerWindow
      /\ inboundBytesInWindow' \in 0 .. MaxInboundBytesPerWindow
  BY <1>1, WindowRestarts, RateLimits DEF HasInboundBudget
<1>4. RateTypeOK'
  <2>1. age \in 0 .. InboundRateWindow /\ timerLeft \in 0 .. IdleTimeout
        /\ idleFor' \in 0 .. 2 * IdleTimeout
    BY RateLimits DEF RateInv, RateTypeOK
  <2> HIDE DEF age, more
  <2> QED
    BY <1>1, <1>2, <1>3, <2>1 DEF RateTypeOK
<1>5. RecentIsCounted'
  <2> SUFFICES ASSUME NEW k \in 1 .. InboundRateWindow
               PROVE  recent'[k] <= inboundPacketsInWindow' + Before(k)'
    BY DEF RecentIsCounted
  <2>1. Before(k)' = IF k <= age THEN 0 ELSE MaxInboundPacketsPerWindow
    BY <1>1 DEF Before
  <2>2. recent[k] <= PacketsSoFar + Before(k)'
    BY <2>1, WindowRestarts
  <2>3. recent[k] \in Nat /\ PacketsSoFar \in Nat /\ more \in Nat /\ Before(k)' \in Nat
    BY <2>1, WindowRestarts, RateLimits DEF RateInv, RateTypeOK
  <2> HIDE DEF more
  <2> QED
    BY <1>1, <1>2, <2>2, <2>3
<1> QED
  BY <1>4, <1>5 DEF RateInv

LEMMA RateInvTick ==
    ASSUME RateInv, Tick
    PROVE  RateInv'
<1>1. /\ timerLeft' = IF timer = "wait" THEN timerLeft - 1 ELSE timerLeft
      /\ timer = "wait" => timerLeft > 0
      /\ idleFor' = Older(idleFor, 2 * IdleTimeout)
      /\ windowAge' = Older(windowAge, InboundRateWindow)
      /\ UNCHANGED <<inboundPacketsInWindow, inboundBytesInWindow>>
      /\ recent' = [k \in 1 .. InboundRateWindow |-> IF k = 1 THEN 0 ELSE recent[k - 1]]
  BY DEF Tick
<1>2. timerLeft' \in 0 .. IdleTimeout /\ idleFor' \in 0 .. 2 * IdleTimeout
  BY <1>1, SessionLimits DEF RateInv, RateTypeOK, Older
<1>3. windowAge' \in 0 .. InboundRateWindow
  BY <1>1, RateLimits DEF RateInv, RateTypeOK, Older
<1>4. ASSUME NEW k \in 1 .. InboundRateWindow
      PROVE  /\ recent'[k] \in Nat
             /\ recent'[k] <= inboundPacketsInWindow' + Before(k)'
  <2>1. CASE k = 1
    BY <1>1, <2>1, RateLimits DEF Before, RateInv, RateTypeOK
  <2>2. CASE k # 1
    <3>1. k - 1 \in 1 .. InboundRateWindow /\ recent'[k] = recent[k - 1]
      BY <1>1, <2>2, RateLimits
    <3>2. recent[k - 1] <= inboundPacketsInWindow + Before(k - 1) /\ recent[k - 1] \in Nat
      BY <3>1 DEF RateInv, RateTypeOK, RecentIsCounted
    <3>3. Before(k - 1) <= Before(k)' /\ Before(k - 1) \in Nat /\ Before(k)' \in Nat
      BY <1>1, <2>2, RateLimits DEF Before, Older, RateInv, RateTypeOK
    <3> QED
      BY <1>1, <3>1, <3>2, <3>3 DEF RateInv, RateTypeOK
  <2> QED
    BY <2>1, <2>2
<1>5. recent' \in [1 .. InboundRateWindow -> Nat]
  BY <1>1, <1>4
<1> QED
  BY <1>1, <1>2, <1>3, <1>4, <1>5 DEF RateInv, RateTypeOK, RecentIsCounted

\* The length of a body that is being read is a number of bytes.
LEMMA RateInvReading ==
    ASSUME RateInv, RecvInv, ReadHeaderHandler \/ ReadBodyHandler
    PROVE  RateInv'
<1>1. timerLeft' = timerLeft /\ (idleFor' = idleFor \/ idleFor' = 0)
  BY DEF ReadHeaderHandler, ReadBodyHandler, timeVars
<1>2. HeaderSize \in Nat /\ HeaderSize + readOp.len \in Nat
  BY RateLimits DEF RecvInv, RecvTypeOK, ReadState
<1>3. CASE \E bytes \in Nat : TakePacket(bytes)
  BY <1>1, <1>3, RateInvTake
<1>4. CASE UNCHANGED <<budgetVars, recent>>
  BY <1>1, <1>4, RateInvTimes
<1> QED
  BY <1>2, <1>3, <1>4 DEF ReadHeaderHandler, ReadBodyHandler, inVars

LEMMA RateInvNext == RateInv /\ RecvInv /\ [Next]_vars => RateInv'
<1> SUFFICES ASSUME RateInv, RecvInv, [Next]_vars PROVE RateInv'
  OBVIOUS
<1>1. CASE Tick
  BY <1>1, RateInvTick
<1>2. CASE ReadHeaderHandler \/ ReadBodyHandler
  BY <1>2, RateInvReading
<1>3. CASE Start \/ CallbackReturns \/ TimerHandler
  BY <1>3, RateInvTimes DEF Start, CallbackReturns, TimerHandler, ArmIdleTimer, inVars, timeVars
<1>4. CASE Close \/ (\E bytes \in PacketSizes : Send(bytes)) \/ WriteHandler
  BY <1>4, RateInvStutter DEF Close, Send, WriteHandler, rateVars, inVars
<1>5. CASE PeerSends \/ ReadFails \/ WriteCompletes \/ WriteFails \/ TimerExpires
  BY <1>5, RateInvStutter
     DEF PeerSends, ReadFails, WriteCompletes, WriteFails, TimerExpires, rateVars, inVars
<1>6. CASE UNCHANGED vars
  BY <1>6, RateInvStutter DEF vars, rateVars, inVars
<1> QED
  BY <1>1, <1>2, <1>3, <1>4, <1>5, <1>6 DEF Next, Owner, Handler, Environment

\* In every reachable state the budget counts what the last ticks delivered
\* (TcpSession.cpp:253-272).
THEOREM RateInvAlways == Spec => []RateInv
  BY RateInvInit, RateInvNext, RecvInvAlways, PTL DEF Spec

\* No stretch as long as a window brings the owner more than twice the packets
\* of the budget, whatever the budget and the window (TcpSession.cpp:253-272).
THEOREM RateAlwaysBounded == Spec => []DeliveryRateBounded
<1>1. RateInv => DeliveryRateBounded
  <2> SUFFICES ASSUME RateInv PROVE DeliveryRateBounded
    OBVIOUS
  <2> DEFINE k == InboundRateWindow
  <2>1. k \in 1 .. InboundRateWindow
    BY RateLimits
  <2>2. recent[k] \in Nat /\ recent[k] <= inboundPacketsInWindow + Before(k)
    BY <2>1 DEF RateInv, RateTypeOK, RecentIsCounted
  <2>3. Before(k) \in 0 .. MaxInboundPacketsPerWindow
        /\ inboundPacketsInWindow \in 0 .. MaxInboundPacketsPerWindow
    BY RateLimits DEF Before, RateInv, RateTypeOK
  <2> QED
    BY <2>2, <2>3, RateLimits DEF DeliveryRateBounded
<1> QED
  BY <1>1, RateInvAlways, PTL

\* Every variable keeps its type.
LEMMA TypesTogether == SendInv /\ RecvInv /\ RateInv => TypeOK
<1> SUFFICES ASSUME SendInv, RecvInv, RateInv PROVE TypeOK
  OBVIOUS
<1>1. /\ accepted \in Nat /\ lateDeliveries \in Nat
      /\ readOp \in [op : {"none", "header", "body", "callback"},
                     st : {"wait", "ok", "err"}, len : Nat]
      /\ timer \in {"new", "wait", "expired", "aborted", "idle"}
  BY SessionLimits DEF SendInv, SendTypeOK, RecvInv, RecvTypeOK, ReadState
<1> QED
  BY <1>1 DEF TypeOK, SendInv, SendTypeOK, WriteOp, RateInv, RateTypeOK

\* m_writeQueueBytes is exactly what m_writeQ holds, and both keep to the
\* limits CheckWriteQueueBudget is for (TcpSession.cpp:242-250).
THEOREM QueueAlwaysAccounted == Spec => []QueueAccounted
<1>1. SendInv => QueueBytesExact
  BY DEF SendInv, QueueIsStreamEnd, GoodQueue, HeldBytes, QueueBytesExact
<1>2. SendInv => QueueWithinLimits
  BY DEF SendInv
<1>3. SendInv /\ RecvInv /\ RateInv => QueueAccounted
  BY <1>1, <1>2, TypesTogether DEF QueueAccounted
<1> QED
  BY <1>3, SendInvAlways, RecvInvAlways, RateInvAlways, PTL
=============================================================================
