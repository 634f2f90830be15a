---------------------------- MODULE ServerProofs ----------------------------
(***************************************************************************)
(* Proofs about TcpServer under any owner: the accept chain, the limit and *)
(* the map, and the order of the messages to a session.                    *)
(***************************************************************************)
EXTENDS ServerOwner, TcpServerProofs, SequenceTheorems

Entry == Message \cup {<<Handler>>}

(***************************************************************************)
(* What keeps messages in order.  c is what session sid has taken, s what  *)
(* waits on its strand, n how many messages there are.  Messages wait in   *)
(* the order they were sent in; what has been taken ahead of an earlier    *)
(* message, taken or still waiting, is a reply of the session's own.       *)
(***************************************************************************)
TakenInOrder(c, sid) ==
    \A i, j \in 1 .. Len(c) : (i < j /\ c[i][2] > c[j][2]) => c[i][3] = sid

TakenBeforeWaiting(c, s, sid) ==
    \A i \in 1 .. Len(c), j \in 1 .. Len(s) :
        (s[j] \in Message /\ c[i][2] > s[j][2]) => c[i][3] = sid

WaitingInOrder(s) ==
    \A i, j \in 1 .. Len(s) :
        (i < j /\ s[i] \in Message /\ s[j] \in Message) => s[i][2] <= s[j][2]

NumbersUpTo(c, n) ==
    \A i \in 1 .. Len(c) : c[i] \in Message => c[i][2] <= n

Ordered(c, s, sid, n) ==
    /\ TakenInOrder(c, sid) /\ TakenBeforeWaiting(c, s, sid) /\ WaitingInOrder(s)
    /\ NumbersUpTo(c, n) /\ NumbersUpTo(s, n)

OwnerInv ==
    /\ ServerInv
    /\ TypeOK
    /\ \A sid \in Sid : Ordered(carried[sid], strandQ[sid], sid, issued)

-----------------------------------------------------------------------------
(* Messages and the sequences of them.                                     *)

LEMMA MessageParts ==
    ASSUME NEW m \in Message
    PROVE  /\ m[1] = "message" /\ m[2] \in 1 .. LastMessage /\ m[3] \in 0 .. LastSid
           /\ m[2] \in Int /\ m # <<Handler>>
<1>1. PICK n \in 1 .. LastMessage, by \in 0 .. LastSid : m = <<"message", n, by>>
  BY DEF Message
<1> QED
  BY <1>1, MessageBound DEF Handler

LEMMA HandlerIsNoMessage == <<Handler>> \notin Message
  BY MessageParts

LEMMA EntryIsMessage ==
    ASSUME NEW e \in Entry, e[1] # Handler
    PROVE  e \in Message
  BY DEF Entry

\* A turn of a handler, or an entry that is dropped, leaves the tail.
LEMMA DropFirst ==
    ASSUME NEW c \in Seq(Message), NEW s \in Seq(Entry), s # <<>>, NEW sid, NEW n \in Nat,
           Ordered(c, s, sid, n)
    PROVE  Tail(s) \in Seq(Entry) /\ Ordered(c, Tail(s), sid, n)
<1>1. /\ Tail(s) \in Seq(Entry) /\ Len(Tail(s)) = Len(s) - 1 /\ Len(s) \in Nat
      /\ \A i \in 1 .. Len(Tail(s)) : Tail(s)[i] = s[i + 1]
  BY HeadTailProperties, LenProperties
<1> QED
  BY <1>1 DEF Ordered, TakenBeforeWaiting, WaitingInOrder, NumbersUpTo

LEMMA HandlerJoins ==
    ASSUME NEW c \in Seq(Message), NEW s \in Seq(Entry), NEW sid, NEW n \in Nat,
           Ordered(c, s, sid, n)
    PROVE  /\ Append(s, <<Handler>>) \in Seq(Entry)
           /\ Ordered(c, Append(s, <<Handler>>), sid, n)
<1> DEFINE t == Append(s, <<Handler>>)
<1>1. /\ t \in Seq(Entry) /\ Len(t) = Len(s) + 1 /\ Len(s) \in Nat
      /\ \A i \in 1 .. Len(s) : t[i] = s[i]
      /\ t[Len(s) + 1] \notin Message
  BY AppendProperties, LenProperties, HandlerIsNoMessage DEF Entry
<1> QED
  BY <1>1 DEF Ordered, TakenBeforeWaiting, WaitingInOrder, NumbersUpTo

LEMMA LaterNumbers ==
    ASSUME NEW c \in Seq(Entry), NEW n \in Nat, NumbersUpTo(c, n)
    PROVE  NumbersUpTo(c, n + 1)
<1>1. \A i \in 1 .. Len(c) : c[i] \in Message => c[i][2] \in Int
  BY MessageParts
<1> QED
  BY <1>1 DEF NumbersUpTo

LEMMA OneMoreNumber ==
    ASSUME NEW c \in Seq(Entry), NEW n \in Nat, NumbersUpTo(c, n), NEW m \in Message,
           NEW k \in Nat, n <= k, m[2] <= k
    PROVE  NumbersUpTo(Append(c, m), k)
<1> DEFINE d == Append(c, m)
<1>1. /\ Len(d) = Len(c) + 1 /\ Len(c) \in Nat
      /\ \A i \in 1 .. Len(c) : d[i] = c[i]
      /\ d[Len(c) + 1] = m
  BY AppendProperties, LenProperties DEF Entry
<1> HIDE DEF d
<1> SUFFICES ASSUME NEW i \in 1 .. Len(d), d[i] \in Message PROVE d[i][2] <= k
  BY DEF NumbersUpTo, d
<1>2. CASE i \in 1 .. Len(c)
  <2>1. d[i] = c[i] /\ c[i][2] <= n /\ c[i][2] \in Int
    BY <1>1, <1>2, MessageParts DEF NumbersUpTo
  <2> QED
    BY <2>1
<1>3. CASE i = Len(c) + 1
  BY <1>1, <1>3
<1> QED
  BY <1>1, <1>2, <1>3

LEMMA MessagesAreEntries == \A c \in Seq(Message) : c \in Seq(Entry)
  BY DEF Entry

\* A message that has to wait goes behind all others.
LEMMA MessageWaits ==
    ASSUME NEW c \in Seq(Message), NEW s \in Seq(Entry), NEW sid, NEW n \in Nat,
           Ordered(c, s, sid, n), NEW m \in Message, m[2] = n + 1
    PROVE  /\ Append(s, m) \in Seq(Entry)
           /\ Ordered(c, Append(s, m), sid, n + 1)
<1> DEFINE t == Append(s, m)
<1>1. /\ t \in Seq(Entry) /\ Len(t) = Len(s) + 1 /\ Len(s) \in Nat
      /\ \A i \in 1 .. Len(s) : t[i] = s[i]
      /\ t[Len(s) + 1] = m
  BY AppendProperties, LenProperties DEF Entry
<1>2. /\ \A i \in 1 .. Len(s) : s[i] \in Message => s[i][2] \in Int /\ s[i][2] <= n
      /\ \A i \in 1 .. Len(c) : c[i][2] \in Int /\ c[i][2] <= n
  BY MessageParts DEF Ordered, NumbersUpTo
<1> HIDE DEF t
<1>3. TakenBeforeWaiting(c, t, sid)
  <2> SUFFICES ASSUME NEW i \in 1 .. Len(c), NEW j \in 1 .. Len(t),
                      t[j] \in Message, c[i][2] > t[j][2]
               PROVE  c[i][3] = sid
    BY DEF TakenBeforeWaiting
  <2>1. CASE j = Len(s) + 1
    BY <2>1, <1>1, <1>2
  <2>2. CASE j \in 1 .. Len(s)
    BY <2>2, <1>1 DEF Ordered, TakenBeforeWaiting
  <2> QED
    BY <2>1, <2>2, <1>1
<1>4. WaitingInOrder(t)
  <2> SUFFICES ASSUME NEW i \in 1 .. Len(t), NEW j \in 1 .. Len(t), i < j,
                      t[i] \in Message, t[j] \in Message
               PROVE  t[i][2] <= t[j][2]
    BY DEF WaitingInOrder
  <2>1. i \in 1 .. Len(s)
    BY <1>1
  <2>2. CASE j = Len(s) + 1
    <3>1. s[i][2] \in Int /\ s[i][2] <= n
      BY <2>1, <1>1, <1>2
    <3> QED
      BY <2>1, <2>2, <3>1, <1>1
  <2>3. CASE j \in 1 .. Len(s)
    BY <2>1, <2>3, <1>1 DEF Ordered, WaitingInOrder
  <2> QED
    BY <2>2, <2>3, <1>1
<1>5. NumbersUpTo(t, n + 1) /\ NumbersUpTo(c, n + 1)
  BY OneMoreNumber, LaterNumbers, MessagesAreEntries DEF Ordered, t
<1> QED
  BY <1>1, <1>3, <1>4, <1>5 DEF Ordered, t

\* A message that is taken at once: nothing waits, or it is the session's own.
LEMMA MessageTaken ==
    ASSUME NEW c \in Seq(Message), NEW s \in Seq(Entry), NEW sid, NEW n \in Nat,
           Ordered(c, s, sid, n), NEW m \in Message, m[2] = n + 1,
           m[3] = sid \/ s = <<>>
    PROVE  /\ Append(c, m) \in Seq(Message)
           /\ Ordered(Append(c, m), s, sid, n + 1)
<1> DEFINE d == Append(c, m)
<1>1. /\ d \in Seq(Message) /\ Len(d) = Len(c) + 1 /\ Len(c) \in Nat
      /\ \A i \in 1 .. Len(c) : d[i] = c[i]
      /\ d[Len(c) + 1] = m
  BY AppendProperties, LenProperties
<1>2. /\ \A i \in 1 .. Len(s) : s[i] \in Message => s[i][2] \in Int /\ s[i][2] <= n
      /\ \A i \in 1 .. Len(c) : c[i][2] \in Int /\ c[i][2] <= n
  BY MessageParts DEF Ordered, NumbersUpTo
<1>3. s = <<>> => Len(s) = 0
  BY EmptySeq
<1> HIDE DEF d
<1>4. TakenInOrder(d, sid)
  <2> SUFFICES ASSUME NEW i \in 1 .. Len(d), NEW j \in 1 .. Len(d), i < j,
                      d[i][2] > d[j][2]
               PROVE  d[i][3] = sid
    BY DEF TakenInOrder
  <2>1. i \in 1 .. Len(c)
    BY <1>1
  <2>2. CASE j = Len(c) + 1
    <3>1. c[i][2] \in Int /\ c[i][2] <= n
      BY <2>1, <1>2
    <3> QED
      BY <2>1, <2>2, <3>1, <1>1
  <2>3. CASE j \in 1 .. Len(c)
    BY <2>1, <2>3, <1>1 DEF Ordered, TakenInOrder
  <2> QED
    BY <2>2, <2>3, <1>1
<1>5. TakenBeforeWaiting(d, s, sid)
  <2> SUFFICES ASSUME NEW i \in 1 .. Len(d), NEW j \in 1 .. Len(s),
                      s[j] \in Message, d[i][2] > s[j][2]
               PROVE  d[i][3] = sid
    BY DEF TakenBeforeWaiting
  <2>1. CASE i = Len(c) + 1
    BY <2>1, <1>1, <1>3
  <2>2. CASE i \in 1 .. Len(c)
    BY <2>2, <1>1 DEF Ordered, TakenBeforeWaiting
  <2> QED
    BY <2>1, <2>2, <1>1
<1>6. NumbersUpTo(d, n + 1) /\ NumbersUpTo(s, n + 1)
  BY OneMoreNumber, LaterNumbers, MessagesAreEntries DEF Ordered, d
<1> QED
  BY <1>1, <1>4, <1>5, <1>6 DEF Ordered, d

\* The first message that waits is taken.
LEMMA FirstIsTaken ==
    ASSUME NEW c \in Seq(Message), NEW s \in Seq(Entry), s # <<>>, NEW sid, NEW n \in Nat,
           Ordered(c, s, sid, n), Head(s) \in Message
    PROVE  /\ Append(c, Head(s)) \in Seq(Message)
           /\ Ordered(Append(c, Head(s)), Tail(s), sid, n)
<1> DEFINE d == Append(c, Head(s))
           t == Tail(s)
<1>1. /\ d \in Seq(Message) /\ Len(d) = Len(c) + 1 /\ Len(c) \in Nat
      /\ \A i \in 1 .. Len(c) : d[i] = c[i]
      /\ d[Len(c) + 1] = s[1]
  BY AppendProperties, LenProperties, HeadTailProperties
<1>2. /\ Len(t) = Len(s) - 1 /\ Len(s) \in Nat /\ 1 \in 1 .. Len(s)
      /\ \A i \in 1 .. Len(t) : t[i] = s[i + 1]
  BY HeadTailProperties, LenProperties, EmptySeq
<1>3. Head(s) = s[1]
  BY HeadTailProperties
<1>4. s[1] \in Message /\ s[1][2] <= n
  BY <1>2, HeadTailProperties DEF Ordered, NumbersUpTo
<1> HIDE DEF d, t
<1>5. TakenInOrder(d, sid)
  <2> SUFFICES ASSUME NEW i \in 1 .. Len(d), NEW j \in 1 .. Len(d), i < j,
                      d[i][2] > d[j][2]
               PROVE  d[i][3] = sid
    BY DEF TakenInOrder
  <2>1. i \in 1 .. Len(c)
    BY <1>1
  <2>2. CASE j = Len(c) + 1
    BY <2>1, <2>2, <1>1, <1>2, <1>4 DEF Ordered, TakenBeforeWaiting
  <2>3. CASE j \in 1 .. Len(c)
    BY <2>1, <2>3, <1>1 DEF Ordered, TakenInOrder
  <2>4. j \in 1 .. Len(c) \/ j = Len(c) + 1
    BY <1>1
  <2> QED
    BY <2>2, <2>3, <2>4
<1>6. TakenBeforeWaiting(d, t, sid)
  <2> SUFFICES ASSUME NEW i \in 1 .. Len(d), NEW j \in 1 .. Len(t),
                      t[j] \in Message, d[i][2] > t[j][2]
               PROVE  d[i][3] = sid
    BY DEF TakenBeforeWaiting
  <2>1. j + 1 \in 1 .. Len(s) /\ t[j] = s[j + 1] /\ 1 < j + 1
    BY <1>2
  <2>2. CASE i = Len(c) + 1
    <3>1. s[1][2] <= s[j + 1][2]
      BY <2>1, <1>2, <1>4 DEF Ordered, WaitingInOrder
    <3>2. s[1][2] \in Int /\ s[j + 1][2] \in Int
      BY <2>1, <1>4, MessageParts
    <3> QED
      BY <2>1, <2>2, <3>1, <3>2, <1>1
  <2>3. CASE i \in 1 .. Len(c)
    BY <2>1, <2>3, <1>1 DEF Ordered, TakenBeforeWaiting
  <2> QED
    BY <2>2, <2>3, <1>1
<1>7. WaitingInOrder(t)
  <2> SUFFICES ASSUME NEW i \in 1 .. Len(t), NEW j \in 1 .. Len(t), i < j,
                      t[i] \in Message, t[j] \in Message
               PROVE  t[i][2] <= t[j][2]
    BY DEF WaitingInOrder
  <2>1. /\ i + 1 \in 1 .. Len(s) /\ j + 1 \in 1 .. Len(s) /\ i + 1 < j + 1
        /\ t[i] = s[i + 1] /\ t[j] = s[j + 1]
    BY <1>2
  <2> QED
    BY <2>1 DEF Ordered, WaitingInOrder
<1>8. NumbersUpTo(d, n)
  BY <1>4, <1>3, OneMoreNumber, MessagesAreEntries DEF Ordered, d
<1>9. NumbersUpTo(t, n)
  BY <1>2 DEF Ordered, NumbersUpTo
<1> QED
  BY <1>1, <1>5, <1>6, <1>7, <1>8, <1>9 DEF Ordered, d, t

-----------------------------------------------------------------------------
(* The steps of the owner.                                                 *)

\* What a turn leaves on the strands is in order, and so are fewer entries.
LEMMA StrandsAfterOrdered ==
    ASSUME OwnerInv, NEW own \in Sid
    PROVE  /\ StrandsAfter(own) \in [Sid -> Seq(Entry)]
           /\ \A sid \in Sid : Ordered(carried[sid], StrandsAfter(own)[sid], sid, issued)
<1> DEFINE q == StrandsAfter(own)
<1>1. strandQ \in [Sid -> Seq(Entry)] /\ carried \in [Sid -> Seq(Message)] /\ issued \in Nat
  BY MessageBound DEF OwnerInv, TypeOK, Entry
<1>2. ASSUME NEW sid \in Sid
      PROVE  q[sid] \in Seq(Entry) /\ Ordered(carried[sid], q[sid], sid, issued)
  <2>1. q[sid] = IF sid = own /\ strandQ[own] # <<>> THEN Tail(strandQ[own]) ELSE strandQ[sid]
    BY <1>1 DEF StrandsAfter
  <2>2. /\ strandQ[sid] \in Seq(Entry) /\ carried[sid] \in Seq(Message)
        /\ Ordered(carried[sid], strandQ[sid], sid, issued)
    BY <1>1 DEF OwnerInv
  <2> HIDE DEF q
  <2> QED
    BY <1>1, <2>1, <2>2, DropFirst
<1>3. DOMAIN q = Sid /\ q = [sid \in Sid |-> q[sid]]
  BY <1>1 DEF StrandsAfter
<1> QED
  BY <1>2, <1>3

\* A message that is sent joins the order, wherever it is taken or waits.
LEMMA SendMessageInv ==
    ASSUME OwnerInv, running, NEW targets, NEW polled \in BOOLEAN, NEW own \in 0 .. LastSid,
           NEW q \in [Sid -> Seq(Entry)], NEW late \in SUBSET Sid,
           \A sid \in Sid : Ordered(carried[sid], q[sid], sid, issued),
           SendMessage(targets, polled, own, q, late)
    PROVE  OwnerInv'
<1> DEFINE m == <<"message", issued + 1, own>>
           batch == [sid \in Sid |-> IF sid \in targets THEN <<m>> ELSE <<>>]
           now == RunsAtOnce(polled, own, q)
<1>1. /\ issued < LastMessage /\ issued' = issued + 1
      /\ SendAll(batch, now, own, q, late) /\ Take(batch, now)
      /\ UNCHANGED <<running, acceptOp, nextSessionId>>
  BY DEF SendMessage
<1>2. issued \in Nat /\ issued + 1 \in 0 .. LastMessage /\ carried \in [Sid -> Seq(Message)]
  BY <1>1, MessageBound DEF OwnerInv, TypeOK
<1>3. m \in Message /\ m[2] = issued + 1 /\ m[3] = own
  BY <1>2 DEF Message
<1>4. ServerInv'
  BY <1>1, SendAllInv DEF OwnerInv
<1>5. ASSUME NEW sid \in Sid
      PROVE  /\ strandQ'[sid] \in Seq(Entry)
             /\ carried'[sid] \in Seq(Message)
             /\ Ordered(carried'[sid], strandQ'[sid], sid, issued')
  <2>1. /\ q[sid] \in Seq(Entry) /\ carried[sid] \in Seq(Message)
        /\ Ordered(carried[sid], q[sid], sid, issued)
    BY <1>2
  <2>2. Ordered(carried[sid], q[sid], sid, issued + 1)
    BY <1>2, <2>1, LaterNumbers, MessagesAreEntries DEF Ordered
  <2>3. /\ batch[sid] = IF sid \in targets THEN <<m>> ELSE <<>>
        /\ <<m>> # <<>>
    OBVIOUS
  <2>4. strandQ'[sid] = IF batch[sid] # <<>> /\ sid \notin now
                        THEN q[sid] \o batch[sid] ELSE q[sid]
    BY <1>1 DEF SendAll, Waiting
  <2>5. carried'[sid] = IF sid \in now /\ link'[sid] = "up"
                        THEN carried[sid] \o batch[sid] ELSE carried[sid]
    BY <1>1 DEF Take, Waiting
  <2>6. sid \in now => (own = sid \/ q[sid] = <<>>)
    BY DEF RunsAtOnce
  <2>7. /\ q[sid] \o <<m>> = Append(q[sid], m)
        /\ carried[sid] \o <<m>> = Append(carried[sid], m)
        /\ carried[sid] \o <<>> = carried[sid]
    BY <2>1, <1>3, AppendIsConcat, ConcatEmptySeq, MessagesAreEntries DEF Entry
  <2> HIDE DEF m, batch, now
  <2>8. CASE sid \notin targets \/ (sid \in now /\ link'[sid] # "up")
    BY <2>8, <1>1, <2>1, <2>2, <2>3, <2>4, <2>5, <2>7
  <2>9. CASE sid \in targets /\ sid \in now /\ link'[sid] = "up"
    BY <2>9, <1>1, <1>2, <1>3, <2>1, <2>3, <2>4, <2>5, <2>6, <2>7, MessageTaken
  <2>10. CASE sid \in targets /\ sid \notin now
    <3>1. strandQ'[sid] = Append(q[sid], m) /\ carried'[sid] = carried[sid]
      BY <2>10, <2>3, <2>4, <2>5, <2>7
    <3>2. /\ Append(q[sid], m) \in Seq(Entry)
          /\ Ordered(carried[sid], Append(q[sid], m), sid, issued + 1)
      BY <1>2, <1>3, <2>1, MessageWaits
    <3> QED
      BY <1>1, <2>1, <3>1, <3>2
  <2> QED
    BY <2>8, <2>9, <2>10
<1>6. /\ strandQ' = [sid \in Sid |-> strandQ'[sid]]
      /\ carried' = [sid \in Sid |-> carried'[sid]]
  BY <1>1 DEF SendAll, Take, Waiting
<1>7. strandQ' \in [Sid -> Seq(Entry)] /\ carried' \in [Sid -> Seq(Message)]
  BY <1>5, <1>6
<1>8. TypeOK'
  BY <1>1, <1>2, <1>4, <1>7 DEF TypeOK, ServerInv, Entry
<1> QED
  BY <1>4, <1>5, <1>8 DEF OwnerInv

LEMMA DisconnectOrder ==
    ASSUME OwnerInv, running, NEW sid \in Sid, OnPacketDisconnects(sid)
    PROVE  OwnerInv'
<1>1. strandQ' = StrandsAfter(sid) /\ UNCHANGED <<issued, carried>>
  BY DEF OnPacketDisconnects
<1>2. ServerInv'
  BY LateAfterSids, DisconnectInv DEF OnPacketDisconnects, OwnerInv
<1> QED
  BY <1>1, <1>2, StrandsAfterOrdered DEF OwnerInv, TypeOK, ServerInv, Entry

\* Steps of the strands that send nothing.
LEMMA QuietOrder ==
    ASSUME OwnerInv, UNCHANGED <<issued, carried>>, NEW sid \in Sid,
           HandlerWaits(sid) \/ LinkFails(sid) \/ QuietTurn(sid)
    PROVE  OwnerInv'
<1>1. ServerInv'
  BY HandlerWaitsInv, LinkFailsInv, QuietTurnInv DEF OwnerInv
<1>2. CASE LinkFails(sid) \/ QuietTurn(sid)
  <2>1. strandQ' = StrandsAfter(sid)
    BY <1>2 DEF LinkFails, QuietTurn
  <2> QED
    BY <1>1, <2>1, StrandsAfterOrdered DEF OwnerInv, TypeOK, ServerInv, Entry
<1>3. CASE HandlerWaits(sid)
  <2>1. strandQ' = [strandQ EXCEPT ![sid] = Append(@, <<Handler>>)]
    BY <1>3 DEF HandlerWaits
  <2>2. strandQ \in [Sid -> Seq(Entry)] /\ carried \in [Sid -> Seq(Message)] /\ issued \in Nat
    BY MessageBound DEF OwnerInv, TypeOK, Entry
  <2>3. /\ Append(strandQ[sid], <<Handler>>) \in Seq(Entry)
        /\ Ordered(carried[sid], Append(strandQ[sid], <<Handler>>), sid, issued)
    BY <2>2, HandlerJoins DEF OwnerInv
  <2>4. /\ strandQ' \in [Sid -> Seq(Entry)]
        /\ \A s \in Sid : strandQ'[s] = IF s = sid THEN Append(strandQ[sid], <<Handler>>)
                                                   ELSE strandQ[s]
    BY <2>1, <2>2, <2>3
  <2>5. \A s \in Sid : Ordered(carried[s], strandQ'[s], s, issued)
    BY <2>3, <2>4 DEF OwnerInv
  <2> QED
    BY <1>1, <2>4, <2>5 DEF OwnerInv, TypeOK, ServerInv, Entry
<1> QED
  BY <1>2, <1>3

\* A message that has waited is taken, or ends its session and is lost.
LEMMA DeferredOrder ==
    ASSUME OwnerInv, NEW own \in Sid, Deferred(own)
    PROVE  OwnerInv'
<1> DEFINE m == Head(strandQ[own])
           batch == [s \in Sid |-> IF s = own THEN <<m>> ELSE <<>>]
           q == StrandsAfter(own)
<1>1. /\ strandQ[own] # <<>> /\ m[1] # Handler
      /\ SendAll(batch, {own}, 0, q, lateReads) /\ Take(batch, {own})
      /\ issued' = issued
  BY DEF Deferred, RunStrand
<1>2. ServerInv'
  BY RunStrandInv DEF Deferred, OwnerInv
<1>3. /\ strandQ \in [Sid -> Seq(Entry)] /\ carried \in [Sid -> Seq(Message)]
      /\ issued \in Nat
  BY MessageBound DEF OwnerInv, TypeOK, Entry
<1>4. m \in Message
  BY <1>1, <1>3, HeadTailProperties, EntryIsMessage
<1>5. strandQ' = [s \in Sid |-> q[s]]
  BY <1>1 DEF SendAll, Waiting
<1>6. strandQ' = q
  BY <1>5, StrandsAfterOrdered
<1>7. q[own] = Tail(strandQ[own])
  BY <1>1, <1>3 DEF StrandsAfter
<1>8. ASSUME NEW sid \in Sid
      PROVE  carried'[sid] \in Seq(Message) /\ Ordered(carried'[sid], q[sid], sid, issued)
  <2>1. carried'[sid] = IF sid = own /\ link'[sid] = "up"
                        THEN carried[sid] \o batch[sid] ELSE carried[sid]
    BY <1>1 DEF Take, Waiting
  <2>2. carried[sid] \in Seq(Message) /\ Ordered(carried[sid], q[sid], sid, issued)
    BY <1>3, StrandsAfterOrdered
  <2>3. CASE sid = own /\ link'[sid] = "up"
    <3>1. batch[sid] = <<m>>
      BY <2>3
    <3>2. carried'[sid] = Append(carried[own], m)
      BY <2>1, <2>2, <2>3, <3>1, <1>4, AppendIsConcat
    <3>3. Ordered(carried[own], strandQ[own], own, issued)
      BY DEF OwnerInv
    <3> HIDE DEF batch, q
    <3>4. /\ Append(carried[own], m) \in Seq(Message)
          /\ Ordered(Append(carried[own], m), Tail(strandQ[own]), own, issued)
      BY <1>1, <1>3, <1>4, <3>3, FirstIsTaken
    <3> QED
      BY <2>3, <3>2, <3>4, <1>7
  <2>4. CASE ~(sid = own /\ link'[sid] = "up")
    BY <2>1, <2>2, <2>4
  <2> QED
    BY <2>3, <2>4
<1> HIDE DEF q, m, batch
<1>9. carried' = [s \in Sid |-> carried'[s]]
  BY <1>1 DEF Take, Waiting
<1>10. carried' \in [Sid -> Seq(Message)] /\ strandQ' \in [Sid -> Seq(Entry)]
  BY <1>6, <1>8, <1>9, StrandsAfterOrdered DEF q
<1>11. TypeOK'
  BY <1>1, <1>2, <1>10 DEF TypeOK, ServerInv, OwnerInv, Entry
<1> QED
  BY <1>1, <1>2, <1>6, <1>8, <1>11 DEF OwnerInv

\* Stop empties the strands.
LEMMA StopOrder == OwnerInv /\ Stop /\ UNCHANGED <<issued, carried>> => OwnerInv'
<1> SUFFICES ASSUME OwnerInv, Stop, UNCHANGED <<issued, carried>> PROVE OwnerInv'
  OBVIOUS
<1>1. ServerInv'
  BY StopServerInv DEF Stop, OwnerInv
<1>2. strandQ' = [sid \in Sid |-> <<>>]
  BY DEF Stop, StopServer
<1>3. TypeOK'
  BY <1>1, <1>2 DEF TypeOK, OwnerInv, ServerInv
<1>4. \A sid \in Sid : Ordered(carried[sid], <<>>, sid, issued)
  BY EmptySeq DEF OwnerInv, Ordered, TakenBeforeWaiting, WaitingInOrder, NumbersUpTo
<1> QED
  BY <1>1, <1>2, <1>3, <1>4 DEF OwnerInv

-----------------------------------------------------------------------------
(* The invariant and what follows from it.                                 *)

LEMMA InitOwnerInv == Init => OwnerInv
<1> SUFFICES ASSUME Init PROVE OwnerInv
  OBVIOUS
<1>1. ServerInv
  BY InitServerInv DEF Init
<1>2. /\ strandQ = [sid \in Sid |-> <<>>] /\ carried = [sid \in Sid |-> <<>>]
      /\ issued \in 0 .. LastMessage
  BY MessageBound DEF Init, ServerInit
<1>3. TypeOK
  BY <1>1, <1>2 DEF TypeOK, ServerInv
<1>4. \A sid \in Sid : Ordered(<<>>, <<>>, sid, issued)
  BY EmptySeq DEF Ordered, TakenInOrder, TakenBeforeWaiting, WaitingInOrder, NumbersUpTo
<1> QED
  BY <1>1, <1>2, <1>3, <1>4 DEF OwnerInv

LEMMA NextOwnerInv == OwnerInv /\ [Next]_vars => OwnerInv'
<1> SUFFICES ASSUME OwnerInv, [Next]_vars PROVE OwnerInv'
  OBVIOUS
<1>1. CASE UNCHANGED vars
  BY <1>1 DEF vars, serverVars, sessionVars, OwnerInv, TypeOK, ServerInv, ServerTypeOK,
     SessionLimitKept, AcceptingWhileRunning, ReportedLeaveTheMap, FindSession
<1>2. CASE /\ StartServer \/ Connect \/ (running /\ AcceptHandler)
           /\ UNCHANGED <<issued, carried>>
  <2>1. ServerInv'
    BY <1>2, StartServerInv, ConnectInv, AcceptHandlerInv DEF OwnerInv
  <2>2. strandQ' = strandQ
    BY <1>2 DEF StartServer, Connect, AcceptHandler, AddSession, sessionVars
  <2> QED
    BY <1>2, <2>1, <2>2 DEF OwnerInv, TypeOK, ServerInv
<1>3. CASE Stop /\ UNCHANGED <<issued, carried>>
  BY <1>3, StopOrder
<1>4. CASE Update
  <2>1. PICK targets : SendMessage(targets, FALSE, 0, strandQ, lateReads)
    BY <1>4 DEF Update
  <2>2. /\ strandQ \in [Sid -> Seq(Entry)] /\ lateReads \in SUBSET Sid /\ running
        /\ \A sid \in Sid : Ordered(carried[sid], strandQ[sid], sid, issued)
    BY <1>4 DEF Update, OwnerInv, TypeOK, ServerTypeOK, Entry
  <2>3. 0 \in 0 .. LastSid
    BY ServerBounds
  <2> QED
    BY <2>1, <2>2, <2>3, SendMessageInv
<1>5. ASSUME NEW sid \in Sid, OnPacketSends(sid) PROVE OwnerInv'
  <2>1. PICK targets : SendMessage(targets, TRUE, sid, StrandsAfter(sid), LateAfter(sid))
    BY <1>5 DEF OnPacketSends
  <2>2. running /\ sid \in 0 .. LastSid /\ LateAfter(sid) \in SUBSET Sid
    BY <1>5, LateAfterSids DEF OnPacketSends, HandlerTurn, Sid, OwnerInv
  <2> QED
    BY <2>1, <2>2, StrandsAfterOrdered, SendMessageInv
<1>6. ASSUME NEW sid \in Sid, OnPacketDisconnects(sid) PROVE OwnerInv'
  BY <1>6, DisconnectOrder DEF OnPacketDisconnects, HandlerTurn
<1>7. ASSUME NEW sid \in Sid, Deferred(sid) PROVE OwnerInv'
  BY <1>7, DeferredOrder
<1>8. ASSUME NEW sid \in Sid, HandlerWaits(sid) \/ LinkFails(sid) \/ QuietTurn(sid),
             UNCHANGED <<issued, carried>>
      PROVE  OwnerInv'
  BY <1>8, QuietOrder
<1> QED
  BY <1>1, <1>2, <1>3, <1>4, <1>5, <1>6, <1>7, <1>8 DEF Next

THEOREM OwnerInvAlways == Spec => []OwnerInv
  BY InitOwnerInv, NextOwnerInv, PTL DEF Spec

\* The variables keep their types under any owner.
THEOREM TypesAlwaysKept == Spec => []TypeOK
<1>1. OwnerInv => TypeOK
  BY DEF OwnerInv
<1> QED
  BY <1>1, OwnerInvAlways, PTL

\* The session map never outgrows the limit (TcpServer.cpp:90).
THEOREM SessionLimitAlwaysKept == Spec => []SessionLimitKept
<1>1. OwnerInv => SessionLimitKept
  BY DEF OwnerInv, ServerInv
<1> QED
  BY <1>1, OwnerInvAlways, PTL

\* A running server always has an accept pending (TcpServer.cpp:78-108).
THEOREM AlwaysAccepting == Spec => []AcceptingWhileRunning
<1>1. OwnerInv => AcceptingWhileRunning
  BY DEF OwnerInv, ServerInv
<1> QED
  BY <1>1, OwnerInvAlways, PTL

\* The map of a running server is exactly the sessions that have not reported
\* their end (TcpServer.cpp:135, 172-180).
THEOREM MapAlwaysExact == Spec => []ReportedLeaveTheMap
<1>1. OwnerInv => ReportedLeaveTheMap
  BY DEF OwnerInv, ServerInv
<1> QED
  BY <1>1, OwnerInvAlways, PTL

\* Messages reach the write queue of a session in the order they were sent in,
\* but for replies from the session's own handlers (TcpSession.cpp:50).
THEOREM OrderAlwaysKept == Spec => []OnlyOwnRepliesOvertake
<1>1. OwnerInv => OnlyOwnRepliesOvertake
  <2> SUFFICES ASSUME OwnerInv, NEW sid \in Sid, NEW i \in DOMAIN carried[sid],
                      NEW j \in DOMAIN carried[sid],
                      i < j, carried[sid][i][2] > carried[sid][j][2]
               PROVE  carried[sid][i][3] = sid
    BY DEF OnlyOwnRepliesOvertake
  <2>1. DOMAIN carried[sid] = 1 .. Len(carried[sid])
    BY LenProperties DEF OwnerInv, TypeOK
  <2> QED
    BY <2>1 DEF OwnerInv, Ordered, TakenInOrder
<1> QED
  BY <1>1, OwnerInvAlways, PTL
=============================================================================
