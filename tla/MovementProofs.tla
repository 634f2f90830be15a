--------------------------- MODULE MovementProofs ---------------------------
(***************************************************************************)
(* Proofs about MovementSync: what is on its way between client and server *)
(* is always in step with what either has counted.                         *)
(***************************************************************************)
EXTENDS MovementSync, SceneObjects, FiniteSetTheorems, TLAPS

\* The position of a player who did k inputs.
Counted(k) == (1 .. k) \ dropped

\* The entry is asked for once, and until the server has taken it up nothing
\* else is under way.
NotEntered == ~inWorld /\ ~hasLocal /\ toClient = <<>> /\ deferred = <<>>

EntersOnce ==
    /\ ~enterRequested => toServer = <<>> /\ NotEntered
    /\ \A i \in 1 .. Len(toServer) : toServer[i] = Enter => Len(toServer) = 1 /\ NotEntered

\* The spawn message is the first the client gets.
SpawnFirst ==
    /\ \A i \in 1 .. Len(toClient) : (toClient[i] = Spawn) <=> (i = 1 /\ ~hasLocal)
    /\ inWorld /\ ~hasLocal => toClient # <<>>
    /\ up /\ (hasLocal \/ toClient # <<>>) => inWorld
    /\ deferred # <<>> => inWorld
    /\ ~hasLocal => moveSequence = 0 /\ lastReceived = 0 /\ entities = {}
    /\ ~up => toServer = <<>> /\ deferred = <<>>

\* The server has counted the inputs up to the last that it did not drop ...
InputsCounted ==
    /\ lastProcessed <= moveSequence
    /\ dropped \subseteq 1 .. moveSequence
    /\ applied = Counted(lastProcessed)

\* ... those under way come after, and an acknowledgement names what was received ...
Follows(m) ==
    /\ m.kind = "move" => /\ m.n \in lastProcessed + 1 .. moveSequence
                          /\ m.n \notin dropped
                          /\ inWorld
    /\ m.kind = "ack" => m.n <= lastReceived

AllFollow == \A i \in 1 .. Len(toServer) : Follows(toServer[i])

\* ... in the order they were sent in ...
InputsInOrder ==
    \A i, j \in 1 .. Len(toServer) :
        i < j /\ toServer[i].kind = "move" /\ toServer[j].kind = "move"
            => toServer[i].n < toServer[j].n

\* ... and an input that is not among them was processed or dropped.
IsUnderWay(k) == \E i \in 1 .. Len(toServer) : toServer[i] = Move(k)

NoInputLost ==
    up => \A k \in lastProcessed + 1 .. moveSequence : k \in dropped \/ IsUnderWay(k)

\* A message to the client holds what the server had counted ...
Holds(m) ==
    /\ m.id \in lastReceived .. snapshots
    /\ m.processed \in 0 .. lastProcessed
    /\ m.pos = Counted(m.processed)
    /\ m.acked <= lastReceived
    /\ Local \in m.entities

AllHold ==
    /\ lastAcked <= lastReceived /\ lastReceived <= snapshots
    /\ \A i \in 1 .. Len(toClient) : Holds(toClient[i])
    /\ \A i \in 1 .. Len(deferred) : Holds(deferred[i])

\* ... and those under way arrive in the order they were made in.
Before(a, b) == a.id <= b.id /\ a.processed <= b.processed

InOrder(s) == \A i, j \in 1 .. Len(s) : i < j => Before(s[i], s[j])

SnapshotsOrdered ==
    /\ InOrder(toClient) /\ InOrder(deferred)
    /\ \A i \in 1 .. Len(toClient), j \in 1 .. Len(deferred) : Before(toClient[i], deferred[j])

\* The client has the position after some input p, and what came after is
\* pending; what is under way is not older.
ViewAfter(p) ==
    /\ p \in 0 .. lastProcessed
    /\ base = Counted(p)
    /\ pending = p + 1 .. moveSequence
    /\ \A i \in 1 .. Len(toClient) : p <= toClient[i].processed
    /\ \A i \in 1 .. Len(deferred) : p <= deferred[i].processed

ViewFits == \E p \in 0 .. MaxInputs : ViewAfter(p)

SyncInv ==
    /\ TypeOK
    /\ EntersOnce /\ SpawnFirst
    /\ InputsCounted /\ AllFollow /\ InputsInOrder /\ NoInputLost
    /\ AllHold /\ SnapshotsOrdered
    /\ ViewFits
    /\ Local \notin buffers

SyncStep ==
    /\ Reconciled \ Reconciled' \subseteq dropped
    /\ lastReceived' >= lastReceived

-----------------------------------------------------------------------------
(* Messages and sequences.                                                 *)

LEMMA Numbers ==
    ASSUME TypeOK
    PROVE  /\ lastProcessed \in Nat /\ lastAcked \in Nat /\ snapshots \in Nat
           /\ moveSequence \in Nat /\ lastReceived \in Nat
           /\ Len(toServer) \in Nat /\ Len(toClient) \in Nat /\ Len(deferred) \in Nat
  BY SyncBounds DEF TypeOK

LEMMA SnapshotFields ==
    ASSUME NEW m \in ToClient
    PROVE  /\ m.id \in 0 .. MaxSnapshots /\ m.acked \in 0 .. MaxSnapshots
           /\ m.processed \in 0 .. MaxInputs
           /\ m.pos \subseteq Input /\ m.entities \subseteq Others \cup {Local}
           /\ m # Spawn => m \in Snapshot
  BY SyncBounds DEF ToClient, Snapshot, Spawn

LEMMA SpawnIsNoSnapshot == Spawn \notin Snapshot
  BY DEF Spawn, Snapshot

LEMMA MessageKinds ==
    ASSUME NEW m \in ToServer
    PROVE  /\ m.kind \in {"enter", "move", "ack"} /\ m.n \in Nat
           /\ m.kind = "enter" <=> m = Enter
           /\ m.kind = "move" => m = Move(m.n) /\ m.n \in Input
           /\ m.kind = "ack" => m = Ack(m.n) /\ m.n \in 1 .. MaxSnapshots
  BY DEF ToServer, Enter, Move, Ack, Input

LEMMA Sendable ==
    /\ Enter \in ToServer /\ Enter.kind = "enter"
    /\ \A n \in Input : Move(n) \in ToServer /\ Move(n).kind = "move" /\ Move(n).n = n
    /\ \A id \in 1 .. MaxSnapshots : Ack(id) \in ToServer /\ Ack(id).kind = "ack" /\ Ack(id).n = id
    /\ \A n : Move(n) # Enter /\ Ack(n) # Enter
  BY DEF ToServer, Enter, Move, Ack

LEMMA AppendFacts ==
    ASSUME NEW S, NEW s \in Seq(S), NEW e \in S
    PROVE  /\ Append(s, e) \in Seq(S) /\ Len(Append(s, e)) = Len(s) + 1
           /\ \A i \in 1 .. Len(s) : Append(s, e)[i] = s[i]
           /\ Append(s, e)[Len(s) + 1] = e /\ Append(s, e) # <<>>
           /\ Len(s) \in Nat
  OBVIOUS

LEMMA ElementInSeq ==
    ASSUME NEW S, NEW s \in Seq(S), NEW i \in 1 .. Len(s)
    PROVE  s[i] \in S
  OBVIOUS

LEMMA TailFacts ==
    ASSUME NEW S, NEW s \in Seq(S), s # <<>>
    PROVE  /\ Tail(s) \in Seq(S) /\ Len(Tail(s)) = Len(s) - 1
           /\ \A i \in 1 .. Len(Tail(s)) : Tail(s)[i] = s[i + 1] /\ i + 1 \in 1 .. Len(s)
           /\ Head(s) = s[1] /\ Head(s) \in S /\ 1 \in 1 .. Len(s)
           /\ Len(s) \in Nat
  OBVIOUS

LEMMA PrefixFacts ==
    ASSUME NEW S, NEW s \in Seq(S), NEW k \in 0 .. Len(s)
    PROVE  /\ SubSeq(s, 1, k) \in Seq(S) /\ Len(SubSeq(s, 1, k)) = k
           /\ \A i \in 1 .. k : SubSeq(s, 1, k)[i] = s[i] /\ i \in 1 .. Len(s)
  OBVIOUS

-----------------------------------------------------------------------------
(* Initial states.                                                         *)

LEMMA InitInv == Init => SyncInv
<1> SUFFICES ASSUME Init PROVE SyncInv
  OBVIOUS
<1>1. TypeOK
  <2>1. up \in BOOLEAN /\ inWorld \in BOOLEAN /\ enterRequested \in BOOLEAN /\ hasLocal \in BOOLEAN
    BY DEF Init
  <2>2. toServer \in Seq(ToServer) /\ deferred \in Seq(Snapshot) /\ toClient \in Seq(ToClient)
    BY DEF Init
  <2>3. 0 \in 0 .. MaxInputs /\ 0 \in 0 .. MaxSnapshots /\ 0 \in 0 .. MaxDrops
    BY SyncBounds
  <2> QED
    BY <2>1, <2>2, <2>3 DEF Init, TypeOK
<1>2. EntersOnce /\ SpawnFirst
  BY DEF Init, EntersOnce, NotEntered, SpawnFirst
<1>3. InputsCounted /\ AllFollow /\ InputsInOrder /\ NoInputLost
  BY DEF Init, InputsCounted, Counted, AllFollow, InputsInOrder, NoInputLost
<1>4. AllHold /\ SnapshotsOrdered
  BY DEF Init, AllHold, SnapshotsOrdered, InOrder
<1>5. ViewAfter(0) /\ 0 \in 0 .. MaxInputs
  BY SyncBounds DEF Init, ViewAfter, Counted
<1> QED
  BY <1>1, <1>2, <1>3, <1>4, <1>5 DEF SyncInv, ViewFits, Init

-----------------------------------------------------------------------------
(* The client.                                                             *)

LEMMA RequestEnterKeeps ==
    ASSUME SyncInv, RequestEnter
    PROVE  SyncInv' /\ SyncStep
<1>1. /\ up /\ toServer = <<>> /\ NotEntered
      /\ toServer' = Append(<<>>, Enter) /\ enterRequested' = TRUE
      /\ UNCHANGED <<up, deferred, toClient, serverVars, dropVars, moveSequence, viewVars, pending>>
  BY DEF RequestEnter, Sent, Asked, SyncInv, EntersOnce
<1>2. toServer' \in Seq(ToServer) /\ Len(toServer') = 1 /\ toServer'[1] = Enter
  BY <1>1, Sendable
<1>3. moveSequence = 0 /\ lastProcessed = 0
  BY <1>1, Numbers DEF NotEntered, SyncInv, SpawnFirst, InputsCounted
<1>4. TypeOK'
  BY <1>1, <1>2 DEF SyncInv, TypeOK, serverVars, playerVars, dropVars, viewVars
<1>5. EntersOnce' /\ SpawnFirst'
  BY <1>1, <1>2
     DEF SyncInv, EntersOnce, NotEntered, SpawnFirst, serverVars, playerVars, dropVars, viewVars
<1>6. InputsCounted' /\ NoInputLost'
  BY <1>1, <1>3 DEF SyncInv, InputsCounted, Counted, NoInputLost, serverVars, playerVars, dropVars
<1>7. AllFollow' /\ InputsInOrder'
  BY <1>2, Sendable DEF AllFollow, Follows, InputsInOrder
<1>8. AllHold' /\ SnapshotsOrdered'
  BY <1>1 DEF SyncInv, AllHold, Holds, Counted, SnapshotsOrdered, InOrder, Before, serverVars,
              playerVars, dropVars, viewVars
<1>9. ViewFits' /\ Local \notin buffers'
  BY <1>1 DEF SyncInv, ViewFits, ViewAfter, Counted, serverVars, playerVars, dropVars, viewVars
<1>10. SyncStep
  BY <1>1, Numbers DEF SyncInv, SyncStep, Reconciled, viewVars
<1> QED
  BY <1>4, <1>5, <1>6, <1>7, <1>8, <1>9, <1>10 DEF SyncInv

LEMMA SendInputKeeps ==
    ASSUME SyncInv, SendInput
    PROVE  SyncInv' /\ SyncStep
<1> DEFINE k == moveSequence + 1
<1>1. /\ hasLocal /\ k \in Input /\ k \in 1 .. MaxInputs
      /\ moveSequence' = k /\ toServer' = Sent(Move(k)) /\ pending' = pending \cup {k}
      /\ UNCHANGED <<up, deferred, toClient, serverVars, dropVars, enterRequested, viewVars>>
  BY Numbers, SyncBounds DEF SendInput, SyncInv, Input
<1>2. toServer \in Seq(ToServer) /\ Move(k) \in ToServer
  BY <1>1, Sendable DEF SyncInv, TypeOK
<1>3. /\ up => /\ Len(toServer') = Len(toServer) + 1
               /\ toServer'[Len(toServer) + 1] = Move(k) /\ inWorld
      /\ ~up => Len(toServer') = Len(toServer)
      /\ \A i \in 1 .. Len(toServer) : toServer'[i] = toServer[i]
      /\ toServer' \in Seq(ToServer) /\ Len(toServer) \in Nat
      /\ ~up => toServer' = <<>>
  BY <1>1, <1>2, AppendFacts DEF Sent, SyncInv, SpawnFirst
<1>4. TypeOK'
  <2>1. pending' \subseteq Input /\ moveSequence' \in 0 .. MaxInputs
    BY <1>1 DEF SyncInv, TypeOK
  <2> QED
    BY <1>1, <1>3, <2>1 DEF SyncInv, TypeOK, serverVars, playerVars, dropVars, viewVars
<1>5. enterRequested /\ \A i \in 1 .. Len(toServer) : toServer[i] # Enter
  BY <1>1 DEF SyncInv, EntersOnce, NotEntered
<1>6. EntersOnce' /\ SpawnFirst'
  <2>1. \A i \in 1 .. Len(toServer') : toServer'[i] # Enter
    BY <1>3, <1>5, Sendable
  <2> QED
    BY <1>1, <1>3, <1>5, <2>1
       DEF SyncInv, EntersOnce, SpawnFirst, serverVars, playerVars, dropVars, viewVars
<1>7. Counted(lastProcessed)' = Counted(lastProcessed)
  BY <1>1 DEF Counted, serverVars, playerVars, dropVars
<1>8. InputsCounted'
  BY <1>1, <1>7, Numbers DEF SyncInv, InputsCounted, serverVars, playerVars, dropVars
<1>9. lastProcessed <= moveSequence /\ k \notin dropped /\ k \in lastProcessed + 1 .. k
  BY Numbers DEF SyncInv, InputsCounted
<1>10. AllFollow'
  <2>1. ASSUME NEW m, Follows(m)
        PROVE  Follows(m)'
    BY <1>1, <2>1, Numbers
       DEF SyncInv, Follows, serverVars, playerVars, dropVars, viewVars
  <2>2. ASSUME up, NEW m, m = Move(k)
        PROVE  Follows(m)'
    <3>1. m.kind = "move" /\ m.n = k
      BY <1>1, <2>2, Sendable
    <3> QED
      BY <1>1, <1>3, <1>9, <2>2, <3>1 DEF Follows, serverVars, playerVars, dropVars
  <2>3. ASSUME NEW i \in 1 .. Len(toServer')
        PROVE  Follows(toServer[i])'
    <3>1. CASE i \in 1 .. Len(toServer)
      BY <1>3, <2>1, <3>1 DEF SyncInv, AllFollow, Follows
    <3>2. CASE i \notin 1 .. Len(toServer)
      <4>1. up /\ toServer'[i] = Move(k)
        BY <1>3, <2>3, <3>2
      <4> QED
        BY <2>2, <4>1 DEF Follows
    <3> QED
      BY <3>1, <3>2
  <2> QED
    BY <2>3 DEF AllFollow
<1>11. InputsInOrder'
  <2>1. \A i \in 1 .. Len(toServer) : toServer[i].kind = "move" => toServer[i].n < k
    BY Numbers DEF SyncInv, AllFollow, Follows
  <2>2. ASSUME NEW i \in 1 .. Len(toServer'), NEW j \in 1 .. Len(toServer'), i < j,
               toServer'[i].kind = "move", toServer'[j].kind = "move"
        PROVE  toServer'[i].n < toServer'[j].n
    <3>1. i \in 1 .. Len(toServer) /\ toServer'[i] = toServer[i]
      BY <1>3, <2>2
    <3>2. CASE j \in 1 .. Len(toServer)
      BY <1>3, <2>2, <3>1, <3>2 DEF SyncInv, InputsInOrder
    <3>3. CASE j \notin 1 .. Len(toServer)
      <4>1. toServer'[j] = Move(k)
        BY <1>3, <2>2, <3>3
      <4> QED
        BY <1>1, <2>1, <2>2, <3>1, <4>1, Sendable
    <3> QED
      BY <3>2, <3>3
  <2> QED
    BY <2>2 DEF InputsInOrder
<1>12. NoInputLost'
  <2>1. ASSUME up, NEW n \in lastProcessed + 1 .. k
        PROVE  n \in dropped \/ \E i \in 1 .. Len(toServer') : toServer'[i] = Move(n)
    <3>1. CASE n = k
      <4>1. Len(toServer) + 1 \in 1 .. Len(toServer') /\ toServer'[Len(toServer) + 1] = Move(n)
        BY <1>3, <2>1, <3>1
      <4> QED
        BY <4>1
    <3>2. CASE n # k
      <4>1. n \in lastProcessed + 1 .. moveSequence
        BY <2>1, <3>2, Numbers DEF SyncInv
      <4>2. n \in dropped \/ \E i \in 1 .. Len(toServer) : toServer[i] = Move(n)
        BY <2>1, <4>1 DEF SyncInv, NoInputLost, IsUnderWay
      <4>3. ASSUME NEW i \in 1 .. Len(toServer), toServer[i] = Move(n)
            PROVE  i \in 1 .. Len(toServer') /\ toServer'[i] = Move(n)
        BY <1>3, <2>1, <4>3
      <4> QED
        BY <4>2, <4>3
    <3> QED
      BY <3>1, <3>2
  <2> QED
    BY <1>1, <2>1 DEF NoInputLost, IsUnderWay, serverVars, playerVars, dropVars
<1>13. AllHold' /\ SnapshotsOrdered'
  BY <1>1 DEF SyncInv, AllHold, Holds, Counted, SnapshotsOrdered, InOrder, Before, serverVars,
              playerVars, dropVars, viewVars
<1>14. ViewFits' /\ SyncStep
  <2>1. PICK p \in 0 .. MaxInputs : ViewAfter(p)
    BY DEF SyncInv, ViewFits
  <2>2. p + 1 .. k = (p + 1 .. moveSequence) \cup {k}
    BY <1>9, <2>1, Numbers DEF SyncInv, ViewAfter
  <2>3. ViewAfter(p)'
    BY <1>1, <2>1, <2>2
       DEF ViewAfter, Counted, serverVars, playerVars, dropVars, viewVars
  <2>4. SyncStep
    BY <1>1, Numbers DEF SyncInv, SyncStep, Reconciled, viewVars
  <2> QED
    BY <2>3, <2>4 DEF ViewFits
<1> QED
  BY <1>1, <1>4, <1>6, <1>8, <1>10, <1>11, <1>12, <1>13, <1>14 DEF SyncInv, viewVars

\* What the messages behind the first one have in common with it.
LEMMA BehindTheFirst ==
    ASSUME SyncInv, toClient # <<>>, toClient' = Tail(toClient)
    PROVE  /\ toClient' \in Seq(ToClient) /\ Len(toClient') = Len(toClient) - 1
           /\ Head(toClient) = toClient[1] /\ Head(toClient) \in ToClient
           /\ Holds(Head(toClient)) /\ 1 \in 1 .. Len(toClient) /\ Len(toClient) \in Nat
           /\ (Head(toClient) = Spawn) <=> ~hasLocal
           /\ \A i \in 1 .. Len(toClient') : /\ i + 1 \in 1 .. Len(toClient)
                                             /\ toClient'[i] = toClient[i + 1]
                                             /\ Before(Head(toClient), toClient'[i])
                                             /\ toClient'[i] # Spawn
           /\ \A i \in 1 .. Len(deferred) : Before(Head(toClient), deferred[i])
           /\ deferred' = deferred => SnapshotsOrdered'
<1>1. toClient \in Seq(ToClient)
  BY DEF SyncInv, TypeOK
<1>2. /\ toClient' \in Seq(ToClient) /\ Len(toClient') = Len(toClient) - 1
      /\ Head(toClient) = toClient[1] /\ Head(toClient) \in ToClient
      /\ 1 \in 1 .. Len(toClient) /\ Len(toClient) \in Nat
      /\ \A i \in 1 .. Len(toClient') : i + 1 \in 1 .. Len(toClient) /\ toClient'[i] = toClient[i + 1]
  BY <1>1, TailFacts
<1>3. Holds(Head(toClient)) /\ ((Head(toClient) = Spawn) <=> ~hasLocal)
  BY <1>2 DEF SyncInv, AllHold, SpawnFirst
<1>4. ASSUME NEW i \in 1 .. Len(toClient')
      PROVE  Before(Head(toClient), toClient'[i]) /\ toClient'[i] # Spawn
  <2>1. i + 1 \in 1 .. Len(toClient) /\ toClient'[i] = toClient[i + 1] /\ 1 < i + 1
    BY <1>2, <1>4
  <2> QED
    BY <1>2, <2>1 DEF SyncInv, SnapshotsOrdered, InOrder, SpawnFirst
<1>5. \A i \in 1 .. Len(deferred) : Before(Head(toClient), deferred[i])
  BY <1>2 DEF SyncInv, SnapshotsOrdered
<1>6. ASSUME deferred' = deferred
      PROVE  SnapshotsOrdered'
  <2>1. ASSUME NEW i \in 1 .. Len(toClient'), NEW j \in 1 .. Len(toClient'), i < j
        PROVE  Before(toClient'[i], toClient'[j])
    <3>1. i + 1 \in 1 .. Len(toClient) /\ j + 1 \in 1 .. Len(toClient) /\ i + 1 < j + 1
      BY <1>2, <2>1
    <3> QED
      BY <1>2, <3>1 DEF SyncInv, SnapshotsOrdered, InOrder
  <2>2. \A i \in 1 .. Len(toClient'), j \in 1 .. Len(deferred) : Before(toClient'[i], deferred[j])
    BY <1>2 DEF SyncInv, SnapshotsOrdered
  <2> QED
    BY <1>6, <2>1, <2>2 DEF SyncInv, SnapshotsOrdered, InOrder, Before
<1> QED
  BY <1>2, <1>3, <1>4, <1>5, <1>6

LEMMA SpawnKeeps ==
    ASSUME SyncInv, ClientReceives, Head(toClient) = Spawn
    PROVE  SyncInv' /\ SyncStep
<1>1. /\ toClient # <<>> /\ toClient' = Tail(toClient)
      /\ hasLocal' = TRUE /\ base' = {} /\ entities' = entities \cup {Local}
      /\ UNCHANGED <<up, toServer, deferred, buffers, lastReceived, pending, serverVars, dropVars,
                     sendVars>>
  BY DEF ClientReceives, PublishLocalPlayerSpawn
<1>2. ~hasLocal /\ (up => inWorld) /\ moveSequence = 0 /\ lastProcessed = 0 /\ enterRequested
  BY <1>1, BehindTheFirst, Numbers DEF SyncInv, SpawnFirst, InputsCounted, EntersOnce, NotEntered
<1>3. TypeOK'
  <2>1. toClient' \in Seq(ToClient)
    BY <1>1, BehindTheFirst
  <2>2. hasLocal' \in BOOLEAN
    BY <1>1
  <2> QED
    BY <1>1, <2>1, <2>2 DEF SyncInv, TypeOK, serverVars, playerVars, dropVars, sendVars
<1>4. EntersOnce'
  BY <1>1, <1>2 DEF SyncInv, EntersOnce, NotEntered, sendVars
<1>5. SpawnFirst'
  <2>1. \A i \in 1 .. Len(toClient') : toClient'[i] # Spawn
    BY <1>1, BehindTheFirst
  <2> QED
    BY <1>1, <1>2, <2>1 DEF SyncInv, SpawnFirst, serverVars, playerVars, sendVars
<1>6. InputsCounted' /\ AllFollow' /\ InputsInOrder' /\ NoInputLost'
  BY <1>1 DEF SyncInv, InputsCounted, Counted, AllFollow, Follows, InputsInOrder, NoInputLost,
              IsUnderWay, serverVars, playerVars, dropVars, sendVars
<1>7. AllHold'
  <2>1. \A m : Holds(m) => Holds(m)'
    BY <1>1 DEF Holds, Counted, serverVars, playerVars, dropVars
  <2>2. \A i \in 1 .. Len(toClient') : Holds(toClient'[i])
    BY <1>1, BehindTheFirst DEF SyncInv, AllHold
  <2> QED
    BY <1>1, <2>1, <2>2 DEF SyncInv, AllHold, Holds, serverVars
<1>8. SnapshotsOrdered'
  BY <1>1, BehindTheFirst
<1>9. ViewFits'
  <2>1. PICK p \in 0 .. MaxInputs : ViewAfter(p)
    BY DEF SyncInv, ViewFits
  <2>2. p = 0
    BY <1>2, <2>1 DEF ViewAfter
  <2>3. \A i \in 1 .. Len(toClient') : p <= toClient'[i].processed
    BY <1>1, <2>1, BehindTheFirst DEF ViewAfter
  <2>4. ViewAfter(p)'
    BY <1>1, <1>2, <2>1, <2>2, <2>3
       DEF ViewAfter, Counted, serverVars, playerVars, dropVars, sendVars
  <2> QED
    BY <2>4 DEF ViewFits
<1>10. SyncStep
  <2>1. base = {}
    BY <1>2 DEF SyncInv, ViewFits, ViewAfter, Counted
  <2> QED
    BY <1>1, <2>1, Numbers DEF SyncInv, SyncStep, Reconciled
<1> QED
  BY <1>1, <1>3, <1>4, <1>5, <1>6, <1>7, <1>8, <1>9, <1>10 DEF SyncInv

LEMMA SnapshotKeeps ==
    ASSUME SyncInv, ClientReceives, Head(toClient) # Spawn
    PROVE  SyncInv' /\ SyncStep
<1> DEFINE m == Head(toClient)
<1>1. /\ toClient # <<>> /\ toClient' = Tail(toClient)
      /\ toServer' = Sent(Ack(m.id)) /\ lastReceived' = m.id
      /\ UNCHANGED <<up, hasLocal, deferred, serverVars, dropVars, sendVars>>
  BY DEF ClientReceives, PublishWorldSnapshot, AckOf
<1>2. hasLocal /\ Holds(m) /\ m \in Snapshot
  BY <1>1, BehindTheFirst, SnapshotFields
<1>3. /\ base' = m.pos /\ pending' = {n \in pending : n > m.processed}
      /\ buffers' = {e \in m.entities : e # Local} /\ entities' = m.entities
  BY <1>1, <1>2 DEF ClientReceives, PublishWorldSnapshot, Pruned, Merged, IsLocal, Holds
<1>4. /\ m.id \in lastReceived .. snapshots /\ m.id \in 1 .. MaxSnapshots
      /\ m.processed \in 0 .. lastProcessed /\ m.processed \in 0 .. MaxInputs
      /\ m.pos = Counted(m.processed) /\ m.pos \subseteq Input
      /\ m.entities \subseteq Others \cup {Local}
  BY <1>2 DEF Holds, Snapshot
<1> HIDE DEF m
<1>5. /\ up => Len(toServer') = Len(toServer) + 1 /\ toServer'[Len(toServer) + 1] = Ack(m.id)
      /\ ~up => Len(toServer') = Len(toServer)
      /\ \A i \in 1 .. Len(toServer) : toServer'[i] = toServer[i]
      /\ toServer' \in Seq(ToServer) /\ Len(toServer) \in Nat
      /\ ~up => toServer' = <<>>
      /\ Ack(m.id).kind = "ack" /\ Ack(m.id).n = m.id /\ Ack(m.id) # Enter
  <2>1. toServer \in Seq(ToServer) /\ Ack(m.id) \in ToServer
    BY <1>4, Sendable DEF SyncInv, TypeOK
  <2> QED
    BY <1>1, <1>4, <2>1, AppendFacts, Sendable DEF Sent, SyncInv, SpawnFirst
<1>6. TypeOK'
  <2>1. toClient' \in Seq(ToClient)
    BY <1>1, BehindTheFirst
  <2>2. /\ pending' \subseteq Input /\ base' \subseteq Input
        /\ entities' \subseteq Others \cup {Local} /\ buffers' \subseteq Others \cup {Local}
        /\ lastReceived' \in 0 .. MaxSnapshots
    BY <1>1, <1>3, <1>4 DEF SyncInv, TypeOK
  <2> QED
    BY <1>1, <1>5, <2>1, <2>2 DEF SyncInv, TypeOK, serverVars, playerVars, dropVars, sendVars
<1>7. EntersOnce' /\ SpawnFirst'
  <2>1. enterRequested /\ \A i \in 1 .. Len(toServer) : toServer[i] # Enter
    BY <1>2 DEF SyncInv, EntersOnce, NotEntered
  <2>2. \A i \in 1 .. Len(toServer') : toServer'[i] # Enter
    BY <1>5, <2>1
  <2>3. \A i \in 1 .. Len(toClient') : toClient'[i] # Spawn
    BY <1>1, BehindTheFirst
  <2>4. EntersOnce'
    BY <1>1, <2>1, <2>2 DEF EntersOnce, sendVars
  <2> QED
    BY <1>1, <1>2, <1>5, <2>3, <2>4 DEF SyncInv, SpawnFirst, serverVars, playerVars, sendVars
<1>8. InputsCounted'
  BY <1>1 DEF SyncInv, InputsCounted, Counted, serverVars, playerVars, dropVars, sendVars
<1>9. AllFollow'
  <2>1. ASSUME NEW msg \in ToServer, Follows(msg)
        PROVE  Follows(msg)'
    <3>1. msg.n \in Nat
      BY <2>1, MessageKinds
    <3> QED
      BY <1>1, <1>4, <2>1, <3>1, Numbers
         DEF SyncInv, Follows, serverVars, playerVars, dropVars, sendVars
  <2>2. toServer \in Seq(ToServer)
    BY DEF SyncInv, TypeOK
  <2>3. ASSUME NEW i \in 1 .. Len(toServer')
        PROVE  Follows(toServer[i])'
    <3>1. CASE i \in 1 .. Len(toServer)
      <4>1. toServer[i] \in ToServer /\ Follows(toServer[i]) /\ toServer'[i] = toServer[i]
        BY <1>5, <2>2, <3>1 DEF SyncInv, AllFollow
      <4> QED
        BY <2>1, <4>1 DEF Follows
    <3>2. CASE i \notin 1 .. Len(toServer)
      <4>1. toServer'[i] = Ack(m.id)
        BY <1>5, <2>3, <3>2
      <4> QED
        BY <1>1, <1>4, <1>5, <4>1, Numbers DEF SyncInv, Follows
    <3> QED
      BY <3>1, <3>2
  <2> QED
    BY <2>3 DEF AllFollow
<1>10. InputsInOrder' /\ NoInputLost'
  <2>1. ASSUME NEW i \in 1 .. Len(toServer'), toServer'[i].kind = "move"
        PROVE  i \in 1 .. Len(toServer) /\ toServer'[i] = toServer[i]
    BY <1>5, <2>1
  <2>2. InputsInOrder'
    BY <2>1 DEF SyncInv, InputsInOrder
  <2>3. \A i \in 1 .. Len(toServer) : i \in 1 .. Len(toServer') /\ toServer'[i] = toServer[i]
    BY <1>5
  <2>4. NoInputLost'
    BY <1>1, <2>3 DEF SyncInv, NoInputLost, IsUnderWay, serverVars, playerVars, dropVars, sendVars
  <2> QED
    BY <2>2, <2>4
<1>11. AllHold' /\ SnapshotsOrdered'
  <2>1. ASSUME NEW s \in ToClient, Holds(s), Before(m, s)
        PROVE  Holds(s)'
    <3>1. s.id \in Nat /\ s.acked \in Nat
      BY SnapshotFields
    <3> QED
      BY <1>1, <1>4, <2>1, <3>1, Numbers
         DEF SyncInv, Holds, Before, Counted, serverVars, playerVars, dropVars
  <2>2. ASSUME NEW i \in 1 .. Len(toClient')
        PROVE  Holds(toClient[i])'
    <3>1. toClient'[i] \in ToClient /\ Holds(toClient'[i]) /\ Before(m, toClient'[i])
      BY <1>1, <2>2, BehindTheFirst, ElementInSeq DEF SyncInv, AllHold, m
    <3> QED
      BY <2>1, <3>1 DEF Holds
  <2>3. ASSUME NEW i \in 1 .. Len(deferred)
        PROVE  Holds(deferred[i])'
    <3>1. deferred[i] \in ToClient /\ Holds(deferred[i]) /\ Before(m, deferred[i])
      BY <1>1, <2>3, BehindTheFirst DEF SyncInv, AllHold, m, TypeOK, ToClient
    <3> QED
      BY <1>1, <2>1, <3>1 DEF Holds
  <2>4. lastAcked' <= lastReceived' /\ lastReceived' <= snapshots'
    BY <1>1, <1>4, Numbers DEF SyncInv, AllHold, serverVars
  <2> QED
    BY <1>1, <2>2, <2>3, <2>4, BehindTheFirst DEF AllHold
<1>12. ViewFits' /\ SyncStep
  <2>1. PICK p \in 0 .. MaxInputs : ViewAfter(p)
    BY DEF SyncInv, ViewFits
  <2>2. p \in Nat /\ p <= m.processed
    BY <1>1, <2>1, BehindTheFirst DEF ViewAfter, m
  <2>3. pending' = m.processed + 1 .. moveSequence
    BY <1>3, <1>4, <2>1, <2>2, Numbers DEF SyncInv, ViewAfter
  <2>4. \A i \in 1 .. Len(toClient') : m.processed <= toClient'[i].processed
    BY <1>1, BehindTheFirst DEF m, Before
  <2>5. \A i \in 1 .. Len(deferred) : m.processed <= deferred[i].processed
    BY <1>1, BehindTheFirst DEF m, Before
  <2>6. ASSUME NEW q, q = m.processed
        PROVE  ViewAfter(q)'
    BY <1>1, <1>3, <1>4, <2>3, <2>4, <2>5, <2>6
       DEF ViewAfter, Counted, serverVars, playerVars, dropVars, sendVars
  <2>7. Reconciled \ Reconciled' \subseteq dropped
    <3>1. base = (1 .. p) \ dropped /\ pending = p + 1 .. moveSequence
      BY <2>1 DEF ViewAfter, Counted
    <3>2. base' = (1 .. m.processed) \ dropped
      BY <1>3, <1>4 DEF Counted
    <3> QED
      BY <1>4, <2>2, <2>3, <3>1, <3>2, Numbers DEF SyncInv, Reconciled
  <2>8. lastReceived' >= lastReceived
    BY <1>1, <1>4, Numbers DEF SyncInv
  <2> QED
    BY <1>4, <2>6, <2>7, <2>8 DEF ViewFits, SyncStep
<1>13. Local \notin buffers'
  BY <1>3
<1> QED
  BY <1>6, <1>7, <1>8, <1>9, <1>10, <1>11, <1>12, <1>13 DEF SyncInv

-----------------------------------------------------------------------------
(* The server reads or drops what comes first.                             *)

LEMMA BehindTheRead ==
    ASSUME SyncInv, toServer # <<>>, toServer' = Tail(toServer)
    PROVE  /\ up
           /\ toServer' \in Seq(ToServer) /\ Len(toServer') = Len(toServer) - 1
           /\ Head(toServer) = toServer[1] /\ Head(toServer) \in ToServer
           /\ Follows(Head(toServer)) /\ 1 \in 1 .. Len(toServer) /\ Len(toServer) \in Nat
           /\ \A i \in 1 .. Len(toServer') :
                 /\ i + 1 \in 1 .. Len(toServer) /\ toServer'[i] = toServer[i + 1]
                 /\ toServer'[i] \in ToServer /\ Follows(toServer'[i])
                 /\ toServer'[i] # Enter
                 /\ Head(toServer).kind = "move" /\ toServer'[i].kind = "move"
                       => Head(toServer).n < toServer'[i].n
           /\ InputsInOrder'
           /\ \A k : IsUnderWay(k)
                       => Head(toServer) = Move(k)
                          \/ \E i \in 1 .. Len(toServer') : toServer'[i] = Move(k)
<1>1. toServer \in Seq(ToServer)
  BY DEF SyncInv, TypeOK
<1>2. /\ toServer' \in Seq(ToServer) /\ Len(toServer') = Len(toServer) - 1
      /\ Head(toServer) = toServer[1] /\ Head(toServer) \in ToServer
      /\ 1 \in 1 .. Len(toServer) /\ Len(toServer) \in Nat
      /\ \A i \in 1 .. Len(toServer') : i + 1 \in 1 .. Len(toServer) /\ toServer'[i] = toServer[i + 1]
  BY <1>1, TailFacts
<1>3. up /\ Follows(Head(toServer))
  BY <1>2 DEF SyncInv, SpawnFirst, AllFollow
<1>4. ASSUME NEW i \in 1 .. Len(toServer')
      PROVE  /\ toServer'[i] \in ToServer /\ Follows(toServer'[i]) /\ toServer'[i] # Enter
             /\ Head(toServer).kind = "move" /\ toServer'[i].kind = "move"
                   => Head(toServer).n < toServer'[i].n
  <2>1. /\ i + 1 \in 1 .. Len(toServer) /\ toServer'[i] = toServer[i + 1] /\ 1 < i + 1
        /\ Len(toServer) # 1
    BY <1>2, <1>4
  <2> QED
    BY <1>1, <1>2, <2>1, ElementInSeq DEF SyncInv, AllFollow, EntersOnce, InputsInOrder
<1>5. InputsInOrder'
  <2>1. ASSUME NEW i \in 1 .. Len(toServer'), NEW j \in 1 .. Len(toServer'), i < j,
               toServer'[i].kind = "move", toServer'[j].kind = "move"
        PROVE  toServer'[i].n < toServer'[j].n
    <3>1. i + 1 \in 1 .. Len(toServer) /\ j + 1 \in 1 .. Len(toServer) /\ i + 1 < j + 1
      BY <1>2, <2>1
    <3> QED
      BY <1>2, <2>1, <3>1 DEF SyncInv, InputsInOrder
  <2> QED
    BY <2>1 DEF InputsInOrder
<1>6. ASSUME NEW k, IsUnderWay(k)
      PROVE  Head(toServer) = Move(k) \/ \E i \in 1 .. Len(toServer') : toServer'[i] = Move(k)
  <2>1. PICK i \in 1 .. Len(toServer) : toServer[i] = Move(k)
    BY <1>6 DEF IsUnderWay
  <2>2. CASE i = 1
    BY <1>2, <2>1, <2>2
  <2>3. CASE i # 1
    <3>1. i - 1 \in 1 .. Len(toServer') /\ (i - 1) + 1 = i
      BY <1>2, <2>3
    <3>2. toServer'[i - 1] = Move(k)
      BY <1>2, <2>1, <3>1
    <3> QED
      BY <3>1, <3>2
  <2> QED
    BY <2>2, <2>3
<1> QED
  BY <1>2, <1>3, <1>4, <1>5, <1>6

\* What follows from reading or dropping one message, when the server's state
\* and the inputs it dropped change as the message says.
LEMMA ReadKeepsClient ==
    ASSUME SyncInv, toServer # <<>>, toServer' = Tail(toServer), clientVars' = clientVars,
           UNCHANGED <<up, deferred, toClient, inWorld, snapshots>>
    PROVE  EntersOnce' /\ SpawnFirst' /\ Local \notin buffers'
<1>1. /\ UNCHANGED <<enterRequested, hasLocal, moveSequence, lastReceived, entities, buffers>>
      /\ enterRequested /\ up
  BY BehindTheRead DEF clientVars, sendVars, viewVars, SyncInv, EntersOnce
<1>2. \A i \in 1 .. Len(toServer') : toServer'[i] # Enter
  BY BehindTheRead
<1>3. EntersOnce'
  BY <1>1, <1>2 DEF EntersOnce
<1> QED
  BY <1>1, <1>3 DEF SyncInv, SpawnFirst

LEMMA MoveKeeps ==
    ASSUME SyncInv, ServerReceives, HandleMoveInput
    PROVE  SyncInv' /\ SyncStep
<1> DEFINE n == Head(toServer).n
<1>1. /\ toServer # <<>> /\ toServer' = Tail(toServer) /\ Head(toServer).kind = "move"
      /\ UNCHANGED <<up, deferred, toClient, inWorld, lastAcked, snapshots, here, drops, dropped>>
      /\ clientVars' = clientVars
  BY DEF ServerReceives, HandleMoveInput, dropVars
<1>2. /\ enterRequested' = enterRequested /\ hasLocal' = hasLocal /\ moveSequence' = moveSequence
      /\ UNCHANGED <<pending, base, entities, buffers, lastReceived>>
  BY <1>1 DEF clientVars, sendVars, viewVars
<1>3. /\ n \in lastProcessed + 1 .. moveSequence /\ n \notin dropped /\ inWorld /\ up
      /\ n \in Input /\ n \in 0 .. MaxInputs /\ Head(toServer) = Move(n)
  BY <1>1, BehindTheRead, MessageKinds DEF Follows, Input
<1> HIDE DEF n
<1>4. n > lastProcessed
  BY <1>3, Numbers DEF SyncInv
<1>5. applied' = applied \cup {n} /\ lastProcessed' = n
  BY <1>1, <1>3, <1>4 DEF HandleMoveInput, IsNew, n
<1>6. TypeOK'
  BY <1>1, <1>2, <1>3, <1>5, BehindTheRead DEF SyncInv, TypeOK
<1>7. EntersOnce' /\ SpawnFirst' /\ Local \notin buffers'
  BY <1>1, ReadKeepsClient
<1>8. \A k \in lastProcessed + 1 .. n - 1 : k \in dropped
  <2>1. ASSUME NEW k \in lastProcessed + 1 .. n - 1, k \notin dropped
        PROVE  FALSE
    <3>1. k \in lastProcessed + 1 .. moveSequence /\ k < n
      BY <1>3, <2>1, Numbers DEF SyncInv
    <3>2. k \in Input
      BY <1>3, <2>1, Numbers, SyncBounds DEF SyncInv, Input
    <3>3. IsUnderWay(k)
      BY <1>3, <2>1, <3>1 DEF SyncInv, NoInputLost
    <3>4. Head(toServer) # Move(k)
      BY <1>3, <3>1 DEF Move
    <3>5. PICK i \in 1 .. Len(toServer') : toServer'[i] = Move(k)
      BY <1>1, <3>3, <3>4, BehindTheRead
    <3>6. n < k
      BY <1>1, <3>2, <3>5, BehindTheRead, Sendable DEF n
    <3> QED
      BY <3>1, <3>6, <1>3
  <2> QED
    BY <2>1
<1>9. InputsCounted'
  <2>1. (1 .. n) \ dropped = ((1 .. lastProcessed) \ dropped) \cup {n}
    BY <1>3, <1>4, <1>8, Numbers DEF SyncInv
  <2> QED
    BY <1>1, <1>2, <1>3, <1>5, <2>1, Numbers DEF SyncInv, InputsCounted, Counted
<1>10. AllFollow'
  <2>1. ASSUME NEW m \in ToServer, Follows(m), m.kind = "move" => n < m.n
        PROVE  Follows(m)'
    <3>1. m.n \in Nat
      BY <2>1, MessageKinds
    <3> QED
      BY <1>1, <1>2, <1>3, <1>5, <2>1, <3>1, Numbers DEF SyncInv, Follows
  <2>2. ASSUME NEW i \in 1 .. Len(toServer')
        PROVE  Follows(toServer[i])'
    <3>1. /\ toServer'[i] \in ToServer /\ Follows(toServer'[i])
          /\ toServer'[i].kind = "move" => n < toServer'[i].n
      BY <1>1, <2>2, BehindTheRead DEF n
    <3> QED
      BY <2>1, <3>1 DEF Follows
  <2> QED
    BY <2>2 DEF AllFollow
<1>11. InputsInOrder' /\ NoInputLost'
  <2>1. ASSUME NEW k \in n + 1 .. moveSequence, k \notin dropped
        PROVE  \E i \in 1 .. Len(toServer') : toServer'[i] = Move(k)
    <3>1. k \in lastProcessed + 1 .. moveSequence
      BY <1>3, <2>1, Numbers DEF SyncInv
    <3>2. IsUnderWay(k)
      BY <1>3, <2>1, <3>1 DEF SyncInv, NoInputLost
    <3>3. Head(toServer) # Move(k)
      BY <1>3, <2>1 DEF Move
    <3> QED
      BY <1>1, <3>2, <3>3, BehindTheRead
  <2>2. NoInputLost'
    BY <1>1, <1>2, <1>5, <2>1 DEF NoInputLost, IsUnderWay
  <2> QED
    BY <1>1, <2>2, BehindTheRead
<1>12. AllHold' /\ SnapshotsOrdered'
  <2>1. ASSUME NEW m, Holds(m)
        PROVE  Holds(m)'
    BY <1>1, <1>2, <1>3, <1>5, <2>1, Numbers DEF SyncInv, Holds, Counted
  <2>2. AllHold'
    BY <1>1, <1>2, <2>1 DEF SyncInv, AllHold, Holds
  <2> QED
    BY <1>1, <2>2 DEF SyncInv, SnapshotsOrdered, InOrder
<1>13. ViewFits' /\ SyncStep
  <2>1. PICK p \in 0 .. MaxInputs : ViewAfter(p)
    BY DEF SyncInv, ViewFits
  <2>2. ViewAfter(p)'
    <3>1. p \in 0 .. n
      BY <1>3, <1>4, <2>1, Numbers DEF SyncInv, ViewAfter
    <3> QED
      BY <1>1, <1>2, <1>5, <2>1, <3>1 DEF ViewAfter, Counted
  <2> QED
    BY <1>2, <2>2, Numbers DEF SyncInv, ViewFits, SyncStep, Reconciled
<1> QED
  BY <1>6, <1>7, <1>9, <1>10, <1>11, <1>12, <1>13 DEF SyncInv

\* An acknowledgement or a dropped message: nothing is processed.
LEMMA NotProcessedKeeps ==
    ASSUME SyncInv, toServer # <<>>, toServer' = Tail(toServer), clientVars' = clientVars,
           UNCHANGED <<up, deferred, toClient, inWorld, applied, lastProcessed, snapshots, here>>,
           lastAcked' \in 0 .. MaxSnapshots, lastAcked' <= lastReceived,
           drops' \in 0 .. MaxDrops,
           dropped' = IF Head(toServer).kind = "move"
                      THEN dropped \cup {Head(toServer).n} ELSE dropped
    PROVE  SyncInv' /\ SyncStep
<1>1. /\ UNCHANGED <<enterRequested, hasLocal, moveSequence, pending, base, entities, buffers,
                     lastReceived>>
      /\ up
  BY BehindTheRead DEF clientVars, sendVars, viewVars
<1>2. PICK new \in SUBSET (lastProcessed + 1 .. moveSequence) :
        /\ dropped' = dropped \cup new /\ new \subseteq Input
        /\ Head(toServer).kind = "move" => new = {Head(toServer).n}
        /\ Head(toServer).kind # "move" => new = {}
  <2>1. CASE Head(toServer).kind = "move"
    <3>1. Head(toServer).n \in lastProcessed + 1 .. moveSequence /\ Head(toServer).n \in Input
      BY <2>1, BehindTheRead, MessageKinds DEF Follows
    <3> QED
      BY <2>1, <3>1
  <2>2. CASE Head(toServer).kind # "move"
    BY <2>2
  <2> QED
    BY <2>1, <2>2
<1>3. TypeOK'
  <2>1. toServer' \in Seq(ToServer)
    BY BehindTheRead
  <2>2. dropped' \subseteq Input
    BY <1>2 DEF SyncInv, TypeOK
  <2> QED
    BY <1>1, <2>1, <2>2 DEF SyncInv, TypeOK
<1>4. EntersOnce' /\ SpawnFirst' /\ Local \notin buffers'
  BY ReadKeepsClient
<1>5. \A k \in 0 .. lastProcessed : (1 .. k) \ dropped' = (1 .. k) \ dropped
  BY <1>2, Numbers DEF SyncInv
<1>6. InputsCounted'
  <2>1. lastProcessed \in 0 .. lastProcessed
    BY Numbers DEF SyncInv
  <2>2. applied' = (1 .. lastProcessed) \ dropped'
    <3>1. applied' = (1 .. lastProcessed) \ dropped
      BY DEF SyncInv, InputsCounted, Counted
    <3>2. (1 .. lastProcessed) \ dropped' = (1 .. lastProcessed) \ dropped
      BY <1>5, <2>1
    <3> QED
      BY <3>1, <3>2
  <2>3. dropped' \subseteq 1 .. moveSequence
    <3>1. lastProcessed + 1 .. moveSequence \subseteq 1 .. moveSequence
      BY Numbers DEF SyncInv
    <3>2. new \subseteq 1 .. moveSequence
      BY <1>2, <3>1
    <3> QED
      BY <1>2, <3>2 DEF SyncInv, InputsCounted
  <2> QED
    BY <1>1, <2>2, <2>3 DEF SyncInv, InputsCounted, Counted
<1>7. AllFollow'
  <2>1. ASSUME NEW m \in ToServer, Follows(m),
               Head(toServer).kind = "move" /\ m.kind = "move" => Head(toServer).n < m.n
        PROVE  Follows(m)'
    <3>1. m.n \in Nat /\ Head(toServer).n \in Nat
      BY <2>1, MessageKinds, BehindTheRead
    <3>2. m.kind = "move" => m.n \notin dropped'
      BY <1>2, <2>1, <3>1 DEF Follows
    <3> QED
      BY <1>1, <2>1, <3>2 DEF Follows
  <2>2. ASSUME NEW i \in 1 .. Len(toServer')
        PROVE  Follows(toServer[i])'
    <3>1. /\ toServer'[i] \in ToServer /\ Follows(toServer'[i])
          /\ Head(toServer).kind = "move" /\ toServer'[i].kind = "move"
                => Head(toServer).n < toServer'[i].n
      BY <2>2, BehindTheRead
    <3> QED
      BY <2>1, <3>1 DEF Follows
  <2> QED
    BY <2>2 DEF AllFollow
<1>8. InputsInOrder' /\ NoInputLost'
  <2>1. ASSUME NEW k \in lastProcessed + 1 .. moveSequence, k \notin dropped'
        PROVE  \E i \in 1 .. Len(toServer') : toServer'[i] = Move(k)
    <3>1. IsUnderWay(k)
      BY <1>1, <1>2, <2>1 DEF SyncInv, NoInputLost
    <3>2. Head(toServer) # Move(k)
      BY <1>2, <2>1 DEF Move
    <3> QED
      BY <3>1, <3>2, BehindTheRead
  <2>2. NoInputLost'
    BY <1>1, <2>1 DEF NoInputLost, IsUnderWay
  <2> QED
    BY <2>2, BehindTheRead
<1>9. AllHold' /\ SnapshotsOrdered'
  <2>1. ASSUME NEW m, Holds(m)
        PROVE  Holds(m)'
    BY <1>1, <1>5, <2>1 DEF Holds, Counted
  <2>2. AllHold'
    BY <1>1, <2>1 DEF SyncInv, AllHold, Holds
  <2> QED
    BY <2>2 DEF SyncInv, SnapshotsOrdered, InOrder
<1>10. ViewFits' /\ SyncStep
  <2>1. PICK p \in 0 .. MaxInputs : ViewAfter(p)
    BY DEF SyncInv, ViewFits
  <2>2. ViewAfter(p)'
    BY <1>1, <1>5, <2>1 DEF ViewAfter, Counted
  <2> QED
    BY <1>1, <2>2, Numbers DEF SyncInv, ViewFits, SyncStep, Reconciled
<1> QED
  BY <1>3, <1>4, <1>6, <1>7, <1>8, <1>9, <1>10 DEF SyncInv

LEMMA AckKeeps ==
    ASSUME SyncInv, ServerReceives, HandleAckSnapshot
    PROVE  SyncInv' /\ SyncStep
<1>1. /\ toServer # <<>> /\ toServer' = Tail(toServer) /\ Head(toServer).kind = "ack"
      /\ UNCHANGED <<up, deferred, toClient, inWorld, applied, lastProcessed, snapshots, here,
                     drops, dropped>>
      /\ clientVars' = clientVars
      /\ lastAcked' \in {lastAcked, Head(toServer).n}
  BY DEF ServerReceives, HandleAckSnapshot, playerVars, dropVars
<1>2. Head(toServer).n <= lastReceived /\ Head(toServer).n \in 0 .. MaxSnapshots
  BY <1>1, BehindTheRead, MessageKinds DEF Follows
<1>3. /\ lastAcked' \in 0 .. MaxSnapshots /\ lastAcked' <= lastReceived
      /\ drops' \in 0 .. MaxDrops
  BY <1>1, <1>2 DEF SyncInv, TypeOK, AllHold
<1> QED
  BY <1>1, <1>3, NotProcessedKeeps

LEMMA DropKeeps ==
    ASSUME SyncInv, ServerDrops
    PROVE  SyncInv' /\ SyncStep
<1>1. /\ toServer # <<>> /\ toServer' = Tail(toServer) /\ clientVars' = clientVars
      /\ UNCHANGED <<up, deferred, toClient, inWorld, applied, lastProcessed, lastAcked, snapshots,
                     here>>
      /\ dropped' = IF Head(toServer).kind = "move"
                    THEN dropped \cup {Head(toServer).n} ELSE dropped
  BY DEF ServerDrops, serverVars, playerVars
<1>2. drops' \in 0 .. MaxDrops
  BY SyncBounds DEF ServerDrops, SyncInv, TypeOK
<1>3. lastAcked' \in 0 .. MaxSnapshots /\ lastAcked' <= lastReceived
  BY <1>1 DEF SyncInv, TypeOK, AllHold
<1> QED
  BY <1>1, <1>2, <1>3, NotProcessedKeeps

-----------------------------------------------------------------------------
(* The server answers the entry, and tells of the world.                   *)

LEMMA EnterKeeps ==
    ASSUME SyncInv, ServerReceives, HandleEnterWorld
    PROVE  SyncInv' /\ SyncStep
<1>1. /\ toServer # <<>> /\ toServer' = Tail(toServer) /\ Head(toServer) = Enter
      /\ snapshots < MaxSnapshots /\ snapshots' = snapshots + 1
      /\ inWorld' = TRUE /\ applied' = {} /\ toClient' = toClient \o EnterReply
      /\ UNCHANGED <<up, deferred, lastProcessed, lastAcked, here, drops, dropped>>
      /\ UNCHANGED <<enterRequested, moveSequence, hasLocal, base, entities, buffers, lastReceived,
                     pending>>
  BY DEF ServerReceives, HandleEnterWorld, dropVars, clientVars, sendVars, viewVars
<1>2. /\ NotEntered /\ enterRequested /\ up /\ Len(toServer) = 1
  BY <1>1, BehindTheRead DEF SyncInv, EntersOnce
<1>3. toServer' \in Seq(ToServer) /\ Len(toServer') = 0 /\ toServer' = <<>>
  BY <1>1, <1>2, BehindTheRead
<1>4. /\ moveSequence = 0 /\ lastReceived = 0 /\ entities = {} /\ lastProcessed = 0 /\ lastAcked = 0
      /\ ~hasLocal /\ deferred = <<>> /\ toClient = <<>>
  BY <1>2, Numbers DEF SyncInv, NotEntered, SpawnFirst, InputsCounted, AllHold
<1> DEFINE first == SnapshotNow({}, here)
<1>5. /\ first \in Snapshot /\ first.id = snapshots + 1 /\ first.processed = 0 /\ first.pos = {}
      /\ first.acked = 0 /\ Local \in first.entities
  <2>1. /\ snapshots + 1 \in 1 .. MaxSnapshots /\ lastAcked \in 0 .. MaxSnapshots
        /\ lastProcessed \in 0 .. MaxInputs /\ here \cup {Local} \subseteq Others \cup {Local}
    BY <1>1, Numbers, SyncBounds DEF SyncInv, TypeOK
  <2> QED
    BY <1>4, <2>1 DEF SnapshotNow, Snapshot
<1>6. first \in ToClient /\ Spawn \in ToClient /\ first # Spawn
  BY <1>5, SpawnIsNoSnapshot DEF ToClient
<1>7. toClient' = <<Spawn, first>>
  BY <1>1, <1>4 DEF EnterReply
<1> HIDE DEF first
<1>8. /\ toClient' \in Seq(ToClient) /\ Len(toClient') = 2
      /\ toClient'[1] = Spawn /\ toClient'[2] = first /\ toClient' # <<>>
  BY <1>6, <1>7
<1>15. /\ deferred' = <<>> /\ 1 .. Len(deferred') = {} /\ 1 .. Len(toServer') = {}
       /\ 1 .. Len(toClient') = {1, 2}
  <2>1. 1 .. 0 = {} /\ 1 .. 2 = {1, 2} /\ Len(<<>>) = 0
    OBVIOUS
  <2>2. deferred' = <<>>
    BY <1>1, <1>4
  <2> QED
    BY <1>3, <1>8, <2>1, <2>2
<1>9. TypeOK'
  <2>1. inWorld' \in BOOLEAN /\ applied' \subseteq Input /\ snapshots' \in 0 .. MaxSnapshots
    BY <1>1, Numbers, SyncBounds DEF SyncInv
  <2> QED
    BY <1>1, <1>3, <1>8, <2>1 DEF SyncInv, TypeOK
<1>10. EntersOnce' /\ SpawnFirst'
  <2>1. \A i \in {1, 2} : (toClient'[i] = Spawn) <=> i = 1
    BY <1>6, <1>8
  <2>2. EntersOnce'
    BY <1>1, <1>2, <1>15 DEF EntersOnce
  <2>3. SpawnFirst'
    BY <1>1, <1>2, <1>4, <1>8, <1>15, <2>1 DEF SpawnFirst
  <2> QED
    BY <2>2, <2>3
<1>11. InputsCounted' /\ AllFollow' /\ InputsInOrder' /\ NoInputLost'
  <2>1. InputsCounted'
    BY <1>1, <1>4 DEF SyncInv, InputsCounted, Counted
  <2>2. AllFollow' /\ InputsInOrder'
    BY <1>15 DEF AllFollow, InputsInOrder
  <2>3. NoInputLost'
    BY <1>1, <1>4 DEF NoInputLost
  <2> QED
    BY <2>1, <2>2, <2>3
<1>12. Spawn.id = 0 /\ Spawn.processed = 0 /\ Spawn.pos = {} /\ Spawn.acked = 0
       /\ Local \in Spawn.entities
  BY DEF Spawn
<1>13. AllHold' /\ SnapshotsOrdered'
  <2>1. ASSUME NEW m \in {Spawn, first}
        PROVE  Holds(m)'
    BY <1>1, <1>4, <1>5, <1>12, <2>1, Numbers DEF SyncInv, Holds, Counted
  <2>2. \A i \in {1, 2} : toClient'[i] \in {Spawn, first}
    BY <1>8
  <2>3. AllHold'
    BY <1>1, <1>4, <1>15, <2>1, <2>2, Numbers DEF SyncInv, AllHold, Holds
  <2>4. Before(Spawn, first)
    BY <1>5, <1>12, Numbers DEF SyncInv, Before
  <2> QED
    BY <1>8, <1>15, <2>3, <2>4 DEF SnapshotsOrdered, InOrder
<1>14. ViewFits' /\ SyncStep
  <2>1. ViewAfter(0) /\ base = {} /\ pending = {}
    BY <1>4, Numbers DEF SyncInv, ViewFits, ViewAfter, Counted
  <2>2. \A i \in {1, 2} : 0 <= toClient'[i].processed
    BY <1>5, <1>8, <1>12
  <2>3. ViewAfter(0)' /\ 0 \in 0 .. MaxInputs
    BY <1>1, <1>4, <1>15, <2>1, <2>2, SyncBounds DEF ViewAfter, Counted
  <2> QED
    BY <1>1, <1>4, <2>3 DEF ViewFits, SyncStep, Reconciled
<1> QED
  BY <1>1, <1>9, <1>10, <1>11, <1>13, <1>14 DEF SyncInv

\* Update and the entry of others: a snapshot waits on the strand, or there is
\* nobody to send it to.
LEMMA BroadcastKeeps ==
    ASSUME SyncInv, NEW others \in SUBSET Others, Broadcast(others), here' \subseteq Others,
           UNCHANGED <<up, toServer, toClient, playerVars, lastAcked, dropVars, clientVars>>
    PROVE  SyncInv' /\ SyncStep
<1> DEFINE m == SnapshotNow(applied, others)
<1>1. /\ snapshots < MaxSnapshots /\ snapshots' = snapshots + 1
      /\ UNCHANGED <<up, toServer, toClient, inWorld, applied, lastProcessed, lastAcked, drops,
                     dropped>>
      /\ UNCHANGED <<enterRequested, moveSequence, hasLocal, base, entities, buffers, lastReceived,
                     pending>>
  BY DEF Broadcast, playerVars, dropVars, clientVars, sendVars, viewVars
<1>2. /\ m \in Snapshot /\ m.id = snapshots + 1 /\ m.processed = lastProcessed
      /\ m.pos = applied /\ m.acked = lastAcked /\ Local \in m.entities
  <2>1. /\ snapshots + 1 \in 1 .. MaxSnapshots /\ lastAcked \in 0 .. MaxSnapshots
        /\ lastProcessed \in 0 .. MaxInputs /\ others \cup {Local} \subseteq Others \cup {Local}
        /\ applied \subseteq Input
    BY <1>1, Numbers, SyncBounds DEF SyncInv, TypeOK
  <2> QED
    BY <2>1 DEF SnapshotNow, Snapshot
<1>3. deferred' = deferred \/ (inWorld /\ up /\ deferred' = Append(deferred, m))
  BY DEF Broadcast
<1> HIDE DEF m
<1>4. deferred \in Seq(Snapshot) /\ toClient \in Seq(ToClient)
  BY DEF SyncInv, TypeOK
<1>5. /\ deferred' \in Seq(Snapshot) /\ Len(deferred) \in Nat
      /\ \A i \in 1 .. Len(deferred') :
            \/ i \in 1 .. Len(deferred) /\ deferred'[i] = deferred[i]
            \/ i = Len(deferred) + 1 /\ deferred'[i] = m
      /\ deferred' # <<>> => deferred # <<>> \/ (inWorld /\ up)
  <2>1. CASE deferred' = deferred
    BY <1>4, <2>1
  <2>2. CASE inWorld /\ up /\ deferred' = Append(deferred, m)
    <3>1. /\ deferred' \in Seq(Snapshot) /\ Len(deferred') = Len(deferred) + 1
          /\ \A i \in 1 .. Len(deferred) : deferred'[i] = deferred[i]
          /\ deferred'[Len(deferred) + 1] = m /\ Len(deferred) \in Nat
      BY <1>2, <1>4, <2>2, AppendFacts
    <3> QED
      BY <2>2, <3>1
  <2> QED
    BY <1>3, <2>1, <2>2
<1>6. TypeOK'
  <2>1. snapshots' \in 0 .. MaxSnapshots
    BY <1>1, Numbers, SyncBounds DEF SyncInv
  <2> QED
    BY <1>1, <1>5, <2>1 DEF SyncInv, TypeOK
<1>7. EntersOnce' /\ SpawnFirst'
  <2>1. ~inWorld \/ ~up => deferred' = deferred
    BY <1>3
  <2> QED
    BY <1>1, <1>5, <2>1 DEF SyncInv, EntersOnce, NotEntered, SpawnFirst
<1>8. InputsCounted' /\ AllFollow' /\ InputsInOrder' /\ NoInputLost'
  BY <1>1 DEF SyncInv, InputsCounted, Counted, AllFollow, Follows, InputsInOrder, NoInputLost,
              IsUnderWay
<1>9. AllHold'
  <2>1. ASSUME NEW s, Holds(s)
        PROVE  Holds(s)'
    BY <1>1, <2>1, Numbers DEF SyncInv, Holds, Counted
  <2>2. ASSUME NEW s, s = m
        PROVE  Holds(s)'
    BY <1>1, <1>2, <2>2, Numbers DEF SyncInv, Holds, AllHold, InputsCounted, Counted
  <2>3. ASSUME NEW i \in 1 .. Len(deferred')
        PROVE  Holds(deferred[i])'
    <3>1. CASE i \in 1 .. Len(deferred) /\ deferred'[i] = deferred[i]
      BY <2>1, <3>1 DEF SyncInv, AllHold, Holds
    <3>2. CASE deferred'[i] = m
      BY <2>2, <3>2 DEF Holds
    <3> QED
      BY <1>5, <2>3, <3>1, <3>2
  <2>4. lastAcked' <= lastReceived' /\ lastReceived' <= snapshots'
    BY <1>1, Numbers DEF SyncInv, AllHold
  <2>5. \A i \in 1 .. Len(toClient') : Holds(toClient[i])'
    BY <1>1, <2>1 DEF SyncInv, AllHold, Holds
  <2> QED
    BY <2>3, <2>4, <2>5 DEF AllHold
<1>10. SnapshotsOrdered'
  <2>1. ASSUME NEW s \in ToClient, Holds(s)
        PROVE  Before(s, m)
    <3>1. s.id \in Nat /\ s.processed \in Nat
      BY SnapshotFields
    <3> QED
      BY <1>2, <2>1, <3>1, Numbers DEF SyncInv, Holds, Before
  <2>2. \A i \in 1 .. Len(deferred) : Before(deferred[i], m)
    BY <1>4, <2>1, ElementInSeq DEF SyncInv, AllHold, ToClient
  <2>3. \A i \in 1 .. Len(toClient) : Before(toClient[i], m)
    BY <1>4, <2>1, ElementInSeq DEF SyncInv, AllHold
  <2>4. ASSUME NEW i \in 1 .. Len(deferred'), NEW j \in 1 .. Len(deferred'), i < j
        PROVE  Before(deferred'[i], deferred'[j])
    <3>1. i \in 1 .. Len(deferred) /\ deferred'[i] = deferred[i]
      BY <1>5, <2>4
    <3> QED
      BY <1>5, <2>2, <2>4, <3>1 DEF SyncInv, SnapshotsOrdered, InOrder
  <2>5. ASSUME NEW i \in 1 .. Len(toClient), NEW j \in 1 .. Len(deferred')
        PROVE  Before(toClient[i], deferred'[j])
    BY <1>5, <2>3, <2>5 DEF SyncInv, SnapshotsOrdered
  <2> QED
    BY <1>1, <2>4, <2>5 DEF SyncInv, SnapshotsOrdered, InOrder
<1>11. ViewFits' /\ SyncStep
  <2>1. PICK p \in 0 .. MaxInputs : ViewAfter(p)
    BY DEF SyncInv, ViewFits
  <2>2. p <= m.processed
    BY <1>2, <2>1, Numbers DEF SyncInv, ViewAfter
  <2>3. \A i \in 1 .. Len(deferred') : p <= deferred'[i].processed
    BY <1>5, <2>1, <2>2 DEF ViewAfter
  <2>4. ViewAfter(p)'
    BY <1>1, <2>1, <2>3 DEF ViewAfter, Counted
  <2> QED
    BY <1>1, <2>4, Numbers DEF SyncInv, ViewFits, SyncStep, Reconciled
<1> QED
  BY <1>1, <1>6, <1>7, <1>8, <1>9, <1>10, <1>11 DEF SyncInv

LEMMA OtherLeavesKeeps ==
    ASSUME SyncInv, here' \subseteq Others, UNCHANGED <<connVars, playerVars, lastAcked, snapshots,
                                                        dropVars, clientVars>>
    PROVE  SyncInv' /\ SyncStep
<1>1. /\ UNCHANGED <<up, toServer, deferred, toClient, inWorld, applied, lastProcessed, lastAcked,
                     snapshots, drops, dropped>>
      /\ UNCHANGED <<enterRequested, moveSequence, hasLocal, base, entities, buffers, lastReceived,
                     pending>>
  BY DEF connVars, playerVars, dropVars, clientVars, sendVars, viewVars
<1>2. TypeOK' /\ EntersOnce' /\ SpawnFirst'
  BY <1>1 DEF SyncInv, TypeOK, EntersOnce, NotEntered, SpawnFirst
<1>3. InputsCounted' /\ AllFollow' /\ InputsInOrder' /\ NoInputLost'
  BY <1>1 DEF SyncInv, InputsCounted, Counted, AllFollow, Follows, InputsInOrder, NoInputLost,
              IsUnderWay
<1>4. AllHold' /\ SnapshotsOrdered'
  BY <1>1 DEF SyncInv, AllHold, Holds, Counted, SnapshotsOrdered, InOrder
<1>5. ViewFits'
  BY <1>1 DEF SyncInv, ViewFits, ViewAfter, Counted
<1>6. SyncStep
  <2>1. lastReceived' = lastReceived /\ Reconciled' = Reconciled
    BY <1>1 DEF Reconciled
  <2> QED
    BY <2>1, Numbers DEF SyncInv, SyncStep
<1>7. Local \notin buffers'
  BY <1>1 DEF SyncInv
<1> QED
  BY <1>2, <1>3, <1>4, <1>5, <1>6, <1>7 DEF SyncInv

-----------------------------------------------------------------------------
(* The connection.                                                         *)

LEMMA RunDeferredKeeps ==
    ASSUME SyncInv, RunDeferred
    PROVE  SyncInv' /\ SyncStep
<1> DEFINE m == Head(deferred)
<1>1. /\ deferred # <<>> /\ deferred' = Tail(deferred) /\ toClient' = Append(toClient, m)
      /\ UNCHANGED <<up, toServer, inWorld, applied, lastProcessed, lastAcked, snapshots, here,
                     drops, dropped>>
      /\ UNCHANGED <<enterRequested, moveSequence, hasLocal, base, entities, buffers, lastReceived,
                     pending>>
  BY DEF RunDeferred, serverVars, playerVars, dropVars, clientVars, sendVars, viewVars
<1>2. deferred \in Seq(Snapshot) /\ toClient \in Seq(ToClient)
  BY DEF SyncInv, TypeOK
<1>3. /\ deferred' \in Seq(Snapshot) /\ Len(deferred') = Len(deferred) - 1
      /\ \A i \in 1 .. Len(deferred') : deferred'[i] = deferred[i + 1] /\ i + 1 \in 1 .. Len(deferred)
      /\ m = deferred[1] /\ m \in Snapshot /\ 1 \in 1 .. Len(deferred) /\ Len(deferred) \in Nat
  BY <1>1, <1>2, TailFacts
<1>4. m \in ToClient /\ m # Spawn
  BY <1>3, SpawnIsNoSnapshot DEF ToClient
<1> HIDE DEF m
<1>5. /\ toClient' \in Seq(ToClient) /\ Len(toClient') = Len(toClient) + 1
      /\ \A i \in 1 .. Len(toClient) : toClient'[i] = toClient[i]
      /\ toClient'[Len(toClient) + 1] = m /\ toClient' # <<>> /\ Len(toClient) \in Nat
  BY <1>1, <1>2, <1>4, AppendFacts
<1>6. \A i \in 1 .. Len(toClient') : \/ i \in 1 .. Len(toClient) /\ toClient'[i] = toClient[i]
                                     \/ i = Len(toClient) + 1 /\ toClient'[i] = m
  BY <1>5
<1>7. TypeOK'
  BY <1>1, <1>3, <1>5 DEF SyncInv, TypeOK
<1>8. EntersOnce' /\ SpawnFirst'
  <2>1. inWorld /\ (~hasLocal => toClient # <<>>) /\ up
    BY <1>1 DEF SyncInv, SpawnFirst
  <2>2. ~hasLocal => Len(toClient) # 0
    BY <1>2, <2>1
  <2>3. \A i \in 1 .. Len(toClient') : (toClient'[i] = Spawn) <=> (i = 1 /\ ~hasLocal)
    <3>1. ASSUME NEW i \in 1 .. Len(toClient')
          PROVE  (toClient'[i] = Spawn) <=> (i = 1 /\ ~hasLocal)
      <4>1. CASE i \in 1 .. Len(toClient) /\ toClient'[i] = toClient[i]
        BY <4>1 DEF SyncInv, SpawnFirst
      <4>2. CASE i = Len(toClient) + 1 /\ toClient'[i] = m
        <5>1. i = 1 => hasLocal
          BY <1>5, <2>2, <4>2
        <5> QED
          BY <1>4, <4>2, <5>1
      <4> QED
        BY <1>6, <4>1, <4>2
    <3> QED
      BY <3>1
  <2>4. EntersOnce'
    BY <1>1, <2>1 DEF SyncInv, EntersOnce, NotEntered
  <2> QED
    BY <1>1, <1>5, <2>1, <2>3, <2>4 DEF SyncInv, SpawnFirst
<1>9. InputsCounted' /\ AllFollow' /\ InputsInOrder' /\ NoInputLost'
  BY <1>1 DEF SyncInv, InputsCounted, Counted, AllFollow, Follows, InputsInOrder, NoInputLost,
              IsUnderWay
<1>10. AllHold'
  <2>1. ASSUME NEW s, Holds(s)
        PROVE  Holds(s)'
    BY <1>1, <2>1 DEF Holds, Counted
  <2>2. Holds(m)
    BY <1>3 DEF SyncInv, AllHold
  <2>3. ASSUME NEW i \in 1 .. Len(toClient')
        PROVE  Holds(toClient[i])'
    <3>1. Holds(toClient'[i])
      BY <1>6, <2>2, <2>3 DEF SyncInv, AllHold
    <3> QED
      BY <2>1, <3>1 DEF Holds
  <2>4. ASSUME NEW i \in 1 .. Len(deferred')
        PROVE  Holds(deferred[i])'
    <3>1. Holds(deferred'[i])
      BY <1>3, <2>4 DEF SyncInv, AllHold
    <3> QED
      BY <2>1, <3>1 DEF Holds
  <2> QED
    BY <1>1, <2>3, <2>4 DEF SyncInv, AllHold
<1>11. SnapshotsOrdered'
  <2>1. \A i \in 1 .. Len(toClient) : Before(toClient[i], m)
    BY <1>3 DEF SyncInv, SnapshotsOrdered
  <2>2. ASSUME NEW j \in 1 .. Len(deferred')
        PROVE  Before(m, deferred'[j])
    <3>1. j + 1 \in 1 .. Len(deferred) /\ 1 < j + 1 /\ deferred'[j] = deferred[j + 1]
      BY <1>3, <2>2
    <3> QED
      BY <1>3, <3>1 DEF SyncInv, SnapshotsOrdered, InOrder
  <2>3. ASSUME NEW i \in 1 .. Len(toClient'), NEW j \in 1 .. Len(toClient'), i < j
        PROVE  Before(toClient'[i], toClient'[j])
    <3>1. i \in 1 .. Len(toClient) /\ toClient'[i] = toClient[i]
      BY <1>5, <1>6, <2>3
    <3> QED
      BY <1>6, <2>1, <2>3, <3>1 DEF SyncInv, SnapshotsOrdered, InOrder
  <2>4. ASSUME NEW i \in 1 .. Len(deferred'), NEW j \in 1 .. Len(deferred'), i < j
        PROVE  Before(deferred'[i], deferred'[j])
    <3>1. i + 1 \in 1 .. Len(deferred) /\ j + 1 \in 1 .. Len(deferred) /\ i + 1 < j + 1
      BY <1>3, <2>4
    <3> QED
      BY <1>3, <3>1 DEF SyncInv, SnapshotsOrdered, InOrder
  <2>5. ASSUME NEW i \in 1 .. Len(toClient'), NEW j \in 1 .. Len(deferred')
        PROVE  Before(toClient'[i], deferred'[j])
    <3>1. CASE i \in 1 .. Len(toClient) /\ toClient'[i] = toClient[i]
      BY <1>3, <3>1 DEF SyncInv, SnapshotsOrdered
    <3>2. CASE toClient'[i] = m
      BY <2>2, <3>2
    <3> QED
      BY <1>6, <3>1, <3>2
  <2> QED
    BY <2>3, <2>4, <2>5 DEF SnapshotsOrdered, InOrder
<1>12. ViewFits' /\ SyncStep
  <2>1. PICK p \in 0 .. MaxInputs : ViewAfter(p)
    BY DEF SyncInv, ViewFits
  <2>2. \A i \in 1 .. Len(toClient') : p <= toClient'[i].processed
    BY <1>3, <1>6, <2>1 DEF ViewAfter
  <2>3. \A i \in 1 .. Len(deferred') : p <= deferred'[i].processed
    BY <1>3, <2>1 DEF ViewAfter
  <2>4. ViewAfter(p)'
    BY <1>1, <2>1, <2>2, <2>3 DEF ViewAfter, Counted
  <2> QED
    BY <1>1, <2>4, Numbers DEF SyncInv, ViewFits, SyncStep, Reconciled
<1> QED
  BY <1>1, <1>7, <1>8, <1>9, <1>10, <1>11, <1>12 DEF SyncInv

LEMMA LinkFailsKeeps ==
    ASSUME SyncInv, LinkFails
    PROVE  SyncInv' /\ SyncStep
<1>1. /\ up' = FALSE /\ toServer' = <<>> /\ deferred' = <<>> /\ inWorld' = FALSE
      /\ UNCHANGED <<applied, lastProcessed, lastAcked, snapshots, here, drops, dropped>>
      /\ UNCHANGED <<enterRequested, moveSequence, hasLocal, base, entities, buffers, lastReceived,
                     pending>>
  BY DEF LinkFails, dropVars, clientVars, sendVars, viewVars
<1>2. toClient \in Seq(ToClient)
  BY DEF SyncInv, TypeOK
<1>3. /\ toClient' \in Seq(ToClient) /\ (toClient = <<>> => toClient' = <<>>)
      /\ \A i \in 1 .. Len(toClient') : i \in 1 .. Len(toClient) /\ toClient'[i] = toClient[i]
  <2>1. PICK k \in 0 .. Len(toClient) : toClient' = SubSeq(toClient, 1, k)
    BY DEF LinkFails
  <2>2. /\ toClient' \in Seq(ToClient) /\ Len(toClient') = k
        /\ \A i \in 1 .. k : toClient'[i] = toClient[i] /\ i \in 1 .. Len(toClient)
    BY <1>2, <2>1, PrefixFacts
  <2>3. toClient = <<>> => k = 0
    BY <2>1
  <2> QED
    BY <2>2, <2>3
<1>4. TypeOK'
  <2>1. up' \in BOOLEAN /\ inWorld' \in BOOLEAN
    BY <1>1
  <2>2. toServer' \in Seq(ToServer) /\ deferred' \in Seq(Snapshot)
    BY <1>1
  <2> QED
    BY <1>1, <1>3, <2>1, <2>2 DEF SyncInv, TypeOK
<1>5. 1 .. Len(toServer') = {} /\ 1 .. Len(deferred') = {}
  <2>1. 1 .. 0 = {} /\ Len(<<>>) = 0
    OBVIOUS
  <2> QED
    BY <1>1, <2>1
<1>6. EntersOnce'
  BY <1>1, <1>3, <1>5 DEF SyncInv, EntersOnce, NotEntered
<1>7. SpawnFirst'
  BY <1>1, <1>3 DEF SyncInv, SpawnFirst
<1>8. InputsCounted' /\ AllFollow' /\ InputsInOrder' /\ NoInputLost'
  BY <1>1, <1>5 DEF SyncInv, InputsCounted, Counted, AllFollow, InputsInOrder, NoInputLost
<1>9. AllHold'
  BY <1>1, <1>3, <1>5 DEF SyncInv, AllHold, Holds, Counted
<1>10. SnapshotsOrdered'
  BY <1>3, <1>5 DEF SyncInv, SnapshotsOrdered, InOrder
<1>11. ViewFits' /\ SyncStep
  <2>1. PICK p \in 0 .. MaxInputs : ViewAfter(p)
    BY DEF SyncInv, ViewFits
  <2>2. ViewAfter(p)'
    BY <1>1, <1>3, <1>5, <2>1 DEF ViewAfter, Counted
  <2> QED
    BY <1>1, <2>2, Numbers DEF SyncInv, ViewFits, SyncStep, Reconciled
<1> QED
  BY <1>1, <1>4, <1>6, <1>7, <1>8, <1>9, <1>10, <1>11 DEF SyncInv

LEMMA StepInv ==
    ASSUME SyncInv, [Next]_vars
    PROVE  SyncInv' /\ SyncStep
<1>1. here \subseteq Others
  BY DEF SyncInv, TypeOK
<1>2. CASE UNCHANGED vars
  BY <1>1, <1>2, OtherLeavesKeeps DEF vars, connVars, serverVars
<1>3. CASE Client
  BY <1>3, RequestEnterKeeps, SendInputKeeps, SpawnKeeps, SnapshotKeeps DEF Client
<1>4. CASE ServerReceives
  BY <1>4, EnterKeeps, MoveKeeps, AckKeeps DEF ServerReceives
<1>5. CASE ServerDrops \/ RunDeferred \/ LinkFails
  BY <1>5, DropKeeps, RunDeferredKeeps, LinkFailsKeeps
<1>6. CASE Update
  BY <1>1, <1>6, BroadcastKeeps DEF Update
<1>7. ASSUME NEW e \in Others, OtherEnters(e)
      PROVE  SyncInv' /\ SyncStep
  BY <1>1, <1>7, BroadcastKeeps DEF OtherEnters
<1>8. ASSUME NEW e \in Others, OtherLeaves(e)
      PROVE  SyncInv' /\ SyncStep
  BY <1>1, <1>8, OtherLeavesKeeps DEF OtherLeaves
<1> QED
  BY <1>2, <1>3, <1>4, <1>5, <1>6, <1>7, <1>8 DEF Next, Server, Environment

-----------------------------------------------------------------------------
(* Theorems.                                                               *)

\* Whatever is under way between client and server agrees with what both have
\* counted, in every reachable state.
THEOREM SyncInvAlways == Spec => []SyncInv
  BY InitInv, StepInv, PTL DEF Spec

\* What the client shows agrees with what the server knows, for any number of
\* inputs, snapshots, drops and other players: no input is counted twice,
\* nothing is acknowledged that was not received, and the own player is never
\* interpolated (WorldPlayerState.h:129-173, YunoServerNetwork.cpp:369).
THEOREM ViewAlwaysSound == Spec => []ViewIsSound
<1>1. SyncInv => ViewIsSound
  <2> SUFFICES ASSUME SyncInv PROVE ViewIsSound
    OBVIOUS
  <2>1. EachInputCountedOnce
    <3>1. PICK p \in 0 .. MaxInputs : ViewAfter(p)
      BY DEF SyncInv, ViewFits
    <3> QED
      BY <3>1, Numbers DEF SyncInv, ViewAfter, Counted, EachInputCountedOnce
  <2>2. AckedWasReceived
    <3>1. DOMAIN toClient = 1 .. Len(toClient)
      BY DEF SyncInv, TypeOK
    <3> QED
      BY <3>1 DEF SyncInv, AllHold, Holds, AckedWasReceived
  <2>3. LocalNotInterpolated
    BY DEF SyncInv, SpawnFirst, LocalNotInterpolated
  <2> QED
    BY <2>1, <2>2, <2>3 DEF SyncInv, ViewIsSound
<1> QED
  BY <1>1, SyncInvAlways, PTL

\* What the player saw himself do is taken back only where the server dropped
\* the input, however late the snapshot (WorldPlayerState.h:139-153, :207-235).
THEOREM InputsAlwaysCounted == Spec => InputsAreCounted
<1>1. SyncInv /\ [Next]_vars => [Reconciled \ Reconciled' \subseteq dropped]_vars
  BY StepInv DEF SyncStep
<1> QED
  BY <1>1, SyncInvAlways, PTL DEF Spec, InputsAreCounted

\* Snapshots take effect in the order they were made in, although the client
\* does not check it and replies overtake the strand
\* (YunoClientNetwork.cpp:206).
THEOREM SnapshotsAlwaysInOrder == Spec => SnapshotsInOrder
<1>1. SyncInv /\ [Next]_vars => [lastReceived' >= lastReceived]_vars
  BY StepInv DEF SyncStep
<1> QED
  BY <1>1, SyncInvAlways, PTL DEF Spec, SnapshotsInOrder

-----------------------------------------------------------------------------
(* The units of the scene (ObjectManager, SceneObjects).                   *)

InScene == objs \cup Pending

\* Ids are given out in order, and the map is exact.
IdsFit ==
    /\ objMap = objs
    /\ \A u \in InScene : u.id < nextID
    /\ Terrain \in InScene /\ Terrain.id \notin destroyQ

\* The units are the terrain, those the scene points to and those it lets go of.
UnitsFit ==
    /\ \A v \in visuals : v.unit \in InScene /\ v.unit # Terrain /\ v.unit.id \notin destroyQ
    /\ \A v, w \in visuals : v.entity = w.entity \/ v.unit = w.unit => v = w
    /\ \A u \in InScene : u = Terrain \/ u.id \in destroyQ \/ \E v \in visuals : v.unit = u

\* What waits to be created when a snapshot is worked on is in that snapshot:
\* the scene destroys nothing that is not there yet.
PhaseFits ==
    /\ phase \in {"idle", "submit"} => Shown = snapshot
    /\ phase = "idle" => \A v \in visuals : v.unit \in objs
    /\ phase = "update" => /\ snapshot \ todo \subseteq Shown
                           /\ \A v \in visuals : v.unit \in objs \/ v.entity \in snapshot
    /\ destroyQ # {} => phase = "submit"

\* The ids last for the snapshot, and the numbers after names stay short.
CountsFit ==
    /\ IsFiniteSet(objs) /\ Cardinality(snapshot) <= MaxPlayers
    /\ phase = "idle" => Cardinality(objs) + Len(createQ) <= 1 + MaxPlayers
    /\ phase = "update" =>
          /\ Cardinality(objs) + Len(createQ) + Cardinality(todo) <= 1 + 2 * MaxPlayers
          /\ nextID + Cardinality(todo) <= MaxID + 1

ObjectsInv ==
    /\ SceneTypeOK
    /\ IdsUnique /\ NamesAreLive /\ DestructionsFindTheirs
    /\ phase # "off" => IdsFit /\ UnitsFit /\ PhaseFits /\ CountsFit
    /\ phase = "off" => objs = {} /\ createQ = <<>> /\ destroyQ = {} /\ visuals = {}

LEMMA QueueFacts ==
    ASSUME NEW S, NEW q \in Seq(S)
    PROVE  /\ Len(q) \in Nat /\ DOMAIN q = 1 .. Len(q)
           /\ \A i \in 1 .. Len(q) : q[i] \in S /\ q[i] \in ToSet(q)
           /\ \A x \in ToSet(q) : x \in S /\ \E i \in 1 .. Len(q) : q[i] = x
           /\ ToSet(q) \subseteq S /\ ToSet(<<>>) = {}
  BY DEF ToSet

LEMMA ToSetOfAppend ==
    ASSUME NEW S, NEW q \in Seq(S), NEW e \in S
    PROVE  ToSet(Append(q, e)) = ToSet(q) \cup {e}
<1> DEFINE r == Append(q, e)
<1>1. /\ r \in Seq(S) /\ Len(r) = Len(q) + 1 /\ Len(q) \in Nat
      /\ \A i \in 1 .. Len(q) : r[i] = q[i]
      /\ r[Len(q) + 1] = e
  BY AppendFacts
<1> HIDE DEF r
<1>2. DOMAIN r = 1 .. Len(r) /\ DOMAIN q = 1 .. Len(q)
  BY <1>1, QueueFacts
<1>3. \A i \in 1 .. Len(r) : r[i] \in ToSet(q) \cup {e}
  BY <1>1, <1>2 DEF ToSet
<1>4. \A i \in 1 .. Len(q) : q[i] \in ToSet(r)
  BY <1>1, <1>2 DEF ToSet
<1>5. e \in ToSet(r)
  BY <1>1, <1>2 DEF ToSet
<1> QED
  BY <1>2, <1>3, <1>4, <1>5 DEF ToSet, r

LEMMA PartOfSeq ==
    ASSUME NEW S, NEW s \in Seq(S), NEW m \in 1 .. Len(s)
    PROVE  SubSeq(s, m, Len(s)) \in Seq(S)
  OBVIOUS

LEMMA IndexSetSize ==
    ASSUME NEW k \in Nat
    PROVE  IsFiniteSet(1 .. k) /\ Cardinality(1 .. k) = k
<1>1. k \in Int /\ 1 \in Int
  OBVIOUS
<1> QED
  BY <1>1, FS_Interval

LEMMA PartSize ==
    ASSUME NEW S, IsFiniteSet(S), NEW T \in SUBSET S
    PROVE  /\ IsFiniteSet(T) /\ Cardinality(T) \in Nat /\ Cardinality(S) \in Nat
           /\ Cardinality(T) <= Cardinality(S)
  BY FS_Subset, FS_CardinalityType

LEMMA DigitsAreDigits ==
    ASSUME NEW n \in Nat, n < 10000
    PROVE  Digits(n) \in Seq(0 .. 9)
<1> DEFINE all == <<n \div 1000, (n \div 100) % 10, (n \div 10) % 10, n % 10>>
           Fit(i) == (i = 4 \/ all[i] # 0) /\ \A j \in 1 .. i - 1 : all[j] = 0
           first == CHOOSE i \in 1 .. 4 : Fit(i)
<1>1. n \div 1000 \in 0 .. 9 /\ (n \div 100) % 10 \in 0 .. 9 /\ (n \div 10) % 10 \in 0 .. 9 /\ n % 10 \in 0 .. 9
  OBVIOUS
<1>2. all \in Seq(0 .. 9) /\ Len(all) = 4
  BY <1>1
<1>3. Digits(n) = SubSeq(all, first, 4)
  BY DEF Digits
<1> HIDE DEF all
<1>4. \E i \in 1 .. 4 : Fit(i)
  <2>1. CASE all[1] # 0
    BY <2>1
  <2>2. CASE all[1] = 0 /\ all[2] # 0
    BY <2>2
  <2>3. CASE all[1] = 0 /\ all[2] = 0 /\ all[3] # 0
    BY <2>3
  <2>4. CASE all[1] = 0 /\ all[2] = 0 /\ all[3] = 0
    BY <2>4
  <2> QED
    BY <2>1, <2>2, <2>3, <2>4
<1>5. first \in 1 .. 4
  BY <1>4
<1> HIDE DEF first
<1>6. first \in 1 .. Len(all)
  BY <1>2, <1>5
<1>7. SubSeq(all, first, Len(all)) \in Seq(0 .. 9)
  <2> DEFINE D == 0 .. 9
  <2>1. all \in Seq(D)
    BY <1>2
  <2> HIDE DEF D
  <2>2. SubSeq(all, first, Len(all)) \in Seq(D)
    BY <1>6, <2>1, PartOfSeq
  <2> QED
    BY <2>2 DEF D
<1> QED
  BY <1>2, <1>3, <1>7

\* Ids are below nextID, so the next id is free.
LEMMA NextIsFree ==
    ASSUME ObjectsInv, phase # "off", nextID <= MaxID
    PROVE  FreeID = nextID
<1>1. /\ nextID \in Nat /\ nextID >= 1 /\ MaxID \in Nat
      /\ \A u \in InScene : u.id < nextID /\ u.id \in Nat
      /\ objMap \subseteq InScene /\ Pending \subseteq InScene
  <2>1. createQ \in Seq(Unit) /\ objs \subseteq Unit
    BY DEF ObjectsInv, SceneTypeOK, ManagerTypeOK
  <2>2. InScene \subseteq Unit
    BY <2>1, QueueFacts DEF InScene, Pending
  <2> QED
    BY <2>2, MaxIDAssumption DEF ObjectsInv, SceneTypeOK, ManagerTypeOK, IdsFit, InScene, Unit
<1>2. ~IsObjectIDTaken(nextID)
  BY <1>1 DEF IsObjectIDTaken, Ids
<1> DEFINE Next1(id) == ~IsObjectIDTaken(id) /\ \A n \in nextID .. id - 1 : IsObjectIDTaken(n)
<1>3. nextID \in nextID .. MaxID + 1 /\ Next1(nextID)
  BY <1>1, <1>2
<1>4. \A id \in nextID .. MaxID + 1 : Next1(id) => id = nextID
  BY <1>1, <1>2
<1>5. FreeID = CHOOSE id \in nextID .. MaxID + 1 : Next1(id)
  BY DEF FreeID
<1> HIDE DEF Next1
<1> QED
  BY <1>3, <1>4, <1>5

\* A unit the scene creates has an id of its own.
LEMMA NewUnitFits ==
    ASSUME ObjectsInv, phase = "update", NEW entity \in todo
    PROVE  /\ NewUnit(entity) \in Unit /\ NewUnit(entity).id = nextID
           /\ FreeID = nextID /\ nextID <= MaxID
<1>1. /\ entity \in Seq(0 .. 9) /\ todo \subseteq Entities /\ IsFiniteSet(todo)
      /\ createQ \in Seq(Unit) /\ nextID \in Nat /\ nextID >= 1 /\ MaxID \in Nat
  BY EntitiesAssumption, MaxIDAssumption, FS_Subset DEF ObjectsInv, SceneTypeOK, ManagerTypeOK
<1>2. Cardinality(todo) \in Nat /\ Cardinality(todo) >= 1
  BY <1>1, FS_CardinalityType, FS_EmptySet
<1>3. nextID <= MaxID
  BY <1>1, <1>2 DEF ObjectsInv, CountsFit
<1>4. FreeID = nextID
  BY <1>3, NextIsFree
<1> DEFINE inQueue == {i \in DOMAIN createQ : IsPrefix(entity, createQ[i].name)}
           inMap == {u \in objMap : IsPrefix(entity, u.name)}
           count == Cardinality(inQueue) + Cardinality(inMap)
<1>5. Cardinality(inQueue) \in Nat /\ Cardinality(inQueue) <= Len(createQ) /\ Len(createQ) \in Nat
  <2>1. DOMAIN createQ = 1 .. Len(createQ) /\ Len(createQ) \in Nat
    BY <1>1, QueueFacts
  <2>2. IsFiniteSet(1 .. Len(createQ)) /\ Cardinality(1 .. Len(createQ)) = Len(createQ)
    BY <2>1, IndexSetSize
  <2>3. inQueue \in SUBSET (1 .. Len(createQ))
    BY <2>1
  <2> HIDE DEF inQueue
  <2> QED
    BY <2>1, <2>2, <2>3, PartSize
<1>6. Cardinality(inMap) \in Nat /\ Cardinality(inMap) <= Cardinality(objs) /\ Cardinality(objs) \in Nat
  <2>1. IsFiniteSet(objs) /\ inMap \in SUBSET objs
    BY DEF ObjectsInv, CountsFit, IdsFit
  <2> HIDE DEF inMap
  <2> QED
    BY <2>1, PartSize
<1> HIDE DEF inQueue, inMap
<1>7. count \in Nat /\ count < 10000
  BY <1>2, <1>5, <1>6, PlayersAssumption DEF ObjectsInv, CountsFit
<1>8. CheckDedicateObjectName(entity) = IF count = 0 THEN entity ELSE entity \o Digits(count)
  BY DEF CheckDedicateObjectName, inQueue, inMap
<1> HIDE DEF count
<1>9. CheckDedicateObjectName(entity) \in Seq(0 .. 9)
  <2>1. Digits(count) \in Seq(0 .. 9)
    BY <1>7, DigitsAreDigits
  <2>2. entity \o Digits(count) \in Seq(0 .. 9)
    BY <1>1, <2>1
  <2> QED
    BY <1>1, <1>8, <2>2
<1> QED
  BY <1>1, <1>3, <1>4, <1>9 DEF NewUnit, Unit

LEMMA ObjectsInvStarts == SceneInit => ObjectsInv
<1> SUFFICES ASSUME SceneInit PROVE ObjectsInv
  OBVIOUS
<1>1. Terrain \in Unit /\ Terrain.id = 1 /\ Terrain.name = <<0>> /\ <<0>> \in Seq(0 .. 9)
  BY DEF Terrain, Unit
<1>2. /\ objs \subseteq {Terrain} /\ objMap = objs /\ IsFiniteSet(objs)
      /\ Cardinality(objs) + Len(createQ) = 1
      /\ \/ objs = {} /\ createQ = <<Terrain>> /\ Pending = {Terrain} /\ nameToID = {}
         \/ objs = {Terrain} /\ createQ = <<>> /\ Pending = {}
            /\ nameToID = {[name |-> Terrain.name, id |-> Terrain.id]}
  <2>1. ToSet(<<Terrain>>) = {Terrain} /\ ToSet(<<>>) = {}
    BY DEF ToSet
  <2>2. IsFiniteSet({}) /\ Cardinality({}) = 0 /\ IsFiniteSet({Terrain}) /\ Cardinality({Terrain}) = 1
    BY FS_EmptySet, FS_Singleton
  <2>3. CASE objs = {} /\ objMap = {} /\ nameToID = {} /\ createQ = <<Terrain>>
    BY <2>1, <2>2, <2>3 DEF Pending
  <2>4. CASE /\ objs = {Terrain} /\ objMap = {Terrain}
             /\ nameToID = {[name |-> Terrain.name, id |-> Terrain.id]}
             /\ createQ = <<>>
    BY <2>1, <2>2, <2>4 DEF Pending
  <2> QED
    BY <2>3, <2>4 DEF SceneInit
<1>3. /\ nextID = 2 /\ destroyQ = {} /\ phase = "idle" /\ snapshot = {} /\ todo = {} /\ visuals = {}
      /\ frames = 0
  BY DEF SceneInit
<1>4. SceneTypeOK
  <2>1. ManagerTypeOK
    <3>1. createQ \in Seq(Unit)
      <4>1. <<Terrain>> \in Seq(Unit) /\ <<>> \in Seq(Unit)
        BY <1>1
      <4> QED
        BY <1>2, <4>1
    <3>2. nextID \in 1 .. MaxID + 1
      BY <1>3, MaxIDAssumption DEF SceneInit
    <3> QED
      <4>1. objs \subseteq Unit /\ objMap \subseteq Unit
        BY <1>1, <1>2
      <4>2. nameToID \subseteq [name : Seq(0 .. 9), id : Nat \ {0}]
        <5>1. [name |-> Terrain.name, id |-> Terrain.id] \in [name : Seq(0 .. 9), id : Nat \ {0}]
          BY <1>1
        <5>2. nameToID \subseteq {[name |-> Terrain.name, id |-> Terrain.id]}
          BY <1>2
        <5> QED
          BY <5>1, <5>2
      <4> QED
        BY <1>3, <3>1, <3>2, <4>1, <4>2 DEF ManagerTypeOK
  <2> QED
    BY <1>3, <2>1, FramesAssumption DEF SceneTypeOK
<1>5. InScene = {Terrain}
  BY <1>2 DEF InScene
<1>6. IdsUnique
  BY <1>2, <1>5 DEF IdsUnique, InScene
<1>7. NamesAreLive /\ DestructionsFindTheirs
  BY <1>2, <1>3 DEF NamesAreLive, DestructionsFindTheirs
<1>8. IdsFit /\ UnitsFit
  BY <1>1, <1>2, <1>3, <1>5 DEF IdsFit, UnitsFit
<1>9. PhaseFits
  BY <1>3 DEF PhaseFits, Shown
<1>10. CountsFit
  <2>1. Cardinality(snapshot) = 0
    BY <1>3, FS_EmptySet
  <2> QED
    <3>1. Cardinality(objs) + Len(createQ) = 1 /\ IsFiniteSet(objs)
      BY <1>2
    <3>2. phase = "idle" /\ phase # "update" /\ 1 <= 1 + MaxPlayers /\ 0 <= MaxPlayers
      BY <1>3, PlayersAssumption
    <3> QED
      BY <2>1, <3>1, <3>2 DEF CountsFit
<1> QED
  BY <1>3, <1>4, <1>6, <1>7, <1>8, <1>9, <1>10 DEF ObjectsInv

\* What the invariant says of the units, whatever the phase.
LEMMA UnitsTyped ==
    ASSUME ObjectsInv
    PROVE  /\ objs \subseteq Unit /\ createQ \in Seq(Unit) /\ Pending \subseteq Unit
           /\ InScene \subseteq Unit /\ nextID \in Nat /\ nextID >= 1 /\ MaxID \in Nat
           /\ \A u \in Unit : u.id \in Nat /\ u.id # 0 /\ u.name \in Seq(0 .. 9)
           /\ IsFiniteSet(snapshot) /\ IsFiniteSet(todo)
           /\ Cardinality(snapshot) \in Nat /\ Cardinality(todo) \in Nat
           /\ Cardinality(todo) <= Cardinality(snapshot)
<1>1. objs \subseteq Unit /\ createQ \in Seq(Unit) /\ nextID \in Nat /\ nextID >= 1 /\ MaxID \in Nat
  BY MaxIDAssumption DEF ObjectsInv, SceneTypeOK, ManagerTypeOK
<1>2. Pending \subseteq Unit
  BY <1>1, QueueFacts DEF Pending
<1>3. snapshot \in SUBSET Entities /\ todo \in SUBSET snapshot /\ IsFiniteSet(Entities)
  BY EntitiesAssumption DEF ObjectsInv, SceneTypeOK
<1>4. IsFiniteSet(snapshot) /\ Cardinality(snapshot) \in Nat
  BY <1>3, PartSize
<1>5. IsFiniteSet(todo) /\ Cardinality(todo) \in Nat /\ Cardinality(todo) <= Cardinality(snapshot)
  BY <1>3, <1>4, PartSize
<1> QED
  BY <1>1, <1>2, <1>4, <1>5 DEF InScene, Unit

\* A step that leaves the manager alone.
LEMMA ManagerRests ==
    ASSUME ObjectsInv, UNCHANGED managerVars
    PROVE  /\ ManagerTypeOK' /\ IdsUnique' /\ NamesAreLive' /\ DestructionsFindTheirs'
           /\ InScene' = InScene /\ (IdsFit => IdsFit')
  BY DEF ObjectsInv, SceneTypeOK, ManagerTypeOK, IdsUnique, NamesAreLive, DestructionsFindTheirs,
         InScene, Pending, Ids, IdsFit, managerVars, mapVars

LEMMA ConsumeKeeps ==
    ASSUME ObjectsInv, ConsumeWorldSnapshot
    PROVE  ObjectsInv'
<1>1. PICK S \in SUBSET Entities :
         /\ Cardinality(S) <= MaxPlayers /\ nextID + Cardinality(S) <= MaxID + 1
         /\ snapshot' = S /\ todo' = S
  BY DEF ConsumeWorldSnapshot
<1>2. /\ phase = "idle" /\ frames < Frames /\ phase' = "update" /\ frames' = frames + 1
      /\ UNCHANGED managerVars /\ visuals' = visuals
      /\ UNCHANGED <<objs, objMap, nameToID, createQ, destroyQ, nextID>>
  BY DEF ConsumeWorldSnapshot, managerVars, mapVars
<1>3. /\ ManagerTypeOK' /\ IdsUnique' /\ NamesAreLive' /\ DestructionsFindTheirs'
      /\ InScene' = InScene
  BY <1>2, ManagerRests
<1>4. SceneTypeOK'
  BY <1>1, <1>2, <1>3, FramesAssumption DEF ObjectsInv, SceneTypeOK
<1>5. IdsFit'
  BY <1>2, ManagerRests DEF ObjectsInv
<1>6. UnitsFit'
  BY <1>2, <1>3 DEF ObjectsInv, UnitsFit
<1>7. PhaseFits'
  BY <1>1, <1>2 DEF ObjectsInv, PhaseFits, Shown
<1>8. CountsFit'
  <2>1. IsFiniteSet(Entities) /\ MaxPlayers \in Nat
    BY EntitiesAssumption, PlayersAssumption
  <2>2. Cardinality(S) \in Nat
    BY <2>1, PartSize
  <2>3. /\ IsFiniteSet(objs) /\ Cardinality(objs) + Len(createQ) <= 1 + MaxPlayers
        /\ Cardinality(objs) \in Nat /\ Len(createQ) \in Nat
    BY <1>2, UnitsTyped, QueueFacts, FS_CardinalityType DEF ObjectsInv, CountsFit
  <2>4. Cardinality(objs) + Len(createQ) + Cardinality(S) <= 1 + 2 * MaxPlayers
    BY <1>1, <2>1, <2>2, <2>3
  <2> QED
    BY <1>1, <1>2, <2>3, <2>4 DEF CountsFit
<1> QED
  BY <1>2, <1>3, <1>4, <1>5, <1>6, <1>7, <1>8 DEF ObjectsInv

LEMMA NoSnapshotKeeps ==
    ASSUME ObjectsInv, UpdateWithoutSnapshot
    PROVE  ObjectsInv'
<1>1. /\ phase = "idle" /\ phase' = "submit" /\ UNCHANGED managerVars
      /\ UNCHANGED <<objs, objMap, nameToID, createQ, destroyQ, nextID>>
      /\ UNCHANGED <<snapshot, todo, visuals, frames>>
  BY DEF UpdateWithoutSnapshot, managerVars, mapVars
<1>2. /\ ManagerTypeOK' /\ IdsUnique' /\ NamesAreLive' /\ DestructionsFindTheirs'
      /\ InScene' = InScene /\ IdsFit'
  BY <1>1, ManagerRests DEF ObjectsInv
<1>3. SceneTypeOK'
  BY <1>1, <1>2 DEF ObjectsInv, SceneTypeOK
<1>4. UnitsFit' /\ PhaseFits' /\ CountsFit'
  BY <1>1, <1>2 DEF ObjectsInv, UnitsFit, PhaseFits, Shown, CountsFit
<1> QED
  BY <1>1, <1>2, <1>3, <1>4 DEF ObjectsInv

\* A player that is shown already.
LEMMA ShownKeeps ==
    ASSUME ObjectsInv, phase = "update", NEW entity \in todo, ~NotShown(entity),
           todo' = todo \ {entity}, UNCHANGED <<managerVars, visuals, phase, snapshot, frames>>
    PROVE  ObjectsInv'
<1>1. UNCHANGED <<objs, objMap, nameToID, createQ, destroyQ, nextID>>
  BY DEF managerVars, mapVars
<1>2. /\ ManagerTypeOK' /\ IdsUnique' /\ NamesAreLive' /\ DestructionsFindTheirs'
      /\ InScene' = InScene /\ IdsFit'
  BY ManagerRests DEF ObjectsInv
<1>3. SceneTypeOK' /\ UnitsFit'
  BY <1>1, <1>2 DEF ObjectsInv, SceneTypeOK, UnitsFit
<1>4. PhaseFits'
  BY <1>1 DEF ObjectsInv, PhaseFits, Shown, NotShown
<1>5. CountsFit'
  <2>1. Cardinality(todo') = Cardinality(todo) - 1 /\ Cardinality(todo) \in Nat
    BY UnitsTyped, FS_RemoveElement
  <2>2. /\ Cardinality(objs) \in Nat /\ Len(createQ) \in Nat /\ nextID \in Nat /\ MaxPlayers \in Nat
        /\ IsFiniteSet(objs) /\ MaxID \in Nat
    BY UnitsTyped, QueueFacts, FS_CardinalityType, PlayersAssumption DEF ObjectsInv, CountsFit
  <2> QED
    BY <1>1, <2>1, <2>2 DEF ObjectsInv, CountsFit
<1> QED
  BY <1>2, <1>3, <1>4, <1>5 DEF ObjectsInv

\* A new player gets a unit, which waits to be created.
LEMMA CreatedKeeps ==
    ASSUME ObjectsInv, phase = "update", NEW entity \in todo, NotShown(entity),
           todo' = todo \ {entity}, CreateObject(entity),
           visuals' = visuals \cup {[entity |-> entity, unit |-> NewUnit(entity)]},
           UNCHANGED <<phase, snapshot, frames>>
    PROVE  ObjectsInv'
<1> DEFINE u0 == NewUnit(entity)
           v0 == [entity |-> entity, unit |-> u0]
<1>1. u0 \in Unit /\ u0.id = nextID /\ FreeID = nextID /\ nextID <= MaxID
  BY NewUnitFits
<1>2. /\ createQ' = Append(createQ, u0) /\ nextID' = nextID + 1
      /\ UNCHANGED <<objs, objMap, nameToID, destroyQ>>
      /\ visuals' = visuals \cup {v0} /\ v0.entity = entity /\ v0.unit = u0
  BY <1>1 DEF CreateObject, mapVars
<1> HIDE DEF u0, v0
<1>3. /\ Pending' = Pending \cup {u0} /\ InScene' = InScene \cup {u0} /\ createQ' \in Seq(Unit)
      /\ Len(createQ') = Len(createQ) + 1 /\ Len(createQ) \in Nat
      /\ createQ'[Len(createQ) + 1] = u0
      /\ \A i \in 1 .. Len(createQ) : createQ'[i] = createQ[i] /\ createQ[i] \in InScene
      /\ DOMAIN createQ = 1 .. Len(createQ) /\ DOMAIN createQ' = 1 .. Len(createQ')
  <2>1. createQ \in Seq(Unit)
    BY UnitsTyped
  <2>2. Pending' = Pending \cup {u0}
    BY <1>1, <1>2, <2>1, ToSetOfAppend DEF Pending
  <2>3. createQ' \in Seq(Unit) /\ Len(createQ') = Len(createQ) + 1 /\ Len(createQ) \in Nat
        /\ createQ'[Len(createQ) + 1] = u0
        /\ \A i \in 1 .. Len(createQ) : createQ'[i] = createQ[i]
    BY <1>1, <1>2, <2>1, AppendFacts
  <2>4. \A i \in 1 .. Len(createQ) : createQ[i] \in InScene
    BY <2>1, QueueFacts DEF InScene, Pending
  <2> QED
    BY <1>2, <2>1, <2>2, <2>3, <2>4, QueueFacts DEF InScene
<1>4. /\ \A u \in InScene : u.id < nextID /\ u.id \in Nat /\ u # u0
      /\ nextID \in Nat /\ nextID >= 1 /\ MaxID \in Nat
      /\ objs \subseteq InScene /\ Pending \subseteq InScene
  BY <1>1, UnitsTyped DEF ObjectsInv, IdsFit, InScene
<1>5. entity \in Entities /\ entity \in snapshot
  BY DEF ObjectsInv, SceneTypeOK
<1>6. SceneTypeOK'
  <2>1. ManagerTypeOK'
    <3>1. nextID' \in 1 .. MaxID + 1
      BY <1>1, <1>2, <1>4
    <3> QED
      BY <1>2, <1>3, <3>1 DEF ObjectsInv, SceneTypeOK, ManagerTypeOK
  <2>2. visuals' \subseteq [entity : Entities, unit : Unit]
    <3>1. v0 \in [entity : Entities, unit : Unit]
      BY <1>1, <1>5 DEF v0
    <3> QED
      BY <1>2, <3>1 DEF ObjectsInv, SceneTypeOK
  <2> QED
    BY <2>1, <2>2 DEF ObjectsInv, SceneTypeOK
<1>7. IdsUnique'
  <2>1. \A u, v \in InScene \cup {u0} : u.id = v.id => u = v
    BY <1>1, <1>4 DEF ObjectsInv, IdsUnique, InScene
  <2>2. \A i, j \in 1 .. Len(createQ') : createQ'[i].id = createQ'[j].id => i = j
    <3>1. \A i \in 1 .. Len(createQ) : createQ'[i].id # u0.id
      BY <1>1, <1>3, <1>4
    <3>2. \A i, j \in 1 .. Len(createQ) : createQ'[i].id = createQ'[j].id => i = j
      BY <1>3 DEF ObjectsInv, IdsUnique
    <3> QED
      BY <1>3, <3>1, <3>2
  <2>3. objs \cap (Pending \cup {u0}) = {}
    BY <1>4 DEF ObjectsInv, IdsUnique
  <2> QED
    BY <1>2, <1>3, <2>1, <2>2, <2>3 DEF IdsUnique, InScene
<1>8. NamesAreLive' /\ DestructionsFindTheirs'
  BY <1>2 DEF ObjectsInv, NamesAreLive, DestructionsFindTheirs, Ids
<1>9. IdsFit'
  BY <1>1, <1>2, <1>3, <1>4 DEF ObjectsInv, IdsFit
<1>10. destroyQ = {}
  BY DEF ObjectsInv, PhaseFits
<1>11. UnitsFit'
  <2>1. \A v \in visuals : v.unit \in InScene /\ v.unit # u0 /\ v.entity # entity /\ v.unit # Terrain
    BY <1>4 DEF ObjectsInv, UnitsFit, NotShown, Shown
  <2>2. u0 # Terrain
    BY <1>4 DEF ObjectsInv, IdsFit
  <2>3. \A v \in visuals' : v.unit \in InScene' /\ v.unit # Terrain /\ v.unit.id \notin destroyQ'
    BY <1>2, <1>3, <1>10, <2>1, <2>2
  <2>4. \A v, w \in visuals' : v.entity = w.entity \/ v.unit = w.unit => v = w
    BY <1>2, <2>1 DEF ObjectsInv, UnitsFit
  <2>5. \A u \in InScene' : u = Terrain \/ u.id \in destroyQ' \/ \E v \in visuals' : v.unit = u
    BY <1>2, <1>3 DEF ObjectsInv, UnitsFit
  <2> QED
    BY <2>3, <2>4, <2>5 DEF UnitsFit
<1>12. PhaseFits'
  <2>1. Shown' = Shown \cup {entity}
    BY <1>2 DEF Shown
  <2> QED
    BY <1>2, <1>5, <1>10, <2>1 DEF ObjectsInv, PhaseFits
<1>13. CountsFit'
  <2>1. Cardinality(todo') = Cardinality(todo) - 1 /\ Cardinality(todo) \in Nat
    BY UnitsTyped, FS_RemoveElement
  <2>2. Cardinality(objs) \in Nat /\ MaxPlayers \in Nat /\ IsFiniteSet(objs)
    BY FS_CardinalityType, PlayersAssumption DEF ObjectsInv, CountsFit
  <2> QED
    BY <1>2, <1>3, <1>4, <2>1, <2>2 DEF ObjectsInv, CountsFit
<1> QED
  BY <1>6, <1>7, <1>8, <1>9, <1>11, <1>12, <1>13 DEF ObjectsInv

LEMMA EnsureKeeps ==
    ASSUME ObjectsInv, EnsurePlayerVisual
    PROVE  ObjectsInv'
<1>1. PICK entity \in todo :
         /\ todo' = todo \ {entity}
         /\ IF NotShown(entity)
            THEN /\ CreateObject(entity)
                 /\ visuals' = visuals \cup {[entity |-> entity, unit |-> NewUnit(entity)]}
            ELSE UNCHANGED <<managerVars, visuals>>
  BY DEF EnsurePlayerVisual
<1>2. phase = "update" /\ UNCHANGED <<phase, snapshot, frames>>
  BY DEF EnsurePlayerVisual
<1>3. CASE NotShown(entity)
  BY <1>1, <1>2, <1>3, CreatedKeeps
<1>4. CASE ~NotShown(entity)
  BY <1>1, <1>2, <1>4, ShownKeeps
<1> QED
  BY <1>3, <1>4

LEMMA RemoveKeeps ==
    ASSUME ObjectsInv, RemoveMissing
    PROVE  ObjectsInv'
<1> DEFINE missing == {v \in visuals : v.entity \notin snapshot}
           lost == {v.unit.id : v \in missing}
<1>1. /\ phase = "update" /\ todo = {} /\ phase' = "submit"
      /\ destroyQ' = destroyQ \cup Destroyed(lost) /\ visuals' = visuals \ missing
      /\ UNCHANGED <<objs, objMap, nameToID, createQ, nextID, snapshot, todo, frames>>
  BY DEF RemoveMissing, VisualsWithout, mapVars
<1>2. /\ \A v \in missing : v \in visuals /\ v.entity \notin snapshot
      /\ \A v \in visuals : v \in missing \/ v.entity \in snapshot
  OBVIOUS
<1>3. \A v \in missing : v.unit.id \in lost
  OBVIOUS
<1>4. \A id \in lost : \E v \in missing : id = v.unit.id
  OBVIOUS
<1> HIDE DEF missing, lost
<1>5. destroyQ = {} /\ objMap = objs
  BY <1>1 DEF ObjectsInv, PhaseFits, IdsFit
<1>6. \A v \in missing : v.unit \in objs /\ v.unit \in InScene /\ v.unit # Terrain
  BY <1>1, <1>2 DEF ObjectsInv, PhaseFits, UnitsFit
<1>7. destroyQ' = lost
  BY <1>1, <1>4, <1>5, <1>6 DEF Destroyed, Ids
<1>8. InScene' = InScene /\ Pending' = Pending
  BY <1>1 DEF InScene, Pending
<1>9. \A u, v \in InScene : u.id = v.id => u = v
  BY DEF ObjectsInv, IdsUnique, InScene
<1>10. SceneTypeOK'
  <2>1. \A u \in InScene : u.id \in 1 .. MaxID
    <3>1. /\ \A u \in InScene : u.id < nextID /\ u.id \in Nat /\ u.id # 0
          /\ nextID \in Nat /\ nextID <= MaxID + 1 /\ MaxID \in Nat
      BY <1>1, UnitsTyped DEF ObjectsInv, IdsFit, SceneTypeOK, ManagerTypeOK
    <3> QED
      BY <3>1
  <2>2. destroyQ' \subseteq 1 .. MaxID
    BY <1>4, <1>6, <1>7, <2>1
  <2>3. ManagerTypeOK'
    BY <1>1, <2>2 DEF ObjectsInv, SceneTypeOK, ManagerTypeOK
  <2> QED
    BY <1>1, <2>3 DEF ObjectsInv, SceneTypeOK
<1>11. IdsUnique' /\ NamesAreLive'
  BY <1>1, <1>8 DEF ObjectsInv, IdsUnique, NamesAreLive
<1>12. DestructionsFindTheirs'
  BY <1>1, <1>4, <1>5, <1>6, <1>7 DEF DestructionsFindTheirs, Ids
<1>13. IdsFit'
  <2>1. Terrain.id \notin lost
    BY <1>1, <1>4, <1>6, <1>9 DEF ObjectsInv, IdsFit
  <2> QED
    BY <1>1, <1>7, <1>8, <2>1 DEF ObjectsInv, IdsFit
<1>14. UnitsFit'
  <2>1. \A v \in visuals' : v \in visuals /\ v \notin missing
    BY <1>1
  <2>2. ASSUME NEW v \in visuals' PROVE v.unit.id \notin lost
    <3>1. \A w \in missing : v.unit # w.unit
      BY <1>1, <1>2, <2>1 DEF ObjectsInv, UnitsFit
    <3>2. v.unit \in InScene
      BY <1>1, <2>1 DEF ObjectsInv, UnitsFit
    <3> QED
      BY <1>4, <1>6, <1>9, <3>1, <3>2
  <2>3. ASSUME NEW u \in InScene, u # Terrain
        PROVE  u.id \in lost \/ \E v \in visuals' : v.unit = u
    <3>1. PICK v \in visuals : v.unit = u
      BY <1>1, <1>5, <2>3 DEF ObjectsInv, UnitsFit
    <3> QED
      BY <1>1, <1>3, <3>1
  <2>4. /\ \A v \in visuals' : v.unit \in InScene /\ v.unit # Terrain
        /\ \A v, w \in visuals' : v.entity = w.entity \/ v.unit = w.unit => v = w
    BY <1>1, <2>1 DEF ObjectsInv, UnitsFit
  <2> QED
    BY <1>7, <1>8, <2>2, <2>3, <2>4 DEF UnitsFit
<1>15. PhaseFits'
  <2>1. snapshot \subseteq Shown
    BY <1>1 DEF ObjectsInv, PhaseFits
  <2>2. Shown' = snapshot
    BY <1>1, <1>2, <2>1 DEF Shown
  <2> QED
    BY <1>1, <2>2 DEF PhaseFits
<1>16. CountsFit'
  BY <1>1 DEF ObjectsInv, CountsFit
<1> QED
  BY <1>1, <1>10, <1>11, <1>12, <1>13, <1>14, <1>15, <1>16 DEF ObjectsInv

\* After the queues are processed the units are the terrain and those the
\* scene points to.
LEMMA SubmitLeaves ==
    ASSUME ObjectsInv, SubmitObj
    PROVE  /\ objs' = {Terrain} \cup {v.unit : v \in visuals} /\ objMap' = objs'
           /\ objs' \subseteq InScene /\ \A u \in InScene : u \in objs' <=> u.id \notin destroyQ
           /\ createQ' = <<>> /\ destroyQ' = {} /\ Pending' = {} /\ InScene' = objs'
           /\ phase = "submit" /\ phase' = "idle"
           /\ UNCHANGED <<nextID, snapshot, todo, visuals, frames>>
<1> DEFINE gone == {u \in objs \cup Pending : u.id \in destroyQ}
<1>1. /\ phase = "submit" /\ phase' = "idle"
      /\ objs' = (objs \cup Pending) \ gone /\ objMap' = (objMap \cup Pending) \ gone
      /\ createQ' = <<>> /\ destroyQ' = {}
      /\ UNCHANGED <<nextID, snapshot, todo, visuals, frames>>
  BY DEF SubmitObj, ProcessPending, MapWithout
<1>2. objMap = objs
  BY <1>1 DEF ObjectsInv, IdsFit
<1>3. /\ objs' \subseteq InScene /\ \A u \in InScene : u \in objs' <=> u.id \notin destroyQ
      /\ objMap' = objs'
  BY <1>1, <1>2 DEF InScene
<1>4. Pending' = {} /\ InScene' = objs'
  <2>1. Pending' = {}
    BY <1>1 DEF Pending, ToSet
  <2> QED
    BY <2>1 DEF InScene
<1>5. objs' = {Terrain} \cup {v.unit : v \in visuals}
  <2>1. \A u \in objs' : u = Terrain \/ \E v \in visuals : v.unit = u
    BY <1>1, <1>3 DEF ObjectsInv, UnitsFit
  <2>2. Terrain \in objs' /\ \A v \in visuals : v.unit \in objs'
    BY <1>1, <1>3 DEF ObjectsInv, UnitsFit, IdsFit
  <2> QED
    BY <2>1, <2>2
<1> QED
  BY <1>1, <1>3, <1>4, <1>5

\* Each player shown has one unit, so there are no more units than players.
LEMMA UnitsCounted ==
    ASSUME ObjectsInv, phase = "submit"
    PROVE  LET S == {Terrain} \cup {v.unit : v \in visuals}
           IN  IsFiniteSet(S) /\ Cardinality(S) \in Nat /\ Cardinality(S) <= 1 + MaxPlayers
<1> DEFINE T == {v.unit : v \in visuals}
           g == [e \in snapshot |-> (CHOOSE v \in visuals : v.entity = e).unit]
<1>1. \A e \in snapshot : \E v \in visuals : v.entity = e
  BY DEF ObjectsInv, PhaseFits, Shown
<1>2. \A v \in visuals : v.entity \in snapshot
  BY DEF ObjectsInv, PhaseFits, Shown
<1>3. \A v, w \in visuals : v.entity = w.entity => v = w
  BY DEF ObjectsInv, UnitsFit
<1>4. \A v \in visuals : g[v.entity] = v.unit
  BY <1>2, <1>3
<1>5. g \in [snapshot -> T]
  BY <1>1
<1> HIDE DEF g
<1>6. ASSUME NEW t \in T PROVE \E e \in snapshot : g[e] = t
  <2>1. PICK v \in visuals : v.unit = t
    OBVIOUS
  <2> QED
    BY <1>2, <1>4, <2>1
<1>7. g \in Surjection(snapshot, T)
  BY <1>5, <1>6 DEF Surjection
<1> HIDE DEF T
<1>8. IsFiniteSet(T) /\ Cardinality(T) <= Cardinality(snapshot)
  BY <1>7, UnitsTyped, FS_Surjection
<1>9. Cardinality(T) \in Nat /\ Cardinality(snapshot) \in Nat /\ Cardinality(snapshot) <= MaxPlayers
  BY <1>8, UnitsTyped, FS_CardinalityType DEF ObjectsInv, CountsFit
<1>10. /\ IsFiniteSet(T \cup {Terrain})
       /\ Cardinality(T \cup {Terrain}) = IF Terrain \in T THEN Cardinality(T) ELSE Cardinality(T) + 1
  BY <1>8, FS_AddElement
<1>11. T \cup {Terrain} = {Terrain} \cup T
  OBVIOUS
<1> DEFINE c == Cardinality({Terrain} \cup T)
           k == Cardinality(T)
<1>12. IsFiniteSet({Terrain} \cup T) /\ (c = k \/ c = k + 1)
  BY <1>10, <1>11
<1>13. k \in Nat /\ k <= MaxPlayers /\ MaxPlayers \in Nat
  BY <1>8, <1>9, PlayersAssumption
<1> HIDE DEF k, c
<1>14. IsFiniteSet({Terrain} \cup T) /\ c \in Nat /\ c <= 1 + MaxPlayers
  BY <1>12, <1>13
<1> QED
  BY <1>14 DEF T, c

LEMMA SubmitKeeps ==
    ASSUME ObjectsInv, SubmitObj
    PROVE  ObjectsInv'
<1>1. /\ objs' = {Terrain} \cup {v.unit : v \in visuals} /\ objMap' = objs'
      /\ objs' \subseteq InScene /\ \A u \in InScene : u \in objs' <=> u.id \notin destroyQ
      /\ createQ' = <<>> /\ destroyQ' = {} /\ Pending' = {} /\ InScene' = objs'
      /\ phase = "submit" /\ phase' = "idle"
      /\ UNCHANGED <<nextID, snapshot, todo, visuals, frames>>
  BY SubmitLeaves
<1>2. \A v \in visuals : v.unit \in objs'
  BY <1>1
<1>3. \A u \in objs' : u = Terrain \/ \E v \in visuals : v.unit = u
  BY <1>1
<1> DEFINE gone == {u \in objs \cup Pending : u.id \in destroyQ}
<1>4. /\ nameToID' = {n \in NamesWithNew : \A u \in gone : u.name # n.name}
      /\ \A u \in InScene : u \in gone \/ u \in objs'
  BY <1>1 DEF SubmitObj, ProcessPending, NamesWithout, InScene
<1>5. createQ \in Seq(Unit) /\ DOMAIN createQ = 1 .. Len(createQ)
      /\ \A i \in 1 .. Len(createQ) : createQ[i] \in Unit /\ createQ[i] \in InScene
  BY UnitsTyped, QueueFacts DEF InScene, Pending
<1>6. \A n \in NamesWithNew : \E u \in InScene : u.id = n.id /\ u.name = n.name
  <2> SUFFICES ASSUME NEW n \in NamesWithNew PROVE \E u \in InScene : u.id = n.id /\ u.name = n.name
    OBVIOUS
  <2>1. CASE n \in nameToID
    BY <2>1 DEF ObjectsInv, NamesAreLive, InScene
  <2>2. CASE n \notin nameToID
    <3>1. PICK i \in NewNames : n = [name |-> createQ[i].name, id |-> createQ[i].id]
      BY <2>2 DEF NamesWithNew
    <3>2. i \in 1 .. Len(createQ)
      BY <1>5 DEF NewNames
    <3> QED
      BY <1>5, <3>1, <3>2
  <2> QED
    BY <2>1, <2>2
<1>7. NamesAreLive'
  <2> SUFFICES ASSUME NEW n \in nameToID' PROVE \E u \in objs' : u.id = n.id /\ u.name = n.name
    BY DEF NamesAreLive
  <2>1. PICK u \in InScene : u.id = n.id /\ u.name = n.name
    BY <1>4, <1>6
  <2>2. u \notin gone
    BY <1>4, <2>1
  <2> QED
    BY <1>4, <2>1, <2>2
<1>8. nameToID' \subseteq [name : Seq(0 .. 9), id : Nat \ {0}]
  <2>1. nameToID \subseteq [name : Seq(0 .. 9), id : Nat \ {0}]
    BY DEF ObjectsInv, SceneTypeOK, ManagerTypeOK
  <2>2. \A i \in NewNames : [name |-> createQ[i].name, id |-> createQ[i].id] \in [name : Seq(0 .. 9), id : Nat \ {0}]
    BY <1>5 DEF NewNames, Unit
  <2> QED
    BY <1>4, <2>1, <2>2 DEF NamesWithNew
<1>9. SceneTypeOK'
  <2>1. objs' \subseteq Unit /\ <<>> \in Seq(Unit)
    BY <1>1, UnitsTyped
  <2>2. ManagerTypeOK'
    BY <1>1, <1>8, <2>1 DEF ObjectsInv, SceneTypeOK, ManagerTypeOK
  <2> QED
    BY <1>1, <2>2 DEF ObjectsInv, SceneTypeOK
<1>10. IdsUnique' /\ DestructionsFindTheirs'
  <2>1. \A u, v \in InScene : u.id = v.id => u = v
    BY DEF ObjectsInv, IdsUnique, InScene
  <2>2. \A u, v \in objs' : u.id = v.id => u = v
    BY <1>1, <2>1
  <2>3. DOMAIN createQ' = {}
    BY <1>1
  <2> QED
    BY <1>1, <2>2, <2>3 DEF IdsUnique, DestructionsFindTheirs
<1>11. IdsFit'
  BY <1>1 DEF ObjectsInv, IdsFit
<1>12. UnitsFit'
  BY <1>1, <1>2, <1>3 DEF ObjectsInv, UnitsFit
<1>13. PhaseFits'
  BY <1>1, <1>2 DEF ObjectsInv, PhaseFits, Shown
<1>14. CountsFit'
  <2>1. IsFiniteSet(objs') /\ Cardinality(objs') \in Nat /\ Cardinality(objs') <= 1 + MaxPlayers
    BY <1>1, UnitsCounted
  <2>2. Len(createQ') = 0
    BY <1>1
  <2> QED
    BY <1>1, <2>1, <2>2 DEF ObjectsInv, CountsFit
<1> QED
  BY <1>1, <1>7, <1>9, <1>10, <1>11, <1>12, <1>13, <1>14 DEF ObjectsInv

LEMMA OnDestroyKeeps ==
    ASSUME ObjectsInv, OnDestroy
    PROVE  ObjectsInv'
<1>1. /\ phase' = "off" /\ visuals' = {} /\ objs' = {} /\ nameToID' = {}
      /\ createQ' = <<>> /\ destroyQ' = {} /\ nextID' = 1
      /\ UNCHANGED <<objMap, snapshot, todo, frames>>
  BY DEF OnDestroy, Clear
<1>2. SceneTypeOK'
  <2>1. ManagerTypeOK'
    <3>1. 1 \in 1 .. MaxID + 1 /\ <<>> \in Seq(Unit)
      BY MaxIDAssumption
    <3> QED
      BY <1>1, <3>1 DEF ObjectsInv, SceneTypeOK, ManagerTypeOK
  <2> QED
    BY <1>1, <2>1 DEF ObjectsInv, SceneTypeOK
<1>3. Pending' = {} /\ DOMAIN createQ' = {}
  BY <1>1 DEF Pending, ToSet
<1>4. IdsUnique' /\ NamesAreLive' /\ DestructionsFindTheirs'
  BY <1>1, <1>3 DEF IdsUnique, NamesAreLive, DestructionsFindTheirs
<1> QED
  BY <1>1, <1>2, <1>4 DEF ObjectsInv

LEMMA ObjectsInvKept ==
    ASSUME ObjectsInv, [SceneNext]_objectVars
    PROVE  ObjectsInv'
<1>1. CASE UNCHANGED objectVars
  <2>1. /\ UNCHANGED managerVars /\ UNCHANGED <<objs, objMap, nameToID, createQ, destroyQ, nextID>>
        /\ UNCHANGED <<phase, snapshot, todo, visuals, frames>>
    BY <1>1 DEF objectVars, sceneVars, managerVars, mapVars
  <2>2. /\ ManagerTypeOK' /\ IdsUnique' /\ NamesAreLive' /\ DestructionsFindTheirs'
        /\ InScene' = InScene /\ (IdsFit => IdsFit')
    BY <2>1, ManagerRests
  <2>3. SceneTypeOK'
    BY <2>1, <2>2 DEF ObjectsInv, SceneTypeOK
  <2>4. phase # "off" => UnitsFit' /\ PhaseFits' /\ CountsFit'
    BY <2>1, <2>2 DEF ObjectsInv, UnitsFit, PhaseFits, Shown, CountsFit
  <2> QED
    BY <2>1, <2>2, <2>3, <2>4 DEF ObjectsInv
<1> QED
  BY <1>1, ConsumeKeeps, NoSnapshotKeeps, EnsureKeeps, RemoveKeeps, SubmitKeeps, OnDestroyKeeps
     DEF SceneNext, DrawFrame

\* The inductive invariant of the scene and its manager: ids in order, exact
\* maps, one unit per player shown, and nothing destroyed that is not there yet
\* (ObjectManager.cpp:179-256, :350-401, TestScene.cpp:43-98).
THEOREM ObjectsInvAlways == SceneSpec => []ObjectsInv
  BY ObjectsInvStarts, ObjectsInvKept, PTL DEF SceneSpec

LEMMA SoundWhenObjectsFit == ObjectsInv => SceneIsSound /\ ScreenMatchesSnapshot
<1> SUFFICES ASSUME ObjectsInv PROVE SceneIsSound /\ ScreenMatchesSnapshot
  OBVIOUS
<1>1. MapIsExact \/ phase = "off"
  BY DEF ObjectsInv, IdsFit, MapIsExact
<1>2. VisualsAreThere
  BY DEF ObjectsInv, UnitsFit, VisualsAreThere, InScene
<1>3. OneUnitEach
  <2>1. CASE phase = "off"
    <3>1. Pending = {} /\ objs = {} /\ visuals = {}
      BY <2>1 DEF ObjectsInv, Pending, ToSet
    <3> QED
      BY <3>1 DEF OneUnitEach
  <2>2. CASE phase # "off"
    BY <2>2 DEF ObjectsInv, UnitsFit, OneUnitEach, InScene
  <2> QED
    BY <2>1, <2>2
<1>4. ScreenMatchesSnapshot
  <2> SUFFICES ASSUME phase = "idle"
               PROVE  Shown = snapshot /\ InScene = {Terrain} \cup {v.unit : v \in visuals}
    BY DEF ScreenMatchesSnapshot, InScene
  <2>1. Shown = snapshot /\ destroyQ = {}
    BY DEF ObjectsInv, PhaseFits
  <2>2. \A u \in InScene : u = Terrain \/ \E v \in visuals : v.unit = u
    BY <2>1 DEF ObjectsInv, UnitsFit
  <2>3. Terrain \in InScene /\ \A v \in visuals : v.unit \in InScene
    BY DEF ObjectsInv, UnitsFit, IdsFit
  <2> QED
    BY <2>1, <2>2, <2>3
<1> QED
  BY <1>1, <1>2, <1>3, <1>4 DEF ObjectsInv, SceneIsSound

\* Scene and manager agree in the middle of a frame, too, and no bare pointer
\* the scene keeps is left dangling, for any number of players, units and frames
\* (TestScene.cpp:86-94, :142, ObjectManager.cpp:179-256, :370-401).
THEOREM SceneAlwaysSound == SceneSpec => []SceneIsSound
  BY SoundWhenObjectsFit, ObjectsInvAlways, PTL

\* Between frames the scene shows who was in the last snapshot and nobody else,
\* though the manager ignores the destruction of what is not created yet
\* (TestScene.cpp:58-98, ObjectManager.cpp:246).
THEOREM ScreenAlwaysMatches == SceneSpec => []ScreenMatchesSnapshot
  BY SoundWhenObjectsFit, ObjectsInvAlways, PTL
=============================================================================
