---------------------------- MODULE MovementSync ----------------------------
(***************************************************************************)
(* One client and the game server: the entry into the world, the inputs    *)
(* the client sends and predicts with, the snapshots that correct it, and  *)
(* their acknowledgements.  The connection is what TcpSession, TcpServer   *)
(* and ClientNetwork make of it: in order in either direction (PacketPipe, *)
(* IncomingPipe), except that a reply from the session's own handler       *)
(* overtakes what waits on its strand (OnlyOwnRepliesOvertake); whatever   *)
(* the budgets of the server refuse is dropped (TcpSession.cpp:113,        *)
(* YunoServerNetwork.cpp:175).                                             *)
(*                                                                         *)
(* A position is the set of inputs that were added to the spawn point: who *)
(* adds an input twice, or not at all, shows.  How far the server and the  *)
(* prediction take one input is not part of it (their speeds differ:       *)
(* YunoServerNetwork.h:49, WorldPlayerState.h:55).                         *)
(***************************************************************************)
EXTENDS Naturals, Sequences

CONSTANTS
    Local,          \* the entity of this client's player
    Others,         \* entities other players get when they enter
    MaxInputs,      \* bound: inputs the client sends
    MaxSnapshots,   \* bound: snapshots the server makes
    MaxDrops,       \* kMaxDropsPerWindow: more and the session is closed
    MaxInFlight     \* bound: messages on their way when one is sent

ASSUME LocalIsOne == Local \notin Others
ASSUME SyncBounds ==
    /\ MaxInputs \in Nat
    /\ MaxSnapshots \in Nat
    /\ MaxDrops \in Nat
    /\ MaxInFlight \in Nat

VARIABLES
    (* the connection *)
    up,
    toServer,         \* what the server has not read
    deferred,         \* what waits on the strand of the session
    toClient,         \* what PumpIncoming has not popped
    (* the server *)
    inWorld,          \* the session has a player
    applied,          \* the player's position
    lastProcessed,    \* lastProcessedInputSequence
    lastAcked,        \* lastAckedSnapshotId
    snapshots,        \* m_nextSnapshotId - 1
    here,             \* entities of the other players
    drops,            \* droppedPacketsInWindow
    dropped,          \* history: inputs dropped
    (* the client *)
    enterRequested,   \* m_enterWorldRequested
    hasLocal,         \* hasLocalPlayer
    moveSequence,     \* m_moveSequence
    pending,          \* pendingLocalInputs
    base,             \* localServerX, Y and Z
    entities,         \* entities
    buffers,          \* keys of remoteInterpolationBuffers
    lastReceived      \* m_lastReceivedSnapshotId

connVars == <<up, toServer, deferred, toClient>>
playerVars == <<inWorld, applied, lastProcessed>>
serverVars == <<playerVars, lastAcked, snapshots, here>>
dropVars == <<drops, dropped>>
sendVars == <<enterRequested, moveSequence>>
viewVars == <<hasLocal, base, entities, buffers, lastReceived>>
clientVars == <<sendVars, viewVars, pending>>
vars == <<connVars, serverVars, dropVars, clientVars>>

Input == 1 .. MaxInputs

Enter == [kind |-> "enter", n |-> 0]
Move(n) == [kind |-> "move", n |-> n]
Ack(id) == [kind |-> "ack", n |-> id]
ToServer == {Enter} \cup {Move(n) : n \in Input} \cup {Ack(id) : id \in 1 .. MaxSnapshots}

Snapshot == [id : 1 .. MaxSnapshots, acked : 0 .. MaxSnapshots, processed : 0 .. MaxInputs,
             pos : SUBSET Input, entities : SUBSET (Others \cup {Local})]

\* The spawn message, sent with the player at the spawn point.
Spawn == [id |-> 0, acked |-> 0, processed |-> 0, pos |-> {}, entities |-> {Local}]

ToClient == Snapshot \cup {Spawn}

TypeOK ==
    /\ up \in BOOLEAN
    /\ toServer \in Seq(ToServer)
    /\ deferred \in Seq(Snapshot)
    /\ toClient \in Seq(ToClient)
    /\ inWorld \in BOOLEAN
    /\ applied \subseteq Input
    /\ lastProcessed \in 0 .. MaxInputs
    /\ lastAcked \in 0 .. MaxSnapshots
    /\ snapshots \in 0 .. MaxSnapshots
    /\ here \subseteq Others
    /\ drops \in 0 .. MaxDrops
    /\ dropped \subseteq Input
    /\ enterRequested \in BOOLEAN
    /\ hasLocal \in BOOLEAN
    /\ moveSequence \in 0 .. MaxInputs
    /\ pending \subseteq Input
    /\ base \subseteq Input
    /\ entities \subseteq Others \cup {Local}
    /\ buffers \subseteq Others \cup {Local}
    /\ lastReceived \in 0 .. MaxSnapshots

Init ==
    /\ up = TRUE
    /\ toServer = <<>> /\ deferred = <<>> /\ toClient = <<>>
    /\ inWorld = FALSE /\ applied = {} /\ lastProcessed = 0 /\ lastAcked = 0
    /\ snapshots = 0 /\ here = {}
    /\ drops = 0 /\ dropped = {}
    /\ enterRequested = FALSE /\ moveSequence = 0
    /\ hasLocal = FALSE /\ pending = {} /\ base = {}
    /\ entities = {} /\ buffers = {} /\ lastReceived = 0

-----------------------------------------------------------------------------
(* The client sends.  Nothing leaves a TcpClient without a session.        *)

Sent(m) == IF up THEN Append(toServer, m) ELSE toServer

\* Variant (SnapshotsInOrder): nobody remembers that the entry was asked for.
AskedAgain == FALSE

Asked == TRUE

\* OnUpdate asks to enter the world once, however the server answers.
RequestEnter ==
    /\ up /\ ~enterRequested
    /\ Len(toServer) < MaxInFlight
    /\ toServer' = Sent(Enter)
    /\ enterRequested' = Asked
    /\ UNCHANGED <<up, deferred, toClient, serverVars, dropVars, moveSequence, viewVars, pending>>

\* OnUpdate sends an input for every step of the input clock, also when
\* nobody presses a key and when the connection has gone.
SendInput ==
    /\ hasLocal
    /\ moveSequence < MaxInputs
    /\ Len(toServer) < MaxInFlight
    /\ moveSequence' = moveSequence + 1
    /\ toServer' = Sent(Move(moveSequence'))
    /\ pending' = pending \cup {moveSequence'}
    /\ UNCHANGED <<up, deferred, toClient, serverVars, dropVars, enterRequested, viewVars>>

-----------------------------------------------------------------------------
(* The client receives: the handlers that PumpIncoming dispatches to.      *)

\* The player is at the spawn point; what is pending stays pending.
PublishLocalPlayerSpawn ==
    /\ hasLocal' = TRUE
    /\ base' = {}
    /\ entities' = entities \cup {Local}
    /\ UNCHANGED <<buffers, lastReceived, pending>>

\* Variant (InputsAreCounted): the server has caught up, so nothing is pending.
PruneAll(m) == {}

\* Variant (ViewIsSound): only inputs before the last are removed.
PruneOlder(m) == {n \in pending : n >= m.processed}

Pruned(m) == {n \in pending : n > m.processed}

\* Variant (DepartedVanish): the entities of snapshots add up.
EntitiesSoFar(m) == entities \cup m.entities

Merged(m) == m.entities

IsLocal(e) == hasLocal /\ e = Local

PublishWorldSnapshot(m) ==
    /\ IF hasLocal /\ Local \in m.entities
       THEN base' = m.pos /\ pending' = Pruned(m)
       ELSE UNCHANGED <<base, pending>>
    /\ buffers' = {e \in m.entities : ~IsLocal(e)}
    /\ entities' = Merged(m)
    /\ lastReceived' = m.id
    /\ UNCHANGED hasLocal

AckOf(m) == Ack(m.id)

ClientReceives ==
    /\ toClient # <<>>
    /\ toClient' = Tail(toClient)
    /\ LET m == Head(toClient)
       IN  \/ /\ m = Spawn
              /\ PublishLocalPlayerSpawn
              /\ UNCHANGED toServer
           \/ /\ m # Spawn
              /\ PublishWorldSnapshot(m)
              /\ toServer' = Sent(AckOf(m))
    /\ UNCHANGED <<up, deferred, serverVars, dropVars, sendVars>>

-----------------------------------------------------------------------------
(* The server.                                                             *)

SnapshotNow(pos, others) ==
    [id |-> snapshots + 1, acked |-> lastAcked, processed |-> lastProcessed,
     pos |-> pos, entities |-> others \cup {Local}]

EnterReply == <<Spawn, SnapshotNow({}, here)>>

\* Both messages are sent from the session's own handler, at once.  A second
\* entry takes the player back to the spawn point.
HandleEnterWorld ==
    /\ Head(toServer) = Enter
    /\ snapshots < MaxSnapshots
    /\ inWorld' = TRUE
    /\ applied' = {}
    /\ snapshots' = snapshots + 1
    /\ toClient' = toClient \o EnterReply
    /\ UNCHANGED <<up, deferred, lastProcessed, lastAcked, here>>

\* Variant (InputsSettle): an input must follow the last one.
IsNext(n) == n = lastProcessed + 1

IsNew(n) == n > lastProcessed

HandleMoveInput ==
    /\ Head(toServer).kind = "move"
    /\ LET n == Head(toServer).n
       IN  IF inWorld /\ IsNew(n)
           THEN applied' = applied \cup {n} /\ lastProcessed' = n
           ELSE UNCHANGED <<applied, lastProcessed>>
    /\ UNCHANGED <<up, deferred, toClient, inWorld, lastAcked, snapshots, here>>

HandleAckSnapshot ==
    /\ Head(toServer).kind = "ack"
    /\ LET id == Head(toServer).n
       IN  lastAcked' = IF inWorld /\ id > lastAcked THEN id ELSE lastAcked
    /\ UNCHANGED <<up, deferred, toClient, playerVars, snapshots, here>>

ServerReceives ==
    /\ toServer # <<>>
    /\ toServer' = Tail(toServer)
    /\ HandleEnterWorld \/ HandleMoveInput \/ HandleAckSnapshot
    /\ UNCHANGED <<dropVars, clientVars>>

\* A budget is used up, or the entry is refused, and nobody is told.
ServerDrops ==
    /\ toServer # <<>>
    /\ LET m == Head(toServer)
       IN  /\ \/ m = Enter /\ UNCHANGED drops
              \/ drops < MaxDrops /\ drops' = drops + 1
           /\ dropped' = IF m.kind = "move" THEN dropped \cup {m.n} ELSE dropped
    /\ toServer' = Tail(toServer)
    /\ UNCHANGED <<up, deferred, toClient, serverVars, clientVars>>

\* A snapshot that is not sent from the session's own handler waits on its
\* strand.  A session without a player gets none.
Broadcast(others) ==
    /\ snapshots < MaxSnapshots
    /\ snapshots' = snapshots + 1
    /\ deferred' = IF inWorld /\ up THEN Append(deferred, SnapshotNow(applied, others)) ELSE deferred

\* Update, after a poll that left nothing on the strand.
Update ==
    /\ deferred = <<>>
    /\ Len(toClient) < MaxInFlight
    /\ Broadcast(here)
    /\ UNCHANGED <<up, toServer, toClient, playerVars, lastAcked, here, dropVars, clientVars>>

\* Another session enters the world ...
OtherEnters(e) ==
    /\ e \notin here
    /\ Len(deferred) < MaxInFlight
    /\ here' = here \cup {e}
    /\ Broadcast(here')
    /\ UNCHANGED <<up, toServer, toClient, playerVars, lastAcked, dropVars, clientVars>>

\* ... and leaves it, which nobody is told of before the next snapshot.
OtherLeaves(e) ==
    /\ e \in here
    /\ here' = here \ {e}
    /\ UNCHANGED <<connVars, playerVars, lastAcked, snapshots, dropVars, clientVars>>

RunDeferred ==
    /\ deferred # <<>>
    /\ deferred' = Tail(deferred)
    /\ toClient' = Append(toClient, Head(deferred))
    /\ UNCHANGED <<up, toServer, serverVars, dropVars, clientVars>>

\* The connection ends: the server forgets the player, the client goes on
\* with what has arrived.
LinkFails ==
    /\ up
    /\ up' = FALSE
    /\ toServer' = <<>> /\ deferred' = <<>>
    /\ \E k \in 0 .. Len(toClient) : toClient' = SubSeq(toClient, 1, k)
    /\ inWorld' = FALSE
    /\ UNCHANGED <<applied, lastProcessed, lastAcked, snapshots, here, dropVars, clientVars>>

-----------------------------------------------------------------------------
Client == RequestEnter \/ SendInput \/ ClientReceives

Server == ServerReceives \/ ServerDrops \/ Update \/ RunDeferred

Environment == LinkFails \/ \E e \in Others : OtherEnters(e) \/ OtherLeaves(e)

Next == Client \/ Server \/ Environment

Spec == Init /\ [][Next]_vars

\* The loops of both programs go on; a message that is not dropped arrives.
FairSpec ==
    /\ Spec
    /\ WF_vars(SendInput) /\ WF_vars(ClientReceives)
    /\ WF_vars(ServerReceives) /\ WF_vars(Update) /\ WF_vars(RunDeferred)

-----------------------------------------------------------------------------
(* Properties.                                                             *)

\* No input is counted both by the server and by the prediction ...
EachInputCountedOnce == base \cap pending = {}

\* ... the snapshot a client is said to have, the base of the next one, is one
\* it has received ...
AckedWasReceived ==
    /\ lastAcked <= lastReceived
    /\ \A i \in DOMAIN toClient : toClient[i].acked <= lastReceived

\* ... and no snapshot shows a client its own player before it knows it.
LocalNotInterpolated == Local \notin buffers /\ (entities # {} => hasLocal)

\* What the client shows agrees with what the server knows, although inputs,
\* snapshots and acknowledgements are all under way at once: position and
\* pruning come from one snapshot (WorldPlayerState.h:139-153), nothing is
\* acknowledged on either side that was not received (YunoServerNetwork.cpp:369,
\* YunoClientNetwork.cpp:223-232), and the own player is never interpolated as
\* if it were somebody else's (WorldPlayerState.h:129, :173).
ViewIsSound ==
    /\ TypeOK
    /\ EachInputCountedOnce
    /\ AckedWasReceived
    /\ LocalNotInterpolated

\* The inputs the player sees himself at: where TryGetReconciledLocalPosition
\* puts him.
Reconciled == base \cup pending

\* What the player has seen himself do is undone only where the server dropped
\* the input: no snapshot, late, queued or doubled, takes an input back
\* (WorldPlayerState.h:139-153, :207-235).
InputsAreCounted == [][Reconciled \ Reconciled' \subseteq dropped]_vars

\* Snapshots take effect in the order they were made in.  Nothing on the client
\* checks it (YunoClientNetwork.cpp:206): a reply to a second EnterWorld would
\* overtake the snapshots on the strand, and one request is all there is.
SnapshotsInOrder == [][lastReceived' >= lastReceived]_vars

\* Inputs get through: for all the server drops, one sent later is processed in
\* their stead (YunoServerNetwork.cpp:321) ...
InputsArrive ==
    \A n \in Input : n <= MaxInputs - MaxDrops =>
        (moveSequence >= n ~> lastProcessed >= n \/ ~up)

\* ... and the next snapshot takes them off the list of pending ones.
PendingSettles ==
    \A n \in Input :
        lastProcessed >= n /\ snapshots < MaxSnapshots ~> n \notin pending \/ ~up

\* Every input is settled, applied or passed over, while the connection lives:
\* the replay on top of a snapshot never grows old (WorldPlayerState.h:144-153).
InputsSettle == InputsArrive /\ PendingSettles

\* A player that left disappears from the client with the next snapshot,
\* though its leaving is not announced (YunoServerNetwork.cpp:462-480).
DepartedVanish ==
    \A e \in Others :
        e \notin here /\ inWorld /\ snapshots < MaxSnapshots
            ~> e \notin entities \/ e \in here \/ ~up
=============================================================================
