---------------------------- MODULE WorldServer -----------------------------
(***************************************************************************)
(* YunoServerNetwork, the game server: the players of the sessions, their  *)
(* packet budgets, entering the world with a login token, movement input,  *)
(* acknowledgements, and the snapshots broadcast from Update and from      *)
(* every accepted entry.  Extends TcpServer, whose sessions it owns.       *)
(*                                                                         *)
(* Positions are counted in input steps away from the spawn point.  The    *)
(* numbers of snapshots and ticks, and the contents of messages, are left  *)
(* out: no property reads them.  The login server and the token table are  *)
(* the environment: it issues a token to a user who has none that is       *)
(* valid, and ends tokens by logout and by age.                            *)
(***************************************************************************)
EXTENDS TcpServer

CONSTANTS
    Users,
    Tokens,
    UserOf,                \* the user each token is issued to
    SnapshotIds,           \* ids a client may acknowledge
    FrameLists,            \* lists of input sequences in a C2S_MoveInput
    MaxPackets,            \* kMaxPacketsPerWindow
    MaxMoveInputPackets,   \* kMaxMoveInputPacketsPerWindow
    MaxDrops               \* kMaxDropsPerWindow

ASSUME WorldConstants ==
    /\ UserOf \in [Tokens -> Users]
    /\ SnapshotIds \subseteq Nat
    /\ FrameLists \subseteq Seq(Nat)
    /\ MaxPackets \in Nat /\ MaxMoveInputPackets \in Nat /\ MaxDrops \in Nat

VARIABLES
    players,         \* m_players: a function on the sessions with a player
    budgets,         \* m_sessionPacketBudgets: likewise
    nextEntityId,    \* m_nextEntityId
    fresh,           \* database: tokens not issued yet
    validTokens,     \* database: tokens that are neither expired nor revoked
    usedBy,          \* history: the sessions each token has let in
    unrevoked        \* history: tokens the server has let go unrevoked

playerVars == <<players, budgets, nextEntityId>>
tokenVars == <<fresh, validTokens, usedBy, unrevoked>>
vars == <<serverVars, sessionVars, playerVars, tokenVars>>

\* A player is in the world from its creation on, so inWorld is left out.
Player == [user : Users, token : Tokens, entityId : Nat \ {0},
           lastInput : Nat, lastAcked : Nat, steps : Nat]

Budget == [total : 0 .. MaxPackets, moves : 0 .. MaxMoveInputPackets,
           dropped : Nat]

TypeOK ==
    /\ ServerTypeOK
    /\ DOMAIN players \subseteq Sid /\ \A sid \in DOMAIN players : players[sid] \in Player
    /\ DOMAIN budgets \subseteq Sid /\ \A sid \in DOMAIN budgets : budgets[sid] \in Budget
    /\ nextEntityId \in Nat \ {0}
    /\ fresh \subseteq Tokens /\ validTokens \subseteq Tokens \ fresh
    /\ usedBy \in [Tokens -> SUBSET Sid] /\ unrevoked \subseteq Tokens

Init ==
    /\ ServerInit
    /\ players = <<>> /\ budgets = <<>> /\ nextEntityId = 1
    /\ fresh = Tokens /\ validTokens = {}
    /\ usedBy = [t \in Tokens |-> {}] /\ unrevoked = {}

\* A map without some of its keys, and with a key set or added.
Without(map, keys) == [key \in DOMAIN map \ keys |-> map[key]]
With(map, key, value) ==
    [k \in DOMAIN map \cup {key} |-> IF k = key THEN value ELSE map[k]]

-----------------------------------------------------------------------------
(* Disconnection.                                                          *)

\* Variant (TokenAdmitsOneSession): the token of a player who left is kept.
RevokeNothing(tokens, lost) == UNCHANGED <<validTokens, unrevoked>>

\* RevokeLoginTokenByHash for each of the tokens; any of the queries may fail.
\* The tokens in "lost" were dropped without a query.
RevokeLoginTokens(tokens, lost) ==
    \E failed \in SUBSET tokens :
       /\ validTokens' = validTokens \ (tokens \ failed)
       /\ unrevoked' = unrevoked \cup failed \cup lost

\* Variant (PlayersHaveSessions): only the budget of the session is erased.
OnDisconnectedKeepsPlayer(base, baseBudgets, dead, lost) ==
    /\ players' = base
    /\ budgets' = Without(baseBudgets, dead)
    /\ RevokeLoginTokens({base[sid].token : sid \in DOMAIN base \cap dead}, lost)

\* OnDisconnected for every session that reports its end in a step; base and
\* baseBudgets are the maps as the step has made them so far.
OnDisconnected(base, baseBudgets, dead, lost) ==
    /\ players' = Without(base, dead)
    /\ budgets' = Without(baseBudgets, dead)
    /\ RevokeLoginTokens({base[sid].token : sid \in DOMAIN base \cap dead}, lost)

\* The sessions that report their end in this step.
Reported == {sid \in Sid : link[sid] = "up" /\ link'[sid] = "ended"}

-----------------------------------------------------------------------------
(* The packet budget.                                                      *)

NewBudget == [total |-> 0, moves |-> 0, dropped |-> 0]

BudgetOf(sid) == IF sid \in DOMAIN budgets THEN budgets[sid] ELSE NewBudget

HasPacketBudget(sid, isMove) ==
    LET b == BudgetOf(sid)
    IN  b.total < MaxPackets /\ (isMove => b.moves < MaxMoveInputPackets)

\* The budgets after ConsumeSessionPacketBudget accepts a packet, or drops it.
Consumed(sid, isMove) ==
    LET b == BudgetOf(sid)
    IN  With(budgets, sid, [b EXCEPT !.total = @ + 1,
                                     !.moves = @ + (IF isMove THEN 1 ELSE 0)])

Dropped(sid) == With(budgets, sid, [BudgetOf(sid) EXCEPT !.dropped = @ + 1])

\* The window passes: the counters are reset before they are read again.
WindowPasses(sid) ==
    /\ running /\ sid \in DOMAIN budgets
    /\ budgets' = [budgets EXCEPT ![sid] = NewBudget]
    /\ UNCHANGED <<serverVars, sessionVars, players, nextEntityId, tokenVars>>

-----------------------------------------------------------------------------
(* Packets.  Each handler runs in a turn of the session it came from.      *)

Turn(sid) == strandQ' = StrandsAfter(sid) /\ lateReads' = LateAfter(sid)

\* A packet over the budget is dropped; too many of them and the session is
\* disconnected.
DropPacket(sid, isMove) ==
    /\ HandlerTurn(sid)
    /\ ~HasPacketBudget(sid, isMove)
    /\ budgets' = Dropped(sid)
    /\ \/ /\ budgets'[sid].dropped > MaxDrops
          /\ DisconnectSession(sid)
       \/ /\ budgets'[sid].dropped <= MaxDrops
          /\ UNCHANGED <<link, sessions>>
    /\ Turn(sid)
    /\ UNCHANGED <<running, acceptOp, nextSessionId, players, nextEntityId, tokenVars>>

\* A packet of an unknown type, a malformed one, and one its handler returns
\* from early: only the budget entry is left, even of a session that has gone.
IgnorePacket(sid, isMove) ==
    /\ HandlerTurn(sid)
    /\ HasPacketBudget(sid, isMove)
    /\ budgets' = Consumed(sid, isMove)
    /\ Turn(sid)
    /\ UNCHANGED <<serverVars, link, players, nextEntityId, tokenVars>>

\* A packet that is dispatched: RegisterPacketHandlers looks the session up.
Dispatched(sid, isMove) ==
    /\ HandlerTurn(sid)
    /\ HasPacketBudget(sid, isMove)
    /\ FindSession(sid)

\* What one broadcast sends: a snapshot to every player whose session is in
\* the map.
Snapshot(base) ==
    [sid \in Sid |-> IF sid \in DOMAIN base /\ FindSession(sid)
                     THEN <<<<"message">>>> ELSE <<>>]

\* Variant (UserOnceInWorld): a user may be in the world from any session.
AnyoneMayEnter(user, sid) == TRUE

\* No other session has the user in the world.
MayEnter(user, sid) ==
    \A other \in DOMAIN players : players[other].user = user => other = sid

\* The player of a session after it enters with a token: a new one, or the
\* player it has, back at a spawn point under another user.
Entered(sid, t) ==
    IF sid \in DOMAIN players
    THEN [players[sid] EXCEPT !.user = UserOf[t], !.token = t, !.steps = 0]
    ELSE [user |-> UserOf[t], token |-> t, entityId |-> nextEntityId,
          lastInput |-> 0, lastAcked |-> 0, steps |-> 0]

\* HandleEnterWorld, accepted, with SendSpawnEntity and BroadcastWorldSnapshot.
\* A send that finds its session full erases that player under the loop of the
\* broadcast: the loop may then stop early.  (It may also take the process
\* down, which leaves nothing to look at.)
HandleEnterWorld(sid, t) ==
    /\ Dispatched(sid, FALSE)
    /\ t \in validTokens
    /\ MayEnter(UserOf[t], sid)
    /\ LET base == With(players, sid, Entered(sid, t))
           snapshot == Snapshot(base)
           q == StrandsAfter(sid)
           lost == IF sid \in DOMAIN players THEN {players[sid].token} \ {t} ELSE {}
       IN  \E skipped \in SUBSET (DOMAIN base \ {sid}) :
             /\ SendAll([s \in Sid |-> IF s \in skipped THEN <<>>
                                       ELSE IF s = sid THEN snapshot[s] \o snapshot[s]
                                       ELSE snapshot[s]],
                        RunsAtOnce(TRUE, sid, q), sid, q, LateAfter(sid))
             /\ skipped # {} => Reported # {}
             /\ OnDisconnected(base, Consumed(sid, FALSE), Reported, lost)
    /\ nextEntityId' = IF sid \in DOMAIN players THEN nextEntityId ELSE nextEntityId + 1
    /\ usedBy' = [usedBy EXCEPT ![t] = @ \cup {sid}]
    /\ UNCHANGED <<running, acceptOp, nextSessionId, fresh>>

\* Variant (InputAppliedOnce): the last frame processed is processed again.
FramesFromLast(frames, last) ==
    {i \in DOMAIN frames : /\ frames[i] >= last
                           /\ \A j \in 1 .. i - 1 : frames[j] < frames[i]}

\* The frames of a list that are applied: each is newer than everything that
\* was processed before it.
AppliedFrames(frames, last) ==
    {i \in DOMAIN frames : /\ frames[i] > last
                           /\ \A j \in 1 .. i - 1 : frames[j] < frames[i]}

\* The last frame applied, or the last one before, when none is.
IsNewest(n, frames, last) ==
    n >= last /\ \A i \in DOMAIN frames : frames[i] <= n

\* HandleMoveInput, for the entity of the player (entity id 0 stands for it).
HandleMoveInput(sid, frames) ==
    /\ Dispatched(sid, TRUE)
    /\ sid \in DOMAIN players
    /\ LET last == players[sid].lastInput
           applied == AppliedFrames(frames, last)
       IN  \E n \in {frames[i] : i \in DOMAIN frames} \cup {last} :
             /\ IsNewest(n, frames, last)
             /\ players' = [players EXCEPT ![sid].steps = @ + Cardinality(applied),
                                           ![sid].lastInput = n]
    /\ budgets' = Consumed(sid, TRUE)
    /\ Turn(sid)
    /\ UNCHANGED <<serverVars, link, nextEntityId, tokenVars>>

\* Variant (ProgressIsKept): an acknowledgement is taken as it comes.
AckAsItComes(last, id) == id

NewestAck(last, id) == IF id > last THEN id ELSE last

HandleAckSnapshot(sid, id) ==
    /\ Dispatched(sid, FALSE)
    /\ sid \in DOMAIN players
    /\ players' = [players EXCEPT ![sid].lastAcked = NewestAck(@, id)]
    /\ budgets' = Consumed(sid, FALSE)
    /\ Turn(sid)
    /\ UNCHANGED <<serverVars, link, nextEntityId, tokenVars>>

HandlePing(sid) ==
    /\ Dispatched(sid, FALSE)
    /\ SendAll([s \in Sid |-> IF s = sid THEN <<<<"message">>>> ELSE <<>>],
               {sid}, sid, StrandsAfter(sid), LateAfter(sid))
    /\ OnDisconnected(players, Consumed(sid, FALSE), Reported, {})
    /\ UNCHANGED <<running, acceptOp, nextSessionId, nextEntityId, fresh, usedBy>>

-----------------------------------------------------------------------------
(* The rest of the server's steps.                                         *)

\* Update, when the snapshot interval has passed.
Update ==
    /\ running /\ PollIsDry
    /\ SendAll(Snapshot(players), RunsAtOnce(FALSE, 0, strandQ), 0, strandQ, lateReads)
    /\ OnDisconnected(players, budgets, Reported, {})
    /\ UNCHANGED <<running, acceptOp, nextSessionId, nextEntityId, fresh, usedBy>>

\* A deferred Send runs, or the link of a session fails.
SessionSteps(sid) ==
    /\ RunStrand(sid) \/ LinkFails(sid)
    /\ OnDisconnected(players, budgets, Reported, {})
    /\ UNCHANGED <<nextEntityId, fresh, usedBy>>

\* Stop revokes no token.
Stop ==
    /\ PollIsDry
    /\ StopServer
    /\ players' = <<>> /\ budgets' = <<>> /\ nextEntityId' = 1
    /\ unrevoked' = unrevoked \cup {players[sid].token : sid \in DOMAIN players}
    /\ UNCHANGED <<fresh, validTokens, usedBy>>

\* The login server issues a token to a user who has no valid one.
IssueToken(t) ==
    /\ t \in fresh
    /\ \A other \in validTokens : UserOf[other] # UserOf[t]
    /\ fresh' = fresh \ {t}
    /\ validTokens' = validTokens \cup {t}
    /\ UNCHANGED <<serverVars, sessionVars, playerVars, usedBy, unrevoked>>

\* A token expires, or its user logs out.
TokenEnds(t) ==
    /\ t \in validTokens
    /\ validTokens' = validTokens \ {t}
    /\ UNCHANGED <<serverVars, sessionVars, playerVars, fresh, usedBy, unrevoked>>

Network ==
    /\ \/ StartServer
       \/ Connect
       \/ running /\ AcceptHandler
       \/ \E sid \in Sid : HandlerWaits(sid) \/ QuietTurn(sid)
    /\ UNCHANGED <<playerVars, tokenVars>>

Packets(sid) ==
    \/ \E isMove \in BOOLEAN : DropPacket(sid, isMove) \/ IgnorePacket(sid, isMove)
    \/ \E t \in Tokens : HandleEnterWorld(sid, t)
    \/ \E frames \in FrameLists : HandleMoveInput(sid, frames)
    \/ \E id \in SnapshotIds : HandleAckSnapshot(sid, id)
    \/ HandlePing(sid)

Next ==
    \/ Network
    \/ Update
    \/ Stop
    \/ \E sid \in Sid : Packets(sid) \/ SessionSteps(sid) \/ WindowPasses(sid)
    \/ \E t \in Tokens : IssueToken(t) \/ TokenEnds(t)

Spec == Init /\ [][Next]_vars

-----------------------------------------------------------------------------
(* Properties.                                                             *)

\* A user is in the world from one session at a time, although sessions enter
\* with any of the user's tokens, enter again under another user, and leave in
\* steps of other sessions (YunoServerNetwork.cpp:222-231).
UserOnceInWorld ==
    \A s1, s2 \in DOMAIN players : players[s1].user = players[s2].user => s1 = s2

\* No two players share an entity, and none has one that is still to be given
\* out (YunoServerNetwork.cpp:240-243).
EntityIdsUnique ==
    /\ \A s1, s2 \in DOMAIN players :
         players[s1].entityId = players[s2].entityId => s1 = s2
    /\ \A sid \in DOMAIN players : players[sid].entityId < nextEntityId

\* Every player belongs to a session in the map: neither a packet that comes
\* late nor a session that ends inside a broadcast leaves a player behind, so
\* a later disconnection can still remove it (YunoServerNetwork.cpp:468-476).
PlayersHaveSessions == DOMAIN players \subseteq sessions

\* A token lets in one session, unless the server let go of it unrevoked: by a
\* failed query, by a second entry of its session, by Stop
\* (YunoServerNetwork.cpp:471, 238).
TokenAdmitsOneSession ==
    \A t \in Tokens \ unrevoked : Cardinality(usedBy[t]) <= 1

\* No input is applied twice: a player is never further from its spawn point
\* than the number of its newest input, however lists of frames overlap and
\* repeat (YunoServerNetwork.cpp:319-339).
InputAppliedOnce == \A sid \in DOMAIN players : players[sid].steps <= players[sid].lastInput

\* What a player has processed and acknowledged never goes back while it is in
\* the world, not even when it enters again (YunoServerNetwork.cpp:321, 369).
ProgressIsKept ==
    [][\A sid \in DOMAIN players \cap DOMAIN players' :
         /\ players[sid].lastInput <= players'[sid].lastInput
         /\ players[sid].lastAcked <= players'[sid].lastAcked]_vars

\* A broadcast from Update ends no session and erases no player, so its loop
\* over the players is safe; every Send waits for the next poll.  The loop of
\* an entry has no such guarantee (YunoServerNetwork.cpp:252, 436-459, 717).
UpdateEndsNobody ==
    [][Update => players' = players /\ sessions' = sessions]_vars

\* Documented: snapshots go to the clients that are connected (README.md:102).
SnapshotsGoToConnected ==
    \A sid \in Sid : Snapshot(players)[sid] # <<>> => link[sid] = "up"
=============================================================================
