---------------------------- MODULE LoginServer -----------------------------
(***************************************************************************)
(* YunoLoginServerNetwork, its repository and the tables of accounts and   *)
(* tokens, with what the game server does to the same tables.  Extends     *)
(* TcpServer, whose sessions it owns.                                      *)
(*                                                                         *)
(* Each query is a step of its own: the game server's queries and the      *)
(* clock come between two queries of one handler.  The login server itself *)
(* does nothing else until the handler is done.  A query succeeds, fails,  *)
(* or takes effect although its answer is lost, which the caller takes for *)
(* a failure.  Passwords are left out: credentials are right or wrong.     *)
(*                                                                         *)
(* Tokens are random and never repeat; the model gives one out again when  *)
(* nobody has a use for it any more.                                       *)
(***************************************************************************)
EXTENDS TcpServer

CONSTANTS
    Users,
    Tokens,
    NoToken,
    TokenTtl      \* m_tokenTtlSeconds, in ticks

ASSUME LoginConstants == NoToken \notin Tokens /\ TokenTtl \in Nat \ {0}

VARIABLES
    authenticated,   \* m_sessions: the sessions whose login was accepted
    request,         \* the request being handled and the query it is at
    accounts,        \* table users
    rows,            \* table login_tokens: one row per user
    inWorld,         \* game server: the token each user entered with
    told             \* history: tokens in use that a client was told

tableVars == <<accounts, rows>>
vars == <<serverVars, sessionVars, authenticated, request, tableVars, inWorld, told>>

Idle == [at |-> "idle"]

UserRequest == [at : {"create", "credentials", "active", "upsert"},
                sid : Sid, user : Users]
TokenRequest == [at : {"revoke"}, sid : Sid, token : Tokens \cup {NoToken}]

Row == [token : Tokens \cup {NoToken}, left : 0 .. TokenTtl, revoked : BOOLEAN]

TypeOK ==
    /\ ServerTypeOK
    /\ authenticated \subseteq Sid
    /\ request \in {Idle} \cup UserRequest \cup TokenRequest
    /\ accounts \subseteq Users
    /\ rows \in [Users -> Row]
    /\ inWorld \in [Users -> Tokens \cup {NoToken}]
    /\ told \subseteq Tokens

Init ==
    /\ ServerInit
    /\ authenticated = {} /\ request = Idle
    /\ accounts = {}
    /\ rows = [u \in Users |-> [token |-> NoToken, left |-> 0, revoked |-> FALSE]]
    /\ inWorld = [u \in Users |-> NoToken]
    /\ told = {}

\* Variant (LockoutEnds): a token is active until it is revoked.
ActiveUntilRevoked(u) == rows[u].token # NoToken /\ ~rows[u].revoked

\* The row of a user holds a token that is neither revoked nor expired.
Active(u) == rows[u].token # NoToken /\ ~rows[u].revoked /\ rows[u].left > 0

-----------------------------------------------------------------------------
(* Replies.                                                                *)

\* The sessions that report their end in this step.
Reported == {sid \in Sid : link[sid] = "up" /\ link'[sid] = "ended"}

\* The handler ends with a message to its session; auth are the sessions
\* whose login is accepted by then, q and late what its turn left.
Reply(sid, auth, q, late) ==
    /\ SendAll([s \in Sid |-> IF s = sid THEN <<<<"message">>>> ELSE <<>>],
               RunsAtOnce(TRUE, sid, q), sid, q, late)
    /\ authenticated' = auth \ Reported
    /\ request' = Idle
    /\ UNCHANGED <<running, acceptOp, nextSessionId, inWorld>>

\* A later step of the handler replies, without a login.
Answer == Reply(request.sid, authenticated, strandQ, lateReads)

-----------------------------------------------------------------------------
(* OnPacket, up to the first query.                                        *)

NextPacket(sid) == request = Idle /\ HandlerTurn(sid)

\* A session whose login was accepted is not listened to any more, not even
\* when it logs out.
IgnorePacket(sid) ==
    /\ NextPacket(sid)
    /\ sid \in authenticated
    /\ strandQ' = StrandsAfter(sid) /\ lateReads' = LateAfter(sid)
    /\ UNCHANGED <<serverVars, link, authenticated, request, tableVars, inWorld, told>>

\* The packet is malformed, or has no token, no name or no password.
RejectPacket(sid) ==
    /\ NextPacket(sid)
    /\ sid \notin authenticated
    /\ Reply(sid, authenticated, StrandsAfter(sid), LateAfter(sid))
    /\ UNCHANGED <<tableVars, told>>

TakeRequest(sid, first) ==
    /\ NextPacket(sid)
    /\ sid \notin authenticated
    /\ request' = first
    /\ strandQ' = StrandsAfter(sid) /\ lateReads' = LateAfter(sid)
    /\ UNCHANGED <<serverVars, link, authenticated, tableVars, inWorld, told>>

Register(sid, u) == TakeRequest(sid, [at |-> "create", sid |-> sid, user |-> u])
Login(sid, u) == TakeRequest(sid, [at |-> "credentials", sid |-> sid, user |-> u])

\* With a token the client was told, or one that no row has.
Logout(sid, t) == TakeRequest(sid, [at |-> "revoke", sid |-> sid, token |-> t])

-----------------------------------------------------------------------------
(* The queries.                                                            *)

Goes(next) ==
    /\ request' = [request EXCEPT !.at = next]
    /\ UNCHANGED <<serverVars, sessionVars, authenticated, tableVars, inWorld,
                   told>>

\* A name that is taken, a failure, or a new account.
CreateUser ==
    /\ request.at = "create"
    /\ accounts' \in {accounts, accounts \cup {request.user}}
    /\ Answer
    /\ UNCHANGED <<rows, told>>

ValidateUserCredentials ==
    /\ request.at = "credentials"
    /\ \/ request.user \in accounts /\ Goes("active")
       \/ Answer /\ UNCHANGED <<tableVars, told>>

\* Variant (ActiveTokenIsKept): nobody is taken to be logged in.
NobodyIsLoggedIn(u) == TRUE

MayLogIn(u) == ~Active(u)

HasActiveLoginToken ==
    /\ request.at = "active"
    /\ \/ MayLogIn(request.user) /\ Goes("upsert")
       \/ Answer /\ UNCHANGED <<tableVars, told>>

FreshTokens == Tokens \ ({rows[u].token : u \in Users} \cup {inWorld[u] : u \in Users})

\* The row of the user now has token t; nobody has a use for its last token.
StoreToken(u, t) ==
    rows' = [rows EXCEPT ![u] = [token |-> t, left |-> TokenTtl, revoked |-> FALSE]]

\* The login is accepted once the token is stored; the client may get to know
\* it if the session is still up.  TouchLastLogin changes nothing else.
UpsertLoginToken ==
    /\ request.at = "upsert"
    /\ \E t \in FreshTokens :
         LET u == request.user
             known == told \ {rows[u].token}
             sid == request.sid
         IN  \/ /\ StoreToken(u, t)
                /\ Reply(sid, authenticated \cup {sid}, strandQ, lateReads)
                /\ \/ told' = known
                   \/ link[sid] = "up" /\ told' = known \cup {t}
             \/ /\ StoreToken(u, t)
                /\ Answer
                /\ told' = known
             \/ Answer /\ UNCHANGED <<rows, told>>
    /\ UNCHANGED accounts

\* The rows after the token is revoked by its hash, wherever it is.
RevokedByHash(t) ==
    [u \in Users |-> IF rows[u].token = t THEN [rows[u] EXCEPT !.revoked = TRUE]
                                          ELSE rows[u]]

RevokeLoginTokenByHash ==
    /\ request.at = "revoke"
    /\ rows' \in {rows, RevokedByHash(request.token)}
    /\ Answer
    /\ UNCHANGED <<accounts, told>>

-----------------------------------------------------------------------------
(* The rest of the login server.                                           *)

Network ==
    /\ \/ StartServer
       \/ Connect
       \/ request = Idle /\ running /\ AcceptHandler
       \/ \E sid \in Sid : request = Idle /\ QuietTurn(sid)
    /\ UNCHANGED <<authenticated, request, tableVars, inWorld, told>>

OnDisconnected(sid) ==
    /\ request = Idle
    /\ LinkFails(sid)
    /\ authenticated' = authenticated \ {sid}
    /\ UNCHANGED <<request, tableVars, inWorld, told>>

Stop ==
    /\ request = Idle /\ PollIsDry
    /\ StopServer
    /\ authenticated' = {}
    /\ UNCHANGED <<request, tableVars, inWorld, told>>

\* The process dies, between any two queries, or has stopped; another one may
\* be started.  The tables stay.
Restart ==
    /\ nextSessionId # 0 \/ running
    /\ running' = FALSE /\ acceptOp' = "none"
    /\ nextSessionId' = 0 /\ sessions' = {}
    /\ link' = [sid \in Sid |-> "unborn"]
    /\ lateReads' = {} /\ strandQ' = [sid \in Sid |-> <<>>]
    /\ authenticated' = {} /\ request' = Idle
    /\ UNCHANGED <<tableVars, inWorld, told>>

-----------------------------------------------------------------------------
(* The game server and the clock.  What follows the query of an entry, and *)
(* what precedes that of a leave, touches no table, so each is one step.   *)

\* From the session of the user that is in the world already, too.
EnterWorld(u) ==
    /\ Active(u) /\ rows[u].token \in told
    /\ inWorld' = [inWorld EXCEPT ![u] = rows[u].token]
    /\ UNCHANGED <<serverVars, sessionVars, authenticated, request, tableVars,
                   told>>

\* Variant (NewLoginSurvives): the token of the user is revoked, whichever it is.
RevokedByUser(u) == [rows EXCEPT ![u].revoked = TRUE]

RevokedOnLeave(u) == RevokedByHash(inWorld[u])

LeaveWorld(u) ==
    /\ inWorld[u] # NoToken
    /\ rows' \in {rows, RevokedOnLeave(u)}
    /\ inWorld' = [inWorld EXCEPT ![u] = NoToken]
    /\ UNCHANGED <<serverVars, sessionVars, authenticated, request, accounts,
                   told>>

\* The game server stops, or dies, and revokes nothing.
GameServerStops ==
    /\ \E u \in Users : inWorld[u] # NoToken
    /\ inWorld' = [u \in Users |-> NoToken]
    /\ UNCHANGED <<serverVars, sessionVars, authenticated, request, tableVars,
                   told>>

Older(left) == IF left > 0 THEN left - 1 ELSE 0

Tick ==
    /\ \E u \in Users : rows[u].left > 0
    /\ rows' = [u \in Users |-> [rows[u] EXCEPT !.left = Older(@)]]
    /\ UNCHANGED <<serverVars, sessionVars, authenticated, request, accounts,
                   inWorld, told>>

-----------------------------------------------------------------------------
Packets(sid) ==
    \/ IgnorePacket(sid)
    \/ RejectPacket(sid)
    \/ \E u \in Users : Register(sid, u) \/ Login(sid, u)
    \/ \E t \in told \cup {NoToken} : Logout(sid, t)

Queries ==
    \/ CreateUser
    \/ ValidateUserCredentials
    \/ HasActiveLoginToken
    \/ UpsertLoginToken
    \/ RevokeLoginTokenByHash

Next ==
    \/ Network
    \/ \E sid \in Sid : Packets(sid) \/ OnDisconnected(sid)
    \/ Queries
    \/ Stop
    \/ Restart
    \/ \E u \in Users : EnterWorld(u) \/ LeaveWorld(u)
    \/ GameServerStops
    \/ Tick

Spec == Init /\ [][Next]_vars

\* The clock does not stop.
FairSpec == Spec /\ WF_vars(Tick)

-----------------------------------------------------------------------------
(* Properties.                                                             *)

\* No login takes the token of a user away while it is active, although the
\* check and the store are queries with the game server's and the clock's in
\* between (YunoLoginServerNetwork.cpp:327-342).
ActiveTokenIsKept ==
    [][\A u \in Users : rows'[u].token # rows[u].token => ~Active(u)]_vars

\* A player who leaves with a token that has expired does not end the login its
\* user has made since (YunoServerNetwork.cpp:471).
NewLoginSurvives ==
    [][\A u \in Users :
         (inWorld'[u] # inWorld[u] /\ rows[u].token # inWorld[u]) =>
            rows'[u] = rows[u]]_vars

\* Nobody is locked out for good: whatever was lost, failed or died, a user can
\* log in again at some time (YunoLoginServerNetwork.cpp:334-339).
LockoutEnds == \A u \in Users : []<>MayLogIn(u)
=============================================================================
