---------------------------- MODULE LoginProofs -----------------------------
(***************************************************************************)
(* Proofs about LoginServer: between the check of a login and the store of *)
(* its token nobody gets an active one, and a leave touches its own token. *)
(***************************************************************************)
EXTENDS LoginServer, TcpServerProofs

\* A handler runs only while the server does, and it stores a token only for
\* a user who has none that is active.
LoginInv ==
    /\ ServerInv
    /\ TypeOK
    /\ request # Idle => running
    /\ request.at = "upsert" => ~Active(request.user)

\* A step takes no active token away.
KeepsActive == \A u \in Users : rows'[u].token # rows[u].token => ~Active(u)

\* A step leaves the row alone of a user who enters or leaves with another token.
KeepsNewLogin ==
    \A u \in Users :
      (inWorld'[u] # inWorld[u] /\ rows[u].token # inWorld[u]) => rows'[u] = rows[u]

LoginStep == KeepsActive /\ KeepsNewLogin

-----------------------------------------------------------------------------
(* Requests.                                                               *)

LEMMA RequestKinds ==
    ASSUME TypeOK
    PROVE  /\ request # Idle => request.sid \in Sid
           /\ request.at # "idle" => request # Idle
           /\ request.at \in {"create", "credentials", "active", "upsert"}
                => request \in UserRequest /\ request.user \in Users
           /\ request.at = "revoke" => request.token \in Tokens \cup {NoToken}
<1>1. request = Idle \/ request \in UserRequest \/ request \in TokenRequest
  BY DEF TypeOK
<1> QED
  BY <1>1 DEF Idle, UserRequest, TokenRequest

\* The rows, the users in the world and the history sets have their types.
TablesTypeOK ==
    /\ accounts \subseteq Users
    /\ rows \in [Users -> Row]
    /\ inWorld \in [Users -> Tokens \cup {NoToken}]
    /\ told \subseteq Tokens

\* Steps that leave the tables and the game server alone keep what is said of
\* them.
LEMMA SameRows ==
    ASSUME rows' = rows, inWorld' = inWorld
    PROVE  LoginStep /\ \A u \in Users : Active(u)' = Active(u)
  BY DEF LoginStep, KeepsActive, KeepsNewLogin, Active

\* A step that ends the request, or finds none.
LEMMA IdleStep ==
    ASSUME ServerInv', authenticated' \in SUBSET Sid, request' = Idle, TablesTypeOK'
    PROVE  LoginInv'
<1>1. TypeOK'
  BY DEF TypeOK, ServerInv, TablesTypeOK
<1>2. request'.at # "upsert"
  BY DEF Idle
<1> QED
  BY <1>1, <1>2 DEF LoginInv

LEMMA ReplyInv ==
    ASSUME LoginInv, running, NEW sid \in Sid, NEW auth \in SUBSET Sid, NEW q,
           NEW late \in SUBSET Sid, Reply(sid, auth, q, late)
    PROVE  /\ ServerInv' /\ authenticated' \in SUBSET Sid
           /\ request' = Idle /\ inWorld' = inWorld
<1>1. ServerInv'
  BY SendAllInv DEF LoginInv, Reply
<1> QED
  BY <1>1 DEF Reply

LEMMA AnswerInv ==
    ASSUME LoginInv, request.at # "idle", Answer
    PROVE  /\ ServerInv' /\ authenticated' \in SUBSET Sid
           /\ request' = Idle /\ inWorld' = inWorld
<1>1. request.sid \in Sid /\ running
  BY RequestKinds DEF LoginInv
<1>2. authenticated \in SUBSET Sid /\ lateReads \in SUBSET Sid
  BY DEF LoginInv, TypeOK, ServerTypeOK
<1> QED
  BY <1>1, <1>2, ReplyInv DEF Answer

LEMMA GoesInv ==
    ASSUME LoginInv, NEW next \in {"active", "upsert"}, Goes(next),
           request.at \in {"credentials", "active"},
           next = "upsert" => ~Active(request.user)
    PROVE  LoginInv' /\ LoginStep
<1>1. rows' = rows /\ inWorld' = inWorld
  BY DEF Goes, tableVars
<1>2. request \in UserRequest /\ request # Idle
  BY RequestKinds DEF LoginInv
<1>3. /\ request' \in UserRequest /\ request'.user = request.user
      /\ request'.at = next
  BY <1>2 DEF Goes, UserRequest
<1>4. ServerInv'
  <2>1. lateReads' \in SUBSET Sid /\ UNCHANGED <<serverVars, link>>
    BY DEF Goes, sessionVars, LoginInv, TypeOK, ServerTypeOK
  <2> QED
    BY <2>1, LinksUnchangedInv DEF LoginInv
<1>5. TypeOK'
  BY <1>3, <1>4 DEF Goes, tableVars, LoginInv, TypeOK, ServerInv
<1>6. running'
  BY <1>2 DEF Goes, serverVars, LoginInv
<1>7. (request.at = "upsert" => ~Active(request.user))'
  BY <1>1, <1>3 DEF Active
<1> QED
  BY <1>1, <1>4, <1>5, <1>6, <1>7, SameRows DEF LoginInv

-----------------------------------------------------------------------------
(* OnPacket, up to the first query.                                        *)

\* Steps of the login server between requests, that leave the tables alone.
LEMMA QuietInv ==
    ASSUME LoginInv, ServerInv', UNCHANGED <<request, tableVars, inWorld, told>>,
           request = Idle, authenticated' \in SUBSET Sid
    PROVE  LoginInv' /\ LoginStep
<1>1. TablesTypeOK'
  BY DEF TablesTypeOK, LoginInv, TypeOK, tableVars
<1> QED
  BY <1>1, IdleStep, SameRows DEF tableVars

LEMMA NextPacketInv ==
    ASSUME LoginInv, NEW sid \in Sid, NextPacket(sid)
    PROVE  /\ request = Idle /\ running
           /\ authenticated \in SUBSET Sid
           /\ LateAfter(sid) \in SUBSET Sid
  BY LateAfterSids DEF LoginInv, TypeOK, NextPacket, HandlerTurn

LEMMA IgnorePacketInv ==
    ASSUME LoginInv, NEW sid \in Sid, IgnorePacket(sid)
    PROVE  LoginInv' /\ LoginStep
<1>1. NextPacket(sid)
  BY DEF IgnorePacket
<1>2. ServerInv'
  BY <1>1, NextPacketInv, LinksUnchangedInv DEF LoginInv, IgnorePacket
<1>3. authenticated' \in SUBSET Sid
  BY <1>1, NextPacketInv DEF IgnorePacket
<1> QED
  BY <1>1, <1>2, <1>3, NextPacketInv, QuietInv DEF IgnorePacket

LEMMA RejectPacketInv ==
    ASSUME LoginInv, NEW sid \in Sid, RejectPacket(sid)
    PROVE  LoginInv' /\ LoginStep
<1>1. NextPacket(sid) /\ Reply(sid, authenticated, StrandsAfter(sid), LateAfter(sid))
  BY DEF RejectPacket
<1>2. ServerInv' /\ authenticated' \in SUBSET Sid /\ request' = Idle /\ inWorld' = inWorld
  BY <1>1, NextPacketInv, ReplyInv
<1> QED
  BY <1>1, <1>2, NextPacketInv, QuietInv DEF RejectPacket

LEMMA TakeRequestInv ==
    ASSUME LoginInv, NEW sid \in Sid, NEW first \in UserRequest \cup TokenRequest,
           first.at # "upsert", TakeRequest(sid, first)
    PROVE  LoginInv' /\ LoginStep
<1>1. NextPacket(sid)
  BY DEF TakeRequest
<1>2. ServerInv'
  BY <1>1, NextPacketInv, LinksUnchangedInv DEF LoginInv, TakeRequest
<1>3. TypeOK'
  BY <1>2 DEF TakeRequest, LoginInv, TypeOK, ServerInv, tableVars
<1>4. running'
  BY <1>1, NextPacketInv DEF TakeRequest, serverVars
<1>5. request'.at # "upsert" /\ rows' = rows /\ inWorld' = inWorld
  BY DEF TakeRequest, tableVars
<1> QED
  BY <1>2, <1>3, <1>4, <1>5, SameRows DEF LoginInv

LEMMA PacketsInv ==
    ASSUME LoginInv, NEW sid \in Sid, Packets(sid)
    PROVE  LoginInv' /\ LoginStep
<1>1. CASE IgnorePacket(sid) \/ RejectPacket(sid)
  BY <1>1, IgnorePacketInv, RejectPacketInv
<1>2. ASSUME NEW u \in Users, Register(sid, u) \/ Login(sid, u)
      PROVE  LoginInv' /\ LoginStep
  <2> DEFINE first(at) == [at |-> at, sid |-> sid, user |-> u]
  <2>1. \A at \in {"create", "credentials"} :
          first(at) \in UserRequest /\ first(at).at # "upsert"
    BY DEF UserRequest
  <2>2. TakeRequest(sid, first("create")) \/ TakeRequest(sid, first("credentials"))
    BY <1>2 DEF Register, Login
  <2> HIDE DEF first
  <2> QED
    BY <2>1, <2>2, TakeRequestInv
<1>3. ASSUME NEW t \in told \cup {NoToken}, Logout(sid, t)
      PROVE  LoginInv' /\ LoginStep
  <2> DEFINE first == [at |-> "revoke", sid |-> sid, token |-> t]
  <2>1. first \in TokenRequest /\ first.at # "upsert"
    BY DEF TokenRequest, LoginInv, TypeOK
  <2>2. TakeRequest(sid, first)
    BY <1>3 DEF Logout
  <2> HIDE DEF first
  <2> QED
    BY <2>1, <2>2, TakeRequestInv
<1> QED
  BY <1>1, <1>2, <1>3 DEF Packets

-----------------------------------------------------------------------------
(* The queries.                                                            *)

LEMMA CreateUserInv ==
    ASSUME LoginInv, CreateUser
    PROVE  LoginInv' /\ LoginStep
<1>1. request.user \in Users
  BY RequestKinds DEF LoginInv, CreateUser
<1>2. ServerInv' /\ authenticated' \in SUBSET Sid /\ request' = Idle /\ inWorld' = inWorld
  BY AnswerInv DEF CreateUser
<1>3. TablesTypeOK'
  BY <1>1, <1>2 DEF TablesTypeOK, LoginInv, TypeOK, CreateUser
<1> QED
  BY <1>2, <1>3, IdleStep, SameRows DEF CreateUser

\* The answer to a login that is refused, or fails before its token is stored.
LEMMA RefusedInv ==
    ASSUME LoginInv, request.at # "idle", Answer,
           UNCHANGED <<tableVars, told>>
    PROVE  LoginInv' /\ LoginStep
<1>1. ServerInv' /\ authenticated' \in SUBSET Sid /\ request' = Idle /\ inWorld' = inWorld
  BY AnswerInv
<1>2. TablesTypeOK'
  BY <1>1 DEF TablesTypeOK, LoginInv, TypeOK, tableVars
<1> QED
  BY <1>1, <1>2, IdleStep, SameRows DEF tableVars

LEMMA ValidateUserCredentialsInv ==
    ASSUME LoginInv, ValidateUserCredentials
    PROVE  LoginInv' /\ LoginStep
<1>1. request.at = "credentials"
  BY DEF ValidateUserCredentials
<1>2. CASE Goes("active")
  BY <1>1, <1>2, GoesInv
<1>3. CASE Answer /\ UNCHANGED <<tableVars, told>>
  BY <1>1, <1>3, RefusedInv
<1> QED
  BY <1>2, <1>3 DEF ValidateUserCredentials

LEMMA HasActiveLoginTokenInv ==
    ASSUME LoginInv, HasActiveLoginToken
    PROVE  LoginInv' /\ LoginStep
<1>1. request.at = "active"
  BY DEF HasActiveLoginToken
<1>2. CASE MayLogIn(request.user) /\ Goes("upsert")
  BY <1>1, <1>2, GoesInv DEF MayLogIn
<1>3. CASE Answer /\ UNCHANGED <<tableVars, told>>
  BY <1>1, <1>3, RefusedInv
<1> QED
  BY <1>2, <1>3 DEF HasActiveLoginToken

\* The token that is replaced was not active: nothing made it so since the check.
LEMMA StoreTokenInv ==
    ASSUME LoginInv, NEW u \in Users, ~Active(u), NEW t \in FreshTokens, StoreToken(u, t)
    PROVE  rows' \in [Users -> Row] /\ KeepsActive
<1>1. t \in Tokens /\ rows \in [Users -> Row]
  BY DEF FreshTokens, LoginInv, TypeOK
<1>2. [token |-> t, left |-> TokenTtl, revoked |-> FALSE] \in Row
  <2>1. TokenTtl \in 0 .. TokenTtl
    BY LoginConstants
  <2> QED
    BY <1>1, <2>1, Zenon DEF Row
<1>3. rows' \in [Users -> Row]
  BY <1>1, <1>2 DEF StoreToken
<1>4. \A v \in Users : v # u => rows'[v] = rows[v]
  BY <1>1 DEF StoreToken
<1> QED
  BY <1>3, <1>4 DEF KeepsActive

LEMMA UpsertLoginTokenInv ==
    ASSUME LoginInv, UpsertLoginToken
    PROVE  LoginInv' /\ LoginStep
<1> DEFINE u == request.user
           sid == request.sid
<1>1. request.at = "upsert" /\ u \in Users /\ sid \in Sid /\ running /\ ~Active(u)
  BY RequestKinds DEF LoginInv, UpsertLoginToken
<1>2. PICK t \in FreshTokens :
        \/ StoreToken(u, t) /\ Reply(sid, authenticated \cup {sid}, strandQ, lateReads)
             /\ (told' = told \ {rows[u].token} \/ told' = (told \ {rows[u].token}) \cup {t})
        \/ StoreToken(u, t) /\ Answer /\ told' = told \ {rows[u].token}
        \/ Answer /\ UNCHANGED <<rows, told>>
  BY DEF UpsertLoginToken
<1>3. accounts' = accounts
  BY DEF UpsertLoginToken
<1> HIDE DEF u, sid
<1>4. CASE Answer /\ UNCHANGED <<rows, told>>
  BY <1>1, <1>3, <1>4, RefusedInv DEF tableVars
<1>5. CASE /\ StoreToken(u, t)
           /\ \/ Reply(sid, authenticated \cup {sid}, strandQ, lateReads)
              \/ Answer
           /\ told' \subseteq told \cup {t}
  <2>1. authenticated \cup {sid} \in SUBSET Sid /\ lateReads \in SUBSET Sid
    BY <1>1 DEF LoginInv, TypeOK, ServerTypeOK
  <2>2. ServerInv' /\ authenticated' \in SUBSET Sid /\ request' = Idle /\ inWorld' = inWorld
    BY <1>1, <1>5, <2>1, ReplyInv, AnswerInv
  <2>3. rows' \in [Users -> Row] /\ KeepsActive
    BY <1>1, <1>5, StoreTokenInv
  <2>4. TablesTypeOK'
    BY <1>3, <1>5, <2>2, <2>3 DEF TablesTypeOK, LoginInv, TypeOK, FreshTokens
  <2> QED
    BY <2>2, <2>3, <2>4, IdleStep DEF LoginStep, KeepsNewLogin
<1> QED
  BY <1>2, <1>4, <1>5

\* Revoking keeps every token where it is and makes none active.
LEMMA RevokedRows ==
    ASSUME LoginInv, NEW t
    PROVE  /\ RevokedByHash(t) \in [Users -> Row]
           /\ \A u \in Users :
                /\ RevokedByHash(t)[u].token = rows[u].token
                /\ RevokedByHash(t)[u].left = rows[u].left
                /\ rows[u].revoked => RevokedByHash(t)[u].revoked
                /\ rows[u].token # t => RevokedByHash(t)[u] = rows[u]
<1>1. rows \in [Users -> Row]
  BY DEF LoginInv, TypeOK
<1> QED
  BY <1>1 DEF RevokedByHash, Row

LEMMA RevokeLoginTokenByHashInv ==
    ASSUME LoginInv, RevokeLoginTokenByHash
    PROVE  LoginInv' /\ LoginStep
<1> DEFINE t == request.token
<1>1. ServerInv' /\ authenticated' \in SUBSET Sid /\ request' = Idle /\ inWorld' = inWorld
  BY AnswerInv DEF RevokeLoginTokenByHash
<1>2. rows' \in {rows, RevokedByHash(t)}
  BY DEF RevokeLoginTokenByHash
<1>3. rows' \in [Users -> Row] /\ KeepsActive
  BY <1>2, RevokedRows DEF LoginInv, TypeOK, KeepsActive
<1>4. TablesTypeOK'
  BY <1>1, <1>3 DEF TablesTypeOK, LoginInv, TypeOK, RevokeLoginTokenByHash
<1> QED
  BY <1>1, <1>3, <1>4, IdleStep DEF LoginStep, KeepsNewLogin

LEMMA QueriesInv ==
    ASSUME LoginInv, Queries
    PROVE  LoginInv' /\ LoginStep
  BY CreateUserInv, ValidateUserCredentialsInv, HasActiveLoginTokenInv,
     UpsertLoginTokenInv, RevokeLoginTokenByHashInv DEF Queries

-----------------------------------------------------------------------------
(* The rest of the login server.                                           *)

LEMMA NetworkInv ==
    ASSUME LoginInv, Network
    PROVE  LoginInv' /\ LoginStep
<1>1. /\ UNCHANGED <<authenticated, request, tableVars, inWorld, told>>
      /\ \/ StartServer
         \/ Connect
         \/ request = Idle /\ running /\ AcceptHandler
         \/ \E sid \in Sid : request = Idle /\ QuietTurn(sid)
  BY DEF Network
<1>2. ServerInv'
  BY <1>1, StartServerInv, ConnectInv, AcceptHandlerInv, QuietTurnInv DEF LoginInv
<1>3. running' \/ request = Idle
  BY <1>1 DEF StartServer, Connect, LoginInv
<1>4. TypeOK'
  BY <1>1, <1>2 DEF tableVars, LoginInv, TypeOK, ServerInv
<1>5. LoginStep /\ \A u \in Users : Active(u)' = Active(u)
  BY <1>1, SameRows DEF tableVars
<1>6. (request.at = "upsert" => ~Active(request.user))'
  <2>1. request.at = "upsert" => request.user \in Users
    BY RequestKinds DEF LoginInv
  <2> QED
    BY <1>1, <1>5, <2>1 DEF LoginInv, Active, tableVars
<1> QED
  BY <1>1, <1>2, <1>3, <1>4, <1>5, <1>6 DEF LoginInv

LEMMA OnDisconnectedInv ==
    ASSUME LoginInv, NEW sid \in Sid, OnDisconnected(sid)
    PROVE  LoginInv' /\ LoginStep
<1>1. ServerInv'
  BY LinkFailsInv DEF LoginInv, OnDisconnected
<1>2. authenticated' \in SUBSET Sid
  BY DEF OnDisconnected, LoginInv, TypeOK
<1> QED
  BY <1>1, <1>2, QuietInv DEF OnDisconnected

LEMMA StopInv ==
    ASSUME LoginInv, Stop
    PROVE  LoginInv' /\ LoginStep
<1>1. ServerInv'
  BY StopServerInv DEF LoginInv, Stop
<1>2. authenticated' \in SUBSET Sid
  BY DEF Stop, LoginInv, TypeOK
<1> QED
  BY <1>1, <1>2, QuietInv DEF Stop

\* A process that is started anew has the server it begins with.
LEMMA FreshServerInv == ServerInit' => ServerInv'
  BY InitServerInv, PTL

LEMMA RestartInv ==
    ASSUME LoginInv, Restart
    PROVE  LoginInv' /\ LoginStep
<1>1. ServerInv'
  BY FreshServerInv DEF ServerInit, Restart
<1>2. authenticated' \in SUBSET Sid /\ request' = Idle
  BY DEF Restart
<1>3. TablesTypeOK' /\ rows' = rows /\ inWorld' = inWorld
  BY DEF TablesTypeOK, LoginInv, TypeOK, Restart, tableVars
<1> QED
  BY <1>1, <1>2, <1>3, IdleStep, SameRows

-----------------------------------------------------------------------------
(* The game server and the clock.                                          *)

\* They make no token active and leave the login server alone.
LEMMA OutsideInv ==
    ASSUME LoginInv,
           UNCHANGED <<serverVars, sessionVars, authenticated, request, accounts,
                       told>>,
           rows' \in [Users -> Row], inWorld' \in [Users -> Tokens \cup {NoToken}],
           \A u \in Users : Active(u)' => Active(u)
    PROVE  LoginInv'
<1>1. ServerInv'
  <2>1. lateReads' \in SUBSET Sid /\ UNCHANGED <<serverVars, link>>
    BY DEF sessionVars, LoginInv, TypeOK, ServerTypeOK
  <2> QED
    BY <2>1, LinksUnchangedInv DEF LoginInv
<1>2. TypeOK'
  BY <1>1 DEF LoginInv, TypeOK, ServerInv
<1>3. running' = running /\ request' = request
  BY DEF serverVars
<1>4. (request.at = "upsert" => ~Active(request.user))'
  <2>1. request.at = "upsert" => request.user \in Users
    BY RequestKinds DEF LoginInv
  <2> QED
    BY <1>3, <2>1 DEF LoginInv, Active
<1> QED
  BY <1>1, <1>2, <1>3, <1>4 DEF LoginInv

LEMMA EnterWorldInv ==
    ASSUME LoginInv, NEW u \in Users, EnterWorld(u)
    PROVE  LoginInv' /\ LoginStep
<1>1. rows' = rows /\ accounts' = accounts
  BY DEF EnterWorld, tableVars
<1>2. rows \in [Users -> Row] /\ inWorld' \in [Users -> Tokens \cup {NoToken}]
  BY DEF EnterWorld, LoginInv, TypeOK
<1>3. \A v \in Users : Active(v)' = Active(v)
  BY <1>1 DEF Active
<1>4. LoginInv'
  BY <1>1, <1>2, <1>3, OutsideInv DEF EnterWorld
<1> QED
  BY <1>1, <1>4 DEF LoginStep, KeepsActive, KeepsNewLogin

LEMMA LeaveWorldInv ==
    ASSUME LoginInv, NEW u \in Users, LeaveWorld(u)
    PROVE  LoginInv' /\ LoginStep
<1>1. rows' \in {rows, RevokedByHash(inWorld[u])}
  BY DEF LeaveWorld, RevokedOnLeave
<1>2. rows \in [Users -> Row] /\ inWorld \in [Users -> Tokens \cup {NoToken}]
  BY DEF LoginInv, TypeOK
<1>3. rows' \in [Users -> Row] /\ \A v \in Users :
        /\ rows'[v].token = rows[v].token /\ rows'[v].left = rows[v].left
        /\ rows[v].revoked => rows'[v].revoked
        /\ rows[v].token # inWorld[u] => rows'[v] = rows[v]
  BY <1>1, <1>2, RevokedRows
<1>4. inWorld' = [inWorld EXCEPT ![u] = NoToken]
  BY DEF LeaveWorld
<1>5. LoginInv'
  <2>1. inWorld' \in [Users -> Tokens \cup {NoToken}]
    BY <1>2, <1>4
  <2>2. \A v \in Users : Active(v)' => Active(v)
    BY <1>3 DEF Active
  <2> QED
    BY <1>3, <2>1, <2>2, OutsideInv DEF LeaveWorld
<1>6. \A v \in Users : inWorld'[v] # inWorld[v] => v = u
  BY <1>2, <1>4
<1> QED
  BY <1>3, <1>5, <1>6 DEF LoginStep, KeepsActive, KeepsNewLogin

LEMMA GameServerStopsInv ==
    ASSUME LoginInv, GameServerStops
    PROVE  LoginInv' /\ LoginStep
<1>1. rows' = rows /\ accounts' = accounts
  BY DEF GameServerStops, tableVars
<1>2. rows \in [Users -> Row] /\ inWorld' \in [Users -> Tokens \cup {NoToken}]
  BY DEF GameServerStops, LoginInv, TypeOK
<1>3. \A v \in Users : Active(v)' = Active(v)
  BY <1>1 DEF Active
<1>4. LoginInv'
  BY <1>1, <1>2, <1>3, OutsideInv DEF GameServerStops
<1> QED
  BY <1>1, <1>4 DEF LoginStep, KeepsActive, KeepsNewLogin

LEMMA TickInv ==
    ASSUME LoginInv, Tick
    PROVE  LoginInv' /\ LoginStep
<1>1. rows \in [Users -> Row] /\ inWorld \in [Users -> Tokens \cup {NoToken}]
  BY DEF LoginInv, TypeOK
<1>2. rows' = [u \in Users |-> [rows[u] EXCEPT !.left = Older(@)]] /\ inWorld' = inWorld
  BY DEF Tick
<1>3. \A left \in 0 .. TokenTtl : Older(left) \in 0 .. TokenTtl /\ Older(left) <= left
  BY LoginConstants DEF Older
<1>4. rows' \in [Users -> Row] /\ \A u \in Users :
        /\ rows[u].left \in 0 .. TokenTtl
        /\ rows'[u].token = rows[u].token /\ rows'[u].revoked = rows[u].revoked
        /\ rows'[u].left = Older(rows[u].left)
  BY <1>1, <1>2, <1>3 DEF Row
<1>5. \A u \in Users : Active(u)' => Active(u)
  <2>1. \A u \in Users : rows'[u].left > 0 => rows[u].left > 0
    BY <1>3, <1>4, LoginConstants
  <2> QED
    BY <1>4, <2>1 DEF Active
<1>6. LoginInv'
  BY <1>1, <1>2, <1>4, <1>5, OutsideInv DEF Tick
<1> QED
  BY <1>2, <1>4, <1>6 DEF LoginStep, KeepsActive, KeepsNewLogin

-----------------------------------------------------------------------------
(* The specification.                                                      *)

LEMMA InitLoginInv == Init => LoginInv
<1> SUFFICES ASSUME Init PROVE LoginInv
  OBVIOUS
<1>1. ServerInv
  BY InitServerInv DEF Init
<1>2. [token |-> NoToken, left |-> 0, revoked |-> FALSE] \in Row
  <2>1. 0 \in 0 .. TokenTtl
    BY LoginConstants
  <2> QED
    BY <2>1, Zenon DEF Row
<1>3. TypeOK
  BY <1>1, <1>2 DEF Init, TypeOK, ServerInv
<1> QED
  BY <1>1, <1>3 DEF Init, LoginInv, Idle

LEMMA StepLoginInv ==
    ASSUME LoginInv, [Next]_vars
    PROVE  LoginInv' /\ LoginStep
<1>1. CASE UNCHANGED vars
  <2>1. UNCHANGED <<serverVars, sessionVars, authenticated, request, accounts, told,
                    rows, inWorld>>
    BY <1>1 DEF vars, tableVars
  <2>2. rows \in [Users -> Row] /\ inWorld \in [Users -> Tokens \cup {NoToken}]
    BY DEF LoginInv, TypeOK
  <2> QED
    BY <2>1, <2>2, SameRows, OutsideInv
<1>2. CASE Next
  BY <1>2, NetworkInv, PacketsInv, OnDisconnectedInv, QueriesInv, StopInv, RestartInv,
     EnterWorldInv, LeaveWorldInv, GameServerStopsInv, TickInv DEF Next
<1> QED
  BY <1>1, <1>2

\* The inductive invariant of the login server, with the game server on the
\* same tables, the clock, and processes that die between two queries.
THEOREM LoginInvAlways == Spec => []LoginInv
<1>1. LoginInv /\ [Next]_vars => LoginInv'
  BY StepLoginInv
<1> QED
  BY <1>1, InitLoginInv, PTL DEF Spec

\* Types are kept: time left on a token never leaves its range, and no handler
\* leaves a request, a session or a row that makes no sense.
THEOREM TypesAlwaysKept == Spec => []TypeOK
<1>1. LoginInv => TypeOK
  BY DEF LoginInv
<1> QED
  BY <1>1, LoginInvAlways, PTL

\* A login never takes an active token away: the check stays true up to the
\* store, for any number of users, tokens and sessions.
THEOREM ActiveTokenAlwaysKept == Spec => ActiveTokenIsKept
<1>1. LoginInv /\ [Next]_vars =>
        [\A u \in Users : rows'[u].token # rows[u].token => ~Active(u)]_vars
  BY StepLoginInv DEF LoginStep, KeepsActive
<1> QED
  BY <1>1, LoginInvAlways, PTL DEF Spec, ActiveTokenIsKept

\* A leave never revokes the token of a later login.
THEOREM NewLoginAlwaysSurvives == Spec => NewLoginSurvives
<1>1. LoginInv /\ [Next]_vars =>
        [\A u \in Users :
           (inWorld'[u] # inWorld[u] /\ rows[u].token # inWorld[u]) =>
              rows'[u] = rows[u]]_vars
  BY StepLoginInv DEF LoginStep, KeepsNewLogin
<1> QED
  BY <1>1, LoginInvAlways, PTL DEF Spec, NewLoginSurvives
=============================================================================
