---------------------------- MODULE WorldProofs -----------------------------
(***************************************************************************)
(* Proofs about WorldServer: players, sessions, budgets and tokens agree,  *)
(* for any number of sessions, users and tokens.                           *)
(***************************************************************************)
EXTENDS WorldServer, TcpServerProofs

(***************************************************************************)
(* The parts of the invariant, over the maps p, b and the token sets, so   *)
(* that they can also be said of the maps in the middle of a step.         *)
(***************************************************************************)
IsMap(p) == p = [sid \in DOMAIN p |-> p[sid]]

GoodPlayers(p, next, inMap) ==
    /\ IsMap(p) /\ DOMAIN p \subseteq inMap
    /\ \A sid \in DOMAIN p : p[sid] \in Player
    /\ \A sid \in DOMAIN p : p[sid].user = UserOf[p[sid].token]
    /\ \A sid \in DOMAIN p : p[sid].steps <= p[sid].lastInput
    /\ \A sid \in DOMAIN p : p[sid].entityId < next
    /\ \A s1, s2 \in DOMAIN p : p[s1].user = p[s2].user => s1 = s2
    /\ \A s1, s2 \in DOMAIN p : p[s1].entityId = p[s2].entityId => s1 = s2

GoodBudgets(b) ==
    IsMap(b) /\ DOMAIN b \subseteq Sid /\ \A sid \in DOMAIN b : b[sid] \in Budget

\* A token that can still be used, and was not let go, belongs to the player
\* of every session it has let in; so it never lets in a second one.
GoodTokens(p, valid, letGo, used, new) ==
    /\ new \subseteq Tokens /\ valid \subseteq Tokens \ new
    /\ letGo \subseteq Tokens /\ used \in [Tokens -> SUBSET Sid]
    /\ \A t \in new : used[t] = {}
    /\ \A t \in valid \ letGo : \A sid \in used[t] : sid \in DOMAIN p /\ p[sid].token = t
    /\ \A t \in Tokens \ letGo : \A s1, s2 \in used[t] : s1 = s2

WorldInv ==
    /\ ServerInv
    /\ nextEntityId \in Nat \ {0}
    /\ GoodPlayers(players, nextEntityId, sessions)
    /\ GoodBudgets(budgets)
    /\ GoodTokens(players, validTokens, unrevoked, usedBy, fresh)

-----------------------------------------------------------------------------
(* Maps.                                                                   *)

LEMMA WithoutKeys ==
    ASSUME NEW p, NEW keys
    PROVE  /\ IsMap(Without(p, keys)) /\ DOMAIN Without(p, keys) = DOMAIN p \ keys
           /\ \A k \in DOMAIN p \ keys : Without(p, keys)[k] = p[k]
  BY DEF Without, IsMap

LEMMA WithKey ==
    ASSUME NEW p, NEW key, NEW value
    PROVE  /\ IsMap(With(p, key, value)) /\ DOMAIN With(p, key, value) = DOMAIN p \cup {key}
           /\ \A k \in DOMAIN p \cup {key} :
                 With(p, key, value)[k] = IF k = key THEN value ELSE p[k]
  BY DEF With, IsMap

LEMMA ExceptKey ==
    ASSUME NEW p, IsMap(p), NEW key \in DOMAIN p, NEW value
    PROVE  LET r == [p EXCEPT ![key] = value]
           IN  /\ IsMap(r) /\ DOMAIN r = DOMAIN p
               /\ \A k \in DOMAIN p : r[k] = IF k = key THEN value ELSE p[k]
  BY DEF IsMap

LEMMA EmptyMap == IsMap(<<>>) /\ DOMAIN <<>> = {}
  BY DEF IsMap

-----------------------------------------------------------------------------
(* Budgets.                                                                *)

LEMMA BudgetType ==
    ASSUME GoodBudgets(budgets), NEW sid
    PROVE  BudgetOf(sid) \in Budget
<1>1. NewBudget \in Budget
  BY WorldConstants DEF NewBudget, Budget
<1> QED
  BY <1>1 DEF BudgetOf, GoodBudgets

LEMMA BudgetSet ==
    ASSUME GoodBudgets(budgets), NEW sid \in Sid, NEW c \in Budget
    PROVE  GoodBudgets(With(budgets, sid, c))
<1> DEFINE b == With(budgets, sid, c)
<1>1. /\ IsMap(b) /\ DOMAIN b = DOMAIN budgets \cup {sid}
      /\ \A k \in DOMAIN budgets \cup {sid} : b[k] = IF k = sid THEN c ELSE budgets[k]
  BY DEF With, IsMap
<1> HIDE DEF b
<1>2. GoodBudgets(b)
  BY <1>1 DEF GoodBudgets
<1> QED
  BY <1>2 DEF b

LEMMA ConsumedGood ==
    ASSUME GoodBudgets(budgets), NEW sid \in Sid, NEW isMove \in BOOLEAN,
           HasPacketBudget(sid, isMove)
    PROVE  GoodBudgets(Consumed(sid, isMove))
<1> DEFINE b == BudgetOf(sid)
           c == [b EXCEPT !.total = @ + 1, !.moves = @ + (IF isMove THEN 1 ELSE 0)]
<1>1. b \in Budget
  BY BudgetType
<1>2. b.total < MaxPackets /\ (isMove => b.moves < MaxMoveInputPackets)
  BY DEF HasPacketBudget
<1>3. c \in Budget
  <2>1. /\ b.total \in 0 .. MaxPackets /\ b.moves \in 0 .. MaxMoveInputPackets
        /\ b.total + 1 \in 0 .. MaxPackets
        /\ b.moves + (IF isMove THEN 1 ELSE 0) \in 0 .. MaxMoveInputPackets
    BY <1>1, <1>2, WorldConstants DEF Budget
  <2> QED
    BY <1>1, <2>1 DEF Budget
<1>4. Consumed(sid, isMove) = With(budgets, sid, c)
  BY DEF Consumed
<1> HIDE DEF b, c
<1> QED
  BY <1>3, <1>4, BudgetSet

LEMMA DroppedGood ==
    ASSUME GoodBudgets(budgets), NEW sid \in Sid
    PROVE  GoodBudgets(Dropped(sid))
<1> DEFINE b == BudgetOf(sid)
           c == [b EXCEPT !.dropped = @ + 1]
<1>1. b \in Budget
  BY BudgetType
<1>2. c \in Budget
  BY <1>1 DEF Budget
<1>3. Dropped(sid) = With(budgets, sid, c)
  BY DEF Dropped
<1> HIDE DEF b, c
<1> QED
  BY <1>2, <1>3, BudgetSet

-----------------------------------------------------------------------------
(* Sessions that end inside a step.                                        *)

LEMMA EndedAreReported ==
    ASSUME ServerInv, NEW dead \in SUBSET {sid \in Sid : link[sid] = "up"}, NEW late,
           EndSessions(dead, late)
    PROVE  Reported = dead /\ sessions' = sessions \ dead
<1>1. \A sid \in Sid : link'[sid] = IF sid \in dead THEN "ended" ELSE link[sid]
  BY DEF EndSessions
<1> QED
  BY <1>1 DEF Reported, EndSessions, RemoveSessions

\* What a step of sends ends is what it reports, and leaves the map.
LEMMA SendAllReports ==
    ASSUME ServerInv, NEW batch, NEW now, NEW own, NEW q, NEW late,
           SendAll(batch, now, own, q, late)
    PROVE  sessions' = sessions \ Reported /\ (now = {} => Reported = {})
<1> DEFINE targets == {sid \in Sid : batch[sid] # <<>>}
<1>1. PICK full \in SUBSET {sid \in targets \ Waiting(targets, now) : link[sid] = "up"} :
      \E more \in SUBSET (full \ {own}) : EndSessions(full, late \cup more)
  BY DEF SendAll, Waiting
<1>2. PICK more \in SUBSET (full \ {own}) : EndSessions(full, late \cup more)
  BY <1>1
<1>3. full \in SUBSET {sid \in Sid : link[sid] = "up"}
  OBVIOUS
<1>4. Reported = full /\ sessions' = sessions \ full
  BY <1>2, <1>3, EndedAreReported
<1>5. now = {} => full = {}
  BY DEF Waiting
<1> QED
  BY <1>4, <1>5

LEMMA SessionStepsReport ==
    ASSUME ServerInv, NEW sid \in Sid, RunStrand(sid) \/ LinkFails(sid)
    PROVE  sessions' = sessions \ Reported
<1>1. CASE RunStrand(sid)
  BY <1>1, SendAllReports DEF RunStrand
<1>2. CASE LinkFails(sid)
  <2>1. PICK more \in SUBSET {sid} : EndSessions({sid}, LateAfter(sid) \cup more)
    BY <1>2 DEF LinkFails
  <2>2. {sid} \in SUBSET {s \in Sid : link[s] = "up"}
    BY <1>2 DEF LinkFails
  <2> QED
    BY <2>1, <2>2, EndedAreReported
<1> QED
  BY <1>1, <1>2

(***************************************************************************)
(* OnDisconnected keeps the maps good that a step has made before it; the  *)
(* tokens it does not revoke count as let go.                              *)
(***************************************************************************)
LEMMA LeaversGood ==
    ASSUME NEW base, NEW b, NEW next, NEW used, NEW dead, NEW lost,
           GoodPlayers(base, next, sessions), GoodBudgets(b),
           GoodTokens(base, validTokens, unrevoked \cup lost, used, fresh),
           OnDisconnected(base, b, dead, lost), sessions' = sessions \ dead
    PROVE  /\ GoodPlayers(players', next, sessions') /\ GoodBudgets(budgets')
           /\ GoodTokens(players', validTokens', unrevoked', used, fresh)
<1> DEFINE gone == {base[sid].token : sid \in DOMAIN base \cap dead}
<1>1. /\ players' = Without(base, dead) /\ budgets' = Without(b, dead)
      /\ RevokeLoginTokens(gone, lost)
  BY DEF OnDisconnected
<1>2. PICK failed \in SUBSET gone :
        /\ validTokens' = validTokens \ (gone \ failed)
        /\ unrevoked' = unrevoked \cup failed \cup lost
  BY <1>1 DEF RevokeLoginTokens
<1>3. /\ IsMap(players') /\ DOMAIN players' = DOMAIN base \ dead
      /\ \A sid \in DOMAIN players' : players'[sid] = base[sid]
  <2>1. /\ IsMap(Without(base, dead)) /\ DOMAIN Without(base, dead) = DOMAIN base \ dead
        /\ \A k \in DOMAIN base \ dead : Without(base, dead)[k] = base[k]
    BY WithoutKeys
  <2> QED
    BY <1>1, <2>1
<1>4. GoodPlayers(players', next, sessions')
  BY <1>3 DEF GoodPlayers
<1>5. GoodBudgets(budgets')
  <2>1. /\ IsMap(Without(b, dead)) /\ DOMAIN Without(b, dead) = DOMAIN b \ dead
        /\ \A k \in DOMAIN b \ dead : Without(b, dead)[k] = b[k]
    BY WithoutKeys
  <2> QED
    BY <1>1, <2>1 DEF GoodBudgets
<1>6. gone \subseteq Tokens
  BY DEF GoodPlayers, Player
<1>7. GoodTokens(players', validTokens', unrevoked', used, fresh)
  <2>1. ASSUME NEW t \in validTokens' \ unrevoked', NEW sid \in used[t]
        PROVE  sid \in DOMAIN players' /\ players'[sid].token = t
    <3>1. t \in validTokens \ (unrevoked \cup lost) /\ t \notin gone
      BY <1>2
    <3>2. sid \in DOMAIN base /\ base[sid].token = t
      BY <3>1 DEF GoodTokens
    <3>3. sid \notin dead
      BY <3>1, <3>2
    <3> QED
      BY <1>3, <3>2, <3>3
  <2>2. unrevoked' \subseteq Tokens /\ unrevoked \cup lost \subseteq unrevoked'
    BY <1>2, <1>6 DEF GoodTokens
  <2>3. validTokens' \subseteq validTokens
    BY <1>2
  <2> QED
    BY <2>1, <2>2, <2>3 DEF GoodTokens
<1> QED
  BY <1>4, <1>5, <1>7

-----------------------------------------------------------------------------
(* Entering.                                                               *)

LEMMA EnteredType ==
    ASSUME WorldInv, NEW sid \in Sid, NEW t \in Tokens
    PROVE  LET e == Entered(sid, t)
           IN  /\ e \in Player /\ e.user = UserOf[t] /\ e.token = t /\ e.steps = 0
               /\ sid \in DOMAIN players =>
                    /\ e.entityId = players[sid].entityId
                    /\ e.lastInput = players[sid].lastInput
                    /\ e.lastAcked = players[sid].lastAcked
               /\ sid \notin DOMAIN players => e.entityId = nextEntityId
<1> DEFINE e == Entered(sid, t)
<1>1. UserOf[t] \in Users
  BY WorldConstants
<1>2. CASE sid \in DOMAIN players
  <2>1. e = [players[sid] EXCEPT !.user = UserOf[t], !.token = t, !.steps = 0]
    BY <1>2 DEF Entered
  <2>2. players[sid] \in Player
    BY <1>2 DEF WorldInv, GoodPlayers
  <2> DEFINE old == players[sid]
  <2> HIDE DEF e, old
  <2>3. old \in Player /\ e = [old EXCEPT !.user = UserOf[t], !.token = t, !.steps = 0]
    BY <2>1, <2>2 DEF old
  <2>4. e \in Player /\ e.user = UserOf[t] /\ e.token = t /\ e.steps = 0
    BY <1>1, <2>3 DEF Player
  <2>5. /\ e.entityId = old.entityId /\ e.lastInput = old.lastInput
        /\ e.lastAcked = old.lastAcked
    BY <2>3 DEF Player
  <2> QED
    BY <1>2, <2>4, <2>5 DEF e, old
<1>3. CASE sid \notin DOMAIN players
  <2>1. e = [user |-> UserOf[t], token |-> t, entityId |-> nextEntityId,
             lastInput |-> 0, lastAcked |-> 0, steps |-> 0]
    BY <1>3 DEF Entered
  <2>2. nextEntityId \in Nat \ {0}
    BY DEF WorldInv
  <2> QED
    BY <1>1, <1>3, <2>1, <2>2 DEF Player
<1> QED
  BY <1>2, <1>3

\* The maps with the player that enters, before the sends of the step.
LEMMA EnterGood ==
    ASSUME WorldInv, NEW sid \in sessions, NEW t \in validTokens, MayEnter(UserOf[t], sid)
    PROVE  LET base == With(players, sid, Entered(sid, t))
               next == IF sid \in DOMAIN players THEN nextEntityId ELSE nextEntityId + 1
               lost == IF sid \in DOMAIN players THEN {players[sid].token} \ {t} ELSE {}
               used == [usedBy EXCEPT ![t] = @ \cup {sid}]
           IN  /\ GoodPlayers(base, next, sessions)
               /\ GoodTokens(base, validTokens, unrevoked \cup lost, used, fresh)
<1> DEFINE e == Entered(sid, t)
           base == With(players, sid, e)
           next == IF sid \in DOMAIN players THEN nextEntityId ELSE nextEntityId + 1
           lost == IF sid \in DOMAIN players THEN {players[sid].token} \ {t} ELSE {}
           used == [usedBy EXCEPT ![t] = @ \cup {sid}]
<1>1. sid \in Sid /\ t \in Tokens /\ t \notin fresh
  BY DEF WorldInv, ServerInv, ServerTypeOK, GoodTokens
<1>2. /\ e \in Player /\ e.user = UserOf[t] /\ e.token = t /\ e.steps = 0
      /\ sid \in DOMAIN players => e.entityId = players[sid].entityId
      /\ sid \notin DOMAIN players => e.entityId = nextEntityId
  BY <1>1, EnteredType
<1>3. /\ IsMap(base) /\ DOMAIN base = DOMAIN players \cup {sid}
      /\ base[sid] = e
      /\ \A s \in DOMAIN players \ {sid} : base[s] = players[s]
  BY DEF With, IsMap
<1>4. /\ nextEntityId \in Nat \ {0} /\ next \in Nat
      /\ nextEntityId <= next /\ (sid \notin DOMAIN players => nextEntityId < next)
  BY DEF WorldInv
<1>5. \A s \in DOMAIN players : /\ players[s] \in Player
                                /\ players[s].entityId \in Nat
                                /\ players[s].entityId < nextEntityId
  BY DEF WorldInv, GoodPlayers, Player
<1>6. \A s \in DOMAIN players \ {sid} : players[s].user # UserOf[t]
  BY DEF MayEnter
<1>7. GoodPlayers(base, next, sessions)
  <2> HIDE DEF base, e, next
  <2>1. DOMAIN base \subseteq sessions /\ \A s \in DOMAIN base : base[s] \in Player
    BY <1>2, <1>3, <1>5 DEF WorldInv, GoodPlayers
  <2>2. \A s \in DOMAIN base : /\ base[s].user = UserOf[base[s].token]
                               /\ base[s].steps <= base[s].lastInput
    BY <1>2, <1>3 DEF WorldInv, GoodPlayers, Player
  <2>3. \A s \in DOMAIN base : base[s].entityId < next
    <3> TAKE s \in DOMAIN base
    <3>1. CASE s \in DOMAIN players
      <4>1. base[s].entityId = players[s].entityId
        BY <3>1, <1>2, <1>3
      <4> QED
        BY <3>1, <4>1, <1>4, <1>5
    <3>2. CASE s \notin DOMAIN players
      <4>1. base[s].entityId = nextEntityId
        BY <3>2, <1>2, <1>3
      <4> QED
        BY <3>2, <4>1, <1>3, <1>4
    <3> QED
      BY <3>1, <3>2
  <2>4. \A s1, s2 \in DOMAIN base : base[s1].user = base[s2].user => s1 = s2
    BY <1>2, <1>3, <1>6 DEF WorldInv, GoodPlayers
  <2>5. \A s1, s2 \in DOMAIN base : base[s1].entityId = base[s2].entityId => s1 = s2
    <3>1. \A s \in DOMAIN players : base[s].entityId = players[s].entityId
      BY <1>2, <1>3
    <3>2. \A s \in DOMAIN players : players[s].entityId # nextEntityId
      BY <1>4, <1>5
    <3>3. \A s \in DOMAIN base \ DOMAIN players : s = sid /\ base[s].entityId = nextEntityId
      BY <1>2, <1>3
    <3>4. \A s1, s2 \in DOMAIN players :
             players[s1].entityId = players[s2].entityId => s1 = s2
      BY DEF WorldInv, GoodPlayers
    <3> QED
      BY <3>1, <3>2, <3>3, <3>4
  <2> QED
    BY <1>3, <2>1, <2>2, <2>3, <2>4, <2>5 DEF GoodPlayers
<1>8. GoodTokens(base, validTokens, unrevoked \cup lost, used, fresh)
  <2>1. /\ usedBy \in [Tokens -> SUBSET Sid] /\ unrevoked \subseteq Tokens
        /\ fresh \subseteq Tokens /\ validTokens \subseteq Tokens \ fresh
    BY DEF WorldInv, GoodTokens
  <2>2. /\ used \in [Tokens -> SUBSET Sid]
        /\ \A x \in Tokens : used[x] = IF x = t THEN usedBy[t] \cup {sid} ELSE usedBy[x]
    BY <1>1, <2>1
  <2>3. lost \subseteq Tokens
    BY <1>5 DEF Player
  <2>4. sid \in DOMAIN players => players[sid].token = t \/ players[sid].token \in lost
    OBVIOUS
  <2> HIDE DEF base, e, used, lost
  <2>5. \A x \in fresh : used[x] = {}
    BY <1>1, <2>1, <2>2 DEF WorldInv, GoodTokens
  <2>6. t \notin unrevoked => \A s \in usedBy[t] : s = sid
    <3> SUFFICES ASSUME t \notin unrevoked, NEW s \in usedBy[t] PROVE s = sid
      OBVIOUS
    <3>1. s \in DOMAIN players /\ players[s].token = t
      BY DEF WorldInv, GoodTokens
    <3>2. players[s].user = UserOf[t]
      BY <3>1 DEF WorldInv, GoodPlayers
    <3> QED
      BY <3>1, <3>2, <1>6
  <2>7. ASSUME NEW x \in validTokens \ (unrevoked \cup lost), NEW s \in used[x]
        PROVE  s \in DOMAIN base /\ base[s].token = x
    <3>1. CASE x = t
      BY <3>1, <1>1, <1>2, <1>3, <2>1, <2>2, <2>6
    <3>2. CASE x # t
      <4>1. s \in DOMAIN players /\ players[s].token = x
        BY <3>2, <2>1, <2>2 DEF WorldInv, GoodTokens
      <4>2. s # sid
        BY <3>2, <4>1, <2>4
      <4> QED
        BY <4>1, <4>2, <1>3
    <3> QED
      BY <3>1, <3>2
  <2>8. ASSUME NEW x \in Tokens \ (unrevoked \cup lost),
               NEW s1 \in used[x], NEW s2 \in used[x]
        PROVE  s1 = s2
    <3>1. CASE x = t
      BY <3>1, <2>2, <2>6
    <3>2. CASE x # t
      BY <3>2, <2>2 DEF WorldInv, GoodTokens
    <3> QED
      BY <3>1, <3>2
  <2> QED
    BY <2>1, <2>2, <2>3, <2>5, <2>7, <2>8 DEF GoodTokens
<1> QED
  BY <1>7, <1>8

-----------------------------------------------------------------------------
(* Input and acknowledgements.                                             *)

\* Each frame applied has a number of its own above the last one processed,
\* and none is above the newest.
LEMMA AppliedCount ==
    ASSUME NEW frames \in Seq(Nat), NEW last \in Nat, NEW n \in Nat,
           IsNewest(n, frames, last)
    PROVE  /\ Cardinality(AppliedFrames(frames, last)) \in Nat
           /\ Cardinality(AppliedFrames(frames, last)) <= n - last
<1> DEFINE A == AppliedFrames(frames, last)
           f == [i \in A |-> frames[i]]
<1>1. DOMAIN frames = 1 .. Len(frames) /\ \A i \in DOMAIN frames : frames[i] \in Nat
  OBVIOUS
<1>2. \A i \in A : i \in DOMAIN frames /\ frames[i] \in (last + 1) .. n
  BY <1>1 DEF AppliedFrames, IsNewest
<1>3. ASSUME NEW i \in A, NEW j \in A, i < j
      PROVE  frames[i] < frames[j]
  BY <1>1, <1>2, <1>3 DEF AppliedFrames
<1>4. ASSUME NEW i \in A, NEW j \in A, frames[i] = frames[j]
      PROVE  i = j
  <2>1. i \in Int /\ j \in Int /\ frames[i] \in Int
    BY <1>1, <1>2
  <2>2. ~(i < j) /\ ~(j < i)
    BY <1>3, <1>4, <2>1
  <2> QED
    BY <2>1, <2>2
<1> HIDE DEF A
<1>5. f \in Injection(A, (last + 1) .. n)
  BY <1>2, <1>4 DEF Injection, IsInjective
<1>6. /\ IsFiniteSet((last + 1) .. n)
      /\ Cardinality((last + 1) .. n) = n - last
  <2>1. last + 1 \in Int /\ n \in Int /\ last <= n
    BY DEF IsNewest
  <2>2. /\ IsFiniteSet((last + 1) .. n)
        /\ Cardinality((last + 1) .. n) = IF last + 1 > n THEN 0 ELSE n - (last + 1) + 1
    BY <2>1, FS_Interval
  <2> QED
    BY <2>1, <2>2
<1>7. IsFiniteSet(A) /\ Cardinality(A) <= n - last
  BY <1>5, <1>6, FS_Injection
<1> QED
  BY <1>7, FS_CardinalityType DEF A

\* A player whose user, token and entity stay the same.
LEMMA SamePlayerGood ==
    ASSUME WorldInv, NEW sid \in DOMAIN players, NEW e \in Player,
           e.user = players[sid].user, e.token = players[sid].token,
           e.entityId = players[sid].entityId, e.steps <= e.lastInput
    PROVE  LET p == [players EXCEPT ![sid] = e]
           IN  /\ GoodPlayers(p, nextEntityId, sessions)
               /\ GoodTokens(p, validTokens, unrevoked, usedBy, fresh)
<1> DEFINE p == [players EXCEPT ![sid] = e]
<1>1. /\ IsMap(p) /\ DOMAIN p = DOMAIN players
      /\ \A s \in DOMAIN players : p[s] = IF s = sid THEN e ELSE players[s]
  BY DEF WorldInv, GoodPlayers, IsMap
<1> HIDE DEF p
<1>2. \A s \in DOMAIN players : /\ p[s].user = players[s].user
                                /\ p[s].token = players[s].token
                                /\ p[s].entityId = players[s].entityId
                                /\ p[s].steps <= p[s].lastInput
                                /\ p[s] \in Player
  BY <1>1 DEF WorldInv, GoodPlayers
<1>3. GoodPlayers(p, nextEntityId, sessions)
  BY <1>1, <1>2 DEF WorldInv, GoodPlayers
<1>4. GoodTokens(p, validTokens, unrevoked, usedBy, fresh)
  BY <1>1, <1>2 DEF WorldInv, GoodTokens
<1> QED
  BY <1>3, <1>4 DEF p

\* What HandleMoveInput makes of a player.
LEMMA MovedPlayer ==
    ASSUME WorldInv, NEW sid \in Sid, NEW frames \in FrameLists, HandleMoveInput(sid, frames)
    PROVE  \E e \in Player :
             /\ sid \in DOMAIN players /\ players' = [players EXCEPT ![sid] = e]
             /\ e.user = players[sid].user /\ e.token = players[sid].token
             /\ e.entityId = players[sid].entityId /\ e.steps <= e.lastInput
             /\ e.lastInput >= players[sid].lastInput
             /\ e.lastAcked = players[sid].lastAcked
<1> DEFINE old == players[sid]
           last == old.lastInput
           c == Cardinality(AppliedFrames(frames, last))
<1>1. sid \in DOMAIN players /\ IsMap(players) /\ old \in Player /\ old.steps <= old.lastInput
  BY DEF HandleMoveInput, WorldInv, GoodPlayers
<1>2. PICK n \in {frames[i] : i \in DOMAIN frames} \cup {last} :
        /\ IsNewest(n, frames, last)
        /\ players' = [players EXCEPT ![sid].steps = @ + c, ![sid].lastInput = n]
  BY DEF HandleMoveInput
<1>3. frames \in Seq(Nat) /\ last \in Nat
  BY <1>1, WorldConstants DEF Player
<1>4. n \in Nat
  BY <1>3
<1>5. c \in Nat /\ c <= n - last
  BY <1>2, <1>3, <1>4, AppliedCount
<1> DEFINE e == [old EXCEPT !.steps = @ + c, !.lastInput = n]
<1>6. players' = [players EXCEPT ![sid] = e]
  BY <1>1, <1>2 DEF IsMap
<1> HIDE DEF old, c
<1>7. /\ old.steps \in Nat /\ old.lastInput \in Nat
  BY <1>1 DEF Player
<1>8. e \in Player /\ e.steps = old.steps + c /\ e.lastInput = n
  <2>1. old.steps + c \in Nat
    BY <1>5, <1>7
  <2> QED
    BY <1>1, <1>4, <2>1 DEF Player
<1>9. /\ e.user = old.user /\ e.token = old.token
      /\ e.entityId = old.entityId /\ e.lastAcked = old.lastAcked
  BY <1>1 DEF Player
<1>10. e.steps <= e.lastInput /\ e.lastInput >= old.lastInput
  BY <1>1, <1>4, <1>5, <1>7, <1>8
<1> HIDE DEF e
<1> QED
  BY <1>1, <1>6, <1>8, <1>9, <1>10 DEF old

\* What HandleAckSnapshot makes of a player.
LEMMA AckedPlayer ==
    ASSUME WorldInv, NEW sid \in Sid, NEW id \in SnapshotIds, HandleAckSnapshot(sid, id)
    PROVE  \E e \in Player :
             /\ sid \in DOMAIN players /\ players' = [players EXCEPT ![sid] = e]
             /\ e.user = players[sid].user /\ e.token = players[sid].token
             /\ e.entityId = players[sid].entityId /\ e.steps <= e.lastInput
             /\ e.lastInput = players[sid].lastInput
             /\ e.lastAcked >= players[sid].lastAcked
<1> DEFINE old == players[sid]
           n == NewestAck(old.lastAcked, id)
           e == [old EXCEPT !.lastAcked = n]
<1>1. sid \in DOMAIN players /\ IsMap(players) /\ old \in Player /\ old.steps <= old.lastInput
  BY DEF HandleAckSnapshot, WorldInv, GoodPlayers
<1>2. players' = [players EXCEPT ![sid] = e]
  BY <1>1 DEF HandleAckSnapshot, IsMap
<1>3. n \in Nat /\ n >= old.lastAcked
  BY <1>1, WorldConstants DEF NewestAck, Player
<1> HIDE DEF old, n
<1>4. e \in Player /\ e.lastAcked = n /\ e.lastInput = old.lastInput /\ e.steps = old.steps
  BY <1>1, <1>3 DEF Player
<1>5. e.user = old.user /\ e.token = old.token /\ e.entityId = old.entityId
  BY <1>1 DEF Player
<1> HIDE DEF e
<1> QED
  BY <1>1, <1>2, <1>3, <1>4, <1>5 DEF old

-----------------------------------------------------------------------------
(* The steps.                                                              *)

\* Steps that touch no player, budget or token, and take no session away.
LEMMA NetworkGood ==
    ASSUME WorldInv, UNCHANGED <<playerVars, tokenVars>>, ServerInv',
           sessions \subseteq sessions'
    PROVE  WorldInv'
  BY DEF WorldInv, GoodPlayers, GoodBudgets, GoodTokens, playerVars, tokenVars, IsMap

\* Steps that only change the budgets.
LEMMA BudgetGood ==
    ASSUME WorldInv, UNCHANGED <<players, nextEntityId, tokenVars, sessions>>,
           GoodBudgets(budgets'), ServerInv'
    PROVE  WorldInv'
  BY DEF WorldInv, tokenVars

LEMMA NetworkInv ==
    ASSUME WorldInv, Network
    PROVE  WorldInv'
<1> USE DEF Network
<1>1. ServerInv
  BY DEF WorldInv
<1>2. ServerInv'
  BY <1>1, StartServerInv, ConnectInv, AcceptHandlerInv, HandlerWaitsInv, QuietTurnInv
<1>3. sessions \subseteq sessions'
  BY DEF StartServer, Connect, AcceptHandler, AddSession, HandlerWaits, QuietTurn,
         serverVars
<1> QED
  BY <1>2, <1>3, NetworkGood

LEMMA DropPacketInv ==
    ASSUME WorldInv, NEW sid \in Sid, NEW isMove \in BOOLEAN, DropPacket(sid, isMove)
    PROVE  WorldInv'
<1>1. /\ ServerInv /\ running /\ lateReads' \in SUBSET Sid
      /\ UNCHANGED <<running, acceptOp, nextSessionId>>
  BY LateAfterSids DEF WorldInv, DropPacket, HandlerTurn, Turn
<1>2. ServerInv'
  <2>1. CASE DisconnectSession(sid)
    BY <1>1, <2>1, DisconnectInv
  <2>2. CASE UNCHANGED <<link, sessions>>
    BY <1>1, <2>2, LinksUnchangedInv DEF serverVars
  <2> QED
    BY <2>1, <2>2 DEF DropPacket
<1>3. sessions' = sessions
  BY DEF DropPacket, DisconnectSession
<1>4. GoodBudgets(budgets')
  BY DroppedGood DEF DropPacket, WorldInv
<1> QED
  BY <1>2, <1>3, <1>4, BudgetGood DEF DropPacket

LEMMA IgnorePacketInv ==
    ASSUME WorldInv, NEW sid \in Sid, NEW isMove \in BOOLEAN, IgnorePacket(sid, isMove)
    PROVE  WorldInv'
<1>1. ServerInv'
  BY LateAfterSids, LinksUnchangedInv DEF WorldInv, IgnorePacket, Turn
<1>2. GoodBudgets(budgets')
  BY ConsumedGood DEF IgnorePacket, WorldInv
<1> QED
  BY <1>1, <1>2, BudgetGood DEF IgnorePacket, serverVars

LEMMA WindowPassesInv ==
    ASSUME WorldInv, NEW sid \in Sid, WindowPasses(sid)
    PROVE  WorldInv'
<1>1. ServerInv'
  BY LinksUnchangedInv DEF WorldInv, WindowPasses, sessionVars, ServerInv, ServerTypeOK
<1>2. NewBudget \in Budget
  BY WorldConstants DEF NewBudget, Budget
<1>3. GoodBudgets(budgets')
  BY <1>2 DEF WindowPasses, WorldInv, GoodBudgets, IsMap
<1> QED
  BY <1>1, <1>3, BudgetGood DEF WindowPasses, serverVars

LEMMA EnterWorldInv ==
    ASSUME WorldInv, NEW sid \in Sid, NEW t \in Tokens, HandleEnterWorld(sid, t)
    PROVE  WorldInv'
<1> DEFINE base == With(players, sid, Entered(sid, t))
           next == IF sid \in DOMAIN players THEN nextEntityId ELSE nextEntityId + 1
           lost == IF sid \in DOMAIN players THEN {players[sid].token} \ {t} ELSE {}
           used == [usedBy EXCEPT ![t] = @ \cup {sid}]
           q == StrandsAfter(sid)
<1>1. /\ ServerInv /\ running /\ sid \in sessions /\ t \in validTokens
      /\ MayEnter(UserOf[t], sid) /\ HasPacketBudget(sid, FALSE)
      /\ UNCHANGED <<running, acceptOp, nextSessionId>>
      /\ nextEntityId' = next /\ usedBy' = used /\ fresh' = fresh
  BY DEF WorldInv, HandleEnterWorld, Dispatched, HandlerTurn, FindSession
<1>2. /\ GoodPlayers(base, next, sessions)
      /\ GoodTokens(base, validTokens, unrevoked \cup lost, used, fresh)
  BY <1>1, EnterGood
<1>3. GoodBudgets(Consumed(sid, FALSE))
  BY <1>1, ConsumedGood DEF WorldInv
<1>4. PICK batch, now :
        /\ SendAll(batch, now, sid, q, LateAfter(sid))
        /\ OnDisconnected(base, Consumed(sid, FALSE), Reported, lost)
  BY DEF HandleEnterWorld
<1>5. ServerInv' /\ sessions' = sessions \ Reported
  BY <1>1, <1>4, LateAfterSids, SendAllInv, SendAllReports
<1>6. nextEntityId' \in Nat \ {0}
  BY <1>1 DEF WorldInv
<1> HIDE DEF base, next, lost, used
<1>7. /\ GoodPlayers(players', next, sessions') /\ GoodBudgets(budgets')
      /\ GoodTokens(players', validTokens', unrevoked', used, fresh)
  BY <1>2, <1>3, <1>4, <1>5, LeaversGood
<1> QED
  BY <1>1, <1>5, <1>6, <1>7 DEF WorldInv

LEMMA MoveInputInv ==
    ASSUME WorldInv, NEW sid \in Sid, NEW frames \in FrameLists, HandleMoveInput(sid, frames)
    PROVE  WorldInv'
<1>1. PICK e \in Player :
        /\ sid \in DOMAIN players /\ players' = [players EXCEPT ![sid] = e]
        /\ e.user = players[sid].user /\ e.token = players[sid].token
        /\ e.entityId = players[sid].entityId /\ e.steps <= e.lastInput
  BY MovedPlayer
<1>2. ServerInv'
  BY LateAfterSids, LinksUnchangedInv DEF WorldInv, HandleMoveInput, Turn
<1>3. GoodBudgets(budgets')
  BY ConsumedGood DEF WorldInv, HandleMoveInput, Dispatched
<1>4. /\ GoodPlayers(players', nextEntityId, sessions)
      /\ GoodTokens(players', validTokens, unrevoked, usedBy, fresh)
  BY <1>1, SamePlayerGood
<1> QED
  BY <1>2, <1>3, <1>4 DEF WorldInv, HandleMoveInput, serverVars, tokenVars

LEMMA AckSnapshotInv ==
    ASSUME WorldInv, NEW sid \in Sid, NEW id \in SnapshotIds, HandleAckSnapshot(sid, id)
    PROVE  WorldInv'
<1>1. PICK e \in Player :
        /\ sid \in DOMAIN players /\ players' = [players EXCEPT ![sid] = e]
        /\ e.user = players[sid].user /\ e.token = players[sid].token
        /\ e.entityId = players[sid].entityId /\ e.steps <= e.lastInput
  BY AckedPlayer
<1>2. ServerInv'
  BY LateAfterSids, LinksUnchangedInv DEF WorldInv, HandleAckSnapshot, Turn
<1>3. GoodBudgets(budgets')
  BY ConsumedGood DEF WorldInv, HandleAckSnapshot, Dispatched
<1>4. /\ GoodPlayers(players', nextEntityId, sessions)
      /\ GoodTokens(players', validTokens, unrevoked, usedBy, fresh)
  BY <1>1, SamePlayerGood
<1> QED
  BY <1>2, <1>3, <1>4 DEF WorldInv, HandleAckSnapshot, serverVars, tokenVars

\* A step of sends that changes nothing else: sessions may leave.
LEMMA LeaveInv ==
    ASSUME WorldInv, NEW b, GoodBudgets(b), UNCHANGED <<nextEntityId, fresh, usedBy>>,
           ServerInv', sessions' = sessions \ Reported,
           OnDisconnected(players, b, Reported, {})
    PROVE  WorldInv'
<1>1. unrevoked \cup {} = unrevoked
  OBVIOUS
<1>2. GoodTokens(players, validTokens, unrevoked \cup {}, usedBy, fresh)
  BY <1>1 DEF WorldInv
<1>3. GoodPlayers(players, nextEntityId, sessions)
  BY DEF WorldInv
<1>4. /\ GoodPlayers(players', nextEntityId, sessions') /\ GoodBudgets(budgets')
      /\ GoodTokens(players', validTokens', unrevoked', usedBy, fresh)
  BY <1>2, <1>3, LeaversGood
<1> QED
  BY <1>4 DEF WorldInv

LEMMA PingInv ==
    ASSUME WorldInv, NEW sid \in Sid, HandlePing(sid)
    PROVE  WorldInv'
<1>1. PICK batch : SendAll(batch, {sid}, sid, StrandsAfter(sid), LateAfter(sid))
  BY DEF HandlePing
<1>2. /\ ServerInv /\ running /\ HasPacketBudget(sid, FALSE)
      /\ UNCHANGED <<running, acceptOp, nextSessionId>>
      /\ UNCHANGED <<nextEntityId, fresh, usedBy>>
      /\ OnDisconnected(players, Consumed(sid, FALSE), Reported, {})
  BY DEF WorldInv, HandlePing, Dispatched, HandlerTurn
<1>3. ServerInv' /\ sessions' = sessions \ Reported
  BY <1>1, <1>2, LateAfterSids, SendAllInv, SendAllReports
<1>4. GoodBudgets(Consumed(sid, FALSE))
  BY <1>2, ConsumedGood DEF WorldInv
<1> QED
  BY <1>2, <1>3, <1>4, LeaveInv

\* Nothing runs at once in Update, so nobody leaves.
LEMMA UpdateReportsNobody ==
    ASSUME WorldInv, Update
    PROVE  /\ ServerInv' /\ sessions' = sessions \ Reported /\ Reported = {}
           /\ OnDisconnected(players, budgets, Reported, {})
           /\ UNCHANGED <<nextEntityId, fresh, usedBy>>
<1> DEFINE now == RunsAtOnce(FALSE, 0, strandQ)
<1>1. now = {}
  BY DEF RunsAtOnce
<1>2. /\ ServerInv /\ running /\ UNCHANGED <<running, acceptOp, nextSessionId>>
      /\ SendAll(Snapshot(players), now, 0, strandQ, lateReads)
      /\ lateReads \in SUBSET Sid
  BY DEF WorldInv, Update, ServerInv, ServerTypeOK
<1> HIDE DEF now
<1>3. ServerInv' /\ sessions' = sessions \ Reported /\ Reported = {}
  BY <1>1, <1>2, SendAllInv, SendAllReports
<1> QED
  BY <1>3 DEF Update

LEMMA UpdateInv ==
    ASSUME WorldInv, Update
    PROVE  WorldInv'
<1>1. GoodBudgets(budgets)
  BY DEF WorldInv
<1> QED
  BY <1>1, UpdateReportsNobody, LeaveInv

LEMMA SessionStepsInv ==
    ASSUME WorldInv, NEW sid \in Sid, SessionSteps(sid)
    PROVE  WorldInv'
<1>1. ServerInv /\ GoodBudgets(budgets)
  BY DEF WorldInv
<1>2. ServerInv' /\ sessions' = sessions \ Reported
  BY <1>1, RunStrandInv, LinkFailsInv, SessionStepsReport DEF SessionSteps
<1> QED
  BY <1>1, <1>2, LeaveInv DEF SessionSteps

LEMMA StopInv ==
    ASSUME WorldInv, Stop
    PROVE  WorldInv'
<1> DEFINE kept == {players[sid].token : sid \in DOMAIN players}
<1>1. ServerInv'
  BY StopServerInv DEF WorldInv, Stop
<1>2. /\ players' = <<>> /\ budgets' = <<>> /\ nextEntityId' = 1
      /\ unrevoked' = unrevoked \cup kept
      /\ UNCHANGED <<fresh, validTokens, usedBy>>
  BY DEF Stop
<1>3. GoodPlayers(<<>>, 1, sessions')
  BY EmptyMap DEF GoodPlayers
<1>4. GoodBudgets(<<>>)
  BY EmptyMap DEF GoodBudgets
<1>5. kept \subseteq Tokens
  BY DEF WorldInv, GoodPlayers, Player
<1>6. \A x \in validTokens \ (unrevoked \cup kept) : usedBy[x] = {}
  BY DEF WorldInv, GoodTokens
<1>7. GoodTokens(<<>>, validTokens, unrevoked \cup kept, usedBy, fresh)
  <2> HIDE DEF kept
  <2> QED
    BY <1>5, <1>6 DEF WorldInv, GoodTokens
<1> QED
  BY <1>1, <1>2, <1>3, <1>4, <1>7 DEF WorldInv

LEMMA TokenStepsInv ==
    ASSUME WorldInv, NEW t \in Tokens, IssueToken(t) \/ TokenEnds(t)
    PROVE  WorldInv'
<1>1. UNCHANGED <<serverVars, sessionVars, playerVars, usedBy, unrevoked>>
  BY DEF IssueToken, TokenEnds
<1>2. ServerInv'
  BY <1>1, LinksUnchangedInv DEF WorldInv, sessionVars, ServerInv, ServerTypeOK
<1>3. GoodTokens(players, validTokens', unrevoked, usedBy, fresh')
  BY DEF WorldInv, GoodTokens, IssueToken, TokenEnds
<1> QED
  BY <1>1, <1>2, <1>3 DEF WorldInv, serverVars, playerVars

LEMMA InitWorldInv == Init => WorldInv
<1> SUFFICES ASSUME Init PROVE WorldInv
  OBVIOUS
<1>1. ServerInv
  BY InitServerInv DEF Init
<1>2. GoodPlayers(players, 1, sessions)
  BY EmptyMap DEF Init, GoodPlayers
<1>3. GoodBudgets(budgets)
  BY EmptyMap DEF Init, GoodBudgets
<1>4. GoodTokens(players, validTokens, unrevoked, usedBy, fresh)
  BY DEF Init, GoodTokens
<1> QED
  BY <1>1, <1>2, <1>3, <1>4 DEF Init, WorldInv

LEMMA NextWorldInv == WorldInv /\ [Next]_vars => WorldInv'
<1> SUFFICES ASSUME WorldInv, [Next]_vars PROVE WorldInv'
  OBVIOUS
<1>1. CASE UNCHANGED vars
  <2>1. ServerInv'
    BY <1>1, LinksUnchangedInv DEF WorldInv, vars, sessionVars, ServerInv, ServerTypeOK
  <2> QED
    BY <1>1, <2>1, NetworkGood DEF vars, serverVars
<1>2. CASE Network
  BY <1>2, NetworkInv
<1>3. CASE Update
  BY <1>3, UpdateInv
<1>4. CASE Stop
  BY <1>4, StopInv
<1>5. ASSUME NEW sid \in Sid, Packets(sid) PROVE WorldInv'
  BY <1>5, DropPacketInv, IgnorePacketInv, EnterWorldInv, MoveInputInv, AckSnapshotInv,
     PingInv DEF Packets
<1>6. ASSUME NEW sid \in Sid, SessionSteps(sid) PROVE WorldInv'
  BY <1>6, SessionStepsInv
<1>7. ASSUME NEW sid \in Sid, WindowPasses(sid) PROVE WorldInv'
  BY <1>7, WindowPassesInv
<1>8. ASSUME NEW t \in Tokens, IssueToken(t) \/ TokenEnds(t) PROVE WorldInv'
  BY <1>8, TokenStepsInv
<1> QED
  BY <1>1, <1>2, <1>3, <1>4, <1>5, <1>6, <1>7, <1>8 DEF Next

THEOREM WorldInvAlways == Spec => []WorldInv
  BY InitWorldInv, NextWorldInv, PTL DEF Spec

-----------------------------------------------------------------------------
(* What follows from the invariant.                                        *)

\* The variables keep their types.
THEOREM TypesAlwaysKept == Spec => []TypeOK
<1>1. WorldInv => TypeOK
  BY DEF WorldInv, ServerInv, GoodPlayers, GoodBudgets, GoodTokens, TypeOK, ServerTypeOK
<1> QED
  BY <1>1, WorldInvAlways, PTL

\* Every player belongs to a session in the map
\* (YunoServerNetwork.cpp:468-476).
THEOREM PlayersAlwaysHaveSessions == Spec => []PlayersHaveSessions
<1>1. WorldInv => PlayersHaveSessions
  BY DEF WorldInv, GoodPlayers, PlayersHaveSessions
<1> QED
  BY <1>1, WorldInvAlways, PTL

\* A user is in the world from one session at a time
\* (YunoServerNetwork.cpp:222-231).
THEOREM UserAlwaysOnceInWorld == Spec => []UserOnceInWorld
<1>1. WorldInv => UserOnceInWorld
  BY DEF WorldInv, GoodPlayers, UserOnceInWorld
<1> QED
  BY <1>1, WorldInvAlways, PTL

\* No two players share an entity (YunoServerNetwork.cpp:240-243).
THEOREM EntityIdsAlwaysUnique == Spec => []EntityIdsUnique
<1>1. WorldInv => EntityIdsUnique
  BY DEF WorldInv, GoodPlayers, EntityIdsUnique
<1> QED
  BY <1>1, WorldInvAlways, PTL

\* A token lets in one session, unless it was let go of unrevoked
\* (YunoServerNetwork.cpp:471, 238).
THEOREM TokenAlwaysAdmitsOne == Spec => []TokenAdmitsOneSession
<1>1. WorldInv => TokenAdmitsOneSession
  <2> SUFFICES ASSUME WorldInv, NEW t \in Tokens \ unrevoked
               PROVE  Cardinality(usedBy[t]) <= 1
    BY DEF TokenAdmitsOneSession
  <2>1. \A s1, s2 \in usedBy[t] : s1 = s2
    BY DEF WorldInv, GoodTokens
  <2>2. usedBy[t] = {} \/ \E s : usedBy[t] = {s}
    BY <2>1
  <2>3. CASE usedBy[t] = {}
    BY <2>3, FS_EmptySet
  <2>4. ASSUME NEW s, usedBy[t] = {s} PROVE Cardinality(usedBy[t]) <= 1
    <3>1. Cardinality({s}) = 1
      BY FS_Singleton
    <3> QED
      BY <2>4, <3>1
  <2> QED
    BY <2>2, <2>3, <2>4
<1> QED
  BY <1>1, WorldInvAlways, PTL

\* No input is applied twice (YunoServerNetwork.cpp:319-339).
THEOREM InputAlwaysAppliedOnce == Spec => []InputAppliedOnce
<1>1. WorldInv => InputAppliedOnce
  BY DEF WorldInv, GoodPlayers, InputAppliedOnce
<1> QED
  BY <1>1, WorldInvAlways, PTL

\* A broadcast from Update ends no session and erases no player
\* (YunoServerNetwork.cpp:436-459, 717).
THEOREM UpdateNeverEndsAnybody == Spec => UpdateEndsNobody
<1>1. WorldInv /\ Update => players' = players /\ sessions' = sessions
  <2> SUFFICES ASSUME WorldInv, Update PROVE players' = players /\ sessions' = sessions
    OBVIOUS
  <2>1. Reported = {} /\ sessions' = sessions \ Reported /\ players' = Without(players, Reported)
    BY UpdateReportsNobody DEF OnDisconnected
  <2>2. Without(players, {}) = players
    BY DEF Without, WorldInv, GoodPlayers, IsMap
  <2> QED
    BY <2>1, <2>2
<1>2. WorldInv /\ [Next]_vars => [Update => players' = players /\ sessions' = sessions]_vars
  BY <1>1
<1> QED
  BY <1>2, WorldInvAlways, PTL DEF Spec, UpdateEndsNobody

\* A player's newest input and acknowledgement, across a step.
NoStepBack ==
    \A sid \in DOMAIN players \cap DOMAIN players' :
        /\ players[sid].lastInput <= players'[sid].lastInput
        /\ players[sid].lastAcked <= players'[sid].lastAcked

LEMMA ProgressType ==
    ASSUME WorldInv, NEW sid \in DOMAIN players
    PROVE  players[sid].lastInput \in Nat /\ players[sid].lastAcked \in Nat
  BY DEF WorldInv, GoodPlayers, Player

LEMMA SamePlayersNoStepBack ==
    ASSUME WorldInv, \A sid \in DOMAIN players \cap DOMAIN players' : players'[sid] = players[sid]
    PROVE  NoStepBack
  BY ProgressType DEF NoStepBack

LEMMA LeaversNoStepBack ==
    ASSUME WorldInv, NEW b, NEW lost, OnDisconnected(players, b, Reported, lost)
    PROVE  NoStepBack
<1>1. players' = Without(players, Reported)
  BY DEF OnDisconnected
<1>2. \A sid \in DOMAIN players \cap DOMAIN players' : players'[sid] = players[sid]
  BY <1>1 DEF Without
<1> QED
  BY <1>2, SamePlayersNoStepBack

LEMMA EnterNoStepBack ==
    ASSUME WorldInv, NEW sid \in Sid, NEW t \in Tokens, HandleEnterWorld(sid, t)
    PROVE  NoStepBack
<1> DEFINE e == Entered(sid, t)
           base == With(players, sid, e)
<1>1. players' = Without(base, Reported)
  BY DEF HandleEnterWorld, OnDisconnected
<1>2. sid \in DOMAIN players =>
        e.lastInput = players[sid].lastInput /\ e.lastAcked = players[sid].lastAcked
  BY EnteredType
<1>3. DOMAIN base = DOMAIN players \cup {sid} /\ base[sid] = e
      /\ \A s \in DOMAIN players \ {sid} : base[s] = players[s]
  BY DEF With
<1> HIDE DEF e, base
<1>4. \A s \in DOMAIN players' : s \in DOMAIN base /\ players'[s] = base[s]
  BY <1>1 DEF Without
<1> QED
  BY <1>2, <1>3, <1>4, ProgressType DEF NoStepBack

LEMMA MoveNoStepBack ==
    ASSUME WorldInv, NEW sid \in Sid, NEW frames \in FrameLists, HandleMoveInput(sid, frames)
    PROVE  NoStepBack
<1>1. PICK e \in Player :
        /\ sid \in DOMAIN players /\ players' = [players EXCEPT ![sid] = e]
        /\ e.lastInput >= players[sid].lastInput /\ e.lastAcked = players[sid].lastAcked
  BY MovedPlayer
<1>2. \A s \in DOMAIN players : players'[s] = IF s = sid THEN e ELSE players[s]
  BY <1>1 DEF WorldInv, GoodPlayers, IsMap
<1>3. e.lastInput \in Nat
  BY DEF Player
<1> QED
  BY <1>1, <1>2, <1>3, ProgressType DEF NoStepBack

LEMMA AckNoStepBack ==
    ASSUME WorldInv, NEW sid \in Sid, NEW id \in SnapshotIds, HandleAckSnapshot(sid, id)
    PROVE  NoStepBack
<1>1. PICK e \in Player :
        /\ sid \in DOMAIN players /\ players' = [players EXCEPT ![sid] = e]
        /\ e.lastInput = players[sid].lastInput /\ e.lastAcked >= players[sid].lastAcked
  BY AckedPlayer
<1>2. \A s \in DOMAIN players : players'[s] = IF s = sid THEN e ELSE players[s]
  BY <1>1 DEF WorldInv, GoodPlayers, IsMap
<1>3. e.lastAcked \in Nat
  BY DEF Player
<1> QED
  BY <1>1, <1>2, <1>3, ProgressType DEF NoStepBack

\* What a player has processed and acknowledged never goes back while it is
\* in the world (YunoServerNetwork.cpp:321, 369).
THEOREM ProgressAlwaysKept == Spec => ProgressIsKept
<1>1. WorldInv /\ [Next]_vars => [NoStepBack]_vars
  <2> SUFFICES ASSUME WorldInv, Next PROVE NoStepBack
    OBVIOUS
  <2>1. CASE players' = players
    BY <2>1, SamePlayersNoStepBack
  <2>2. CASE Network
    BY <2>1, <2>2 DEF Network, playerVars
  <2>3. CASE Update
    BY <2>3, LeaversNoStepBack DEF Update
  <2>4. CASE Stop
    BY <2>4, EmptyMap DEF Stop, NoStepBack
  <2>5. ASSUME NEW sid \in Sid, Packets(sid) PROVE NoStepBack
    <3>1. ASSUME NEW isMove \in BOOLEAN, DropPacket(sid, isMove) \/ IgnorePacket(sid, isMove)
          PROVE  NoStepBack
      BY <2>1, <3>1 DEF DropPacket, IgnorePacket
    <3>2. CASE HandlePing(sid)
      BY <3>2, LeaversNoStepBack DEF HandlePing
    <3> QED
      BY <2>5, <3>1, <3>2, EnterNoStepBack, MoveNoStepBack, AckNoStepBack DEF Packets
  <2>6. ASSUME NEW sid \in Sid, SessionSteps(sid) PROVE NoStepBack
    BY <2>6, LeaversNoStepBack DEF SessionSteps
  <2>7. ASSUME NEW sid \in Sid, WindowPasses(sid) PROVE NoStepBack
    BY <2>1, <2>7 DEF WindowPasses
  <2>8. ASSUME NEW t \in Tokens, IssueToken(t) \/ TokenEnds(t) PROVE NoStepBack
    BY <2>1, <2>8 DEF IssueToken, TokenEnds, playerVars
  <2> QED
    BY <2>2, <2>3, <2>4, <2>5, <2>6, <2>7, <2>8 DEF Next
<1>2. [][NoStepBack]_vars => ProgressIsKept
  BY PTL DEF NoStepBack, ProgressIsKept
<1> QED
  BY <1>1, <1>2, WorldInvAlways, PTL DEF Spec
=============================================================================
