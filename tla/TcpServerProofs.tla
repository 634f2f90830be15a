-------------------------- MODULE TcpServerProofs ---------------------------
(***************************************************************************)
(* What every operation of TcpServer keeps true, whoever owns the server.  *)
(* ServerProofs and WorldProofs build on it.                               *)
(***************************************************************************)
EXTENDS TcpServer, FiniteSetTheorems, TLAPS

\* Ids are given out in order, so a session that is not born yet is not in the
\* map when it comes; a server that does not run has an empty map.
ServerInv ==
    /\ ServerTypeOK
    /\ SessionLimitKept
    /\ AcceptingWhileRunning
    /\ ReportedLeaveTheMap
    /\ \A sid \in Sid : link[sid] = "unborn" <=> sid > nextSessionId
    /\ acceptOp = "ok" => nextSessionId < LastSid
    /\ ~running => sessions = {}

-----------------------------------------------------------------------------
(* The size of the map.                                                    *)

LEMMA SidsFinite == IsFiniteSet(Sid)
  BY ServerBounds, FS_Interval DEF Sid

LEMMA LimitIsPositive == MaxSessions \in Nat \ {0}
  BY ServerBounds DEF MaxSessions

\* A map of sessions is a finite set.
LEMMA MapFinite ==
    ASSUME NEW S \in SUBSET Sid
    PROVE  IsFiniteSet(S) /\ Cardinality(S) \in Nat
  BY SidsFinite, FS_Subset, FS_CardinalityType

\* Sessions that leave the map do not take it over its limit.
LEMMA FewerSessions ==
    ASSUME NEW S \in SUBSET Sid, NEW T \in SUBSET S,
           Cardinality(S) <= MaxSessions
    PROVE  Cardinality(T) <= MaxSessions
<1>1. IsFiniteSet(S) /\ Cardinality(S) \in Nat /\ Cardinality(T) \in Nat
  BY MapFinite
<1>2. Cardinality(T) <= Cardinality(S)
  BY <1>1, FS_Subset
<1> QED
  BY <1>1, <1>2, LimitIsPositive

-----------------------------------------------------------------------------
(* Starting, accepting, stopping.                                          *)

LEMMA InitServerInv == ServerInit => ServerInv
<1> SUFFICES ASSUME ServerInit PROVE ServerInv
  OBVIOUS
<1> USE DEF ServerInit
<1>1. ServerTypeOK
  <2>1. nextSessionId \in 0 .. LastSid
    BY ServerBounds
  <2> QED
    BY <2>1, Zenon DEF ServerTypeOK
<1>2. SessionLimitKept
  BY FS_EmptySet, LimitIsPositive DEF SessionLimitKept
<1> QED
  BY <1>1, <1>2, ServerBounds
     DEF ServerInv, AcceptingWhileRunning, ReportedLeaveTheMap, Sid

LEMMA StartServerInv == ServerInv /\ StartServer => ServerInv'
<1> SUFFICES ASSUME ServerInv, StartServer PROVE ServerInv'
  OBVIOUS
<1> USE DEF ServerInv, StartServer, sessionVars
<1>1. ServerTypeOK'
  BY DEF ServerTypeOK
<1>2. \A sid \in Sid : link[sid] = "unborn"
  BY ServerBounds DEF Sid
<1>3. ReportedLeaveTheMap'
  BY <1>2 DEF ReportedLeaveTheMap, FindSession
<1> QED
  BY <1>1, <1>3 DEF AcceptingWhileRunning, SessionLimitKept

LEMMA ConnectInv == ServerInv /\ Connect => ServerInv'
  BY DEF ServerInv, Connect, sessionVars, ServerTypeOK, SessionLimitKept,
         AcceptingWhileRunning, ReportedLeaveTheMap, FindSession

LEMMA AcceptHandlerInv == ServerInv /\ running /\ AcceptHandler => ServerInv'
<1> SUFFICES ASSUME ServerInv, running, AcceptHandler PROVE ServerInv'
  OBVIOUS
<1> USE DEF ServerInv
<1>1. running' = running /\ acceptOp' = "wait"
  BY DEF AcceptHandler, DoAccept
<1>2. CASE acceptOp = "ok" /\ HasRoom /\ AddSession(NextSessionId)
  <2> DEFINE sid == NextSessionId
  <2>1. sid \in Sid /\ sid = nextSessionId + 1 /\ nextSessionId \in Nat
    BY <1>2, ServerBounds DEF Sid, NextSessionId, ServerTypeOK
  <2>2. /\ nextSessionId' = sid
        /\ sessions' = sessions \cup {sid}
        /\ link' = [link EXCEPT ![sid] = "up"]
        /\ lateReads' = lateReads
    BY <1>2, <2>1 DEF AddSession
  <2>3. ServerTypeOK'
    BY <1>1, <2>1, <2>2 DEF ServerTypeOK, Sid
  <2>4. Cardinality(sessions') <= MaxSessions
    <3>1. IsFiniteSet(sessions) /\ Cardinality(sessions) \in Nat
      BY MapFinite DEF ServerTypeOK
    <3>2. Cardinality(sessions) < MaxSessions
      BY <1>2 DEF HasRoom
    <3>3. \/ Cardinality(sessions') = Cardinality(sessions)
          \/ Cardinality(sessions') = Cardinality(sessions) + 1
      BY <2>2, <3>1, FS_AddElement
    <3> QED
      BY <3>1, <3>2, <3>3, LimitIsPositive
  <2>5. \A s \in Sid : link'[s] = IF s = sid THEN "up" ELSE link[s]
    BY <2>1, <2>2 DEF ServerTypeOK
  <2>6. \A s \in Sid : link'[s] = "unborn" <=> s > nextSessionId'
    BY <2>1, <2>2, <2>5 DEF Sid
  <2> QED
    BY <1>1, <2>1, <2>2, <2>3, <2>4, <2>5, <2>6
       DEF SessionLimitKept, AcceptingWhileRunning, ReportedLeaveTheMap, FindSession
<1>3. CASE UNCHANGED <<nextSessionId, sessions, sessionVars>>
  BY <1>1, <1>3 DEF sessionVars, ServerTypeOK, SessionLimitKept,
                    AcceptingWhileRunning, ReportedLeaveTheMap, FindSession
<1> QED
  BY <1>2, <1>3 DEF AcceptHandler

LEMMA StopServerInv == ServerInv /\ StopServer => ServerInv'
<1> SUFFICES ASSUME ServerInv, StopServer PROVE ServerInv'
  OBVIOUS
<1> USE DEF ServerInv, StopServer
<1>1. ServerTypeOK'
  BY DEF ServerTypeOK
<1>2. SessionLimitKept'
  BY FS_EmptySet, LimitIsPositive DEF SessionLimitKept
<1>3. \A sid \in Sid : link'[sid] = "unborn" <=> sid > nextSessionId'
  OBVIOUS
<1> QED
  BY <1>1, <1>2, <1>3 DEF AcceptingWhileRunning, ReportedLeaveTheMap

-----------------------------------------------------------------------------
(* The sessions of a running server.                                       *)

\* Sessions that are up may end, and others stay as they are.
LEMMA EndSessionsInv ==
    ASSUME ServerInv, running, UNCHANGED <<running, acceptOp, nextSessionId>>,
           NEW dead \in SUBSET {sid \in Sid : link[sid] = "up"},
           NEW late \in SUBSET Sid,
           EndSessions(dead, late)
    PROVE  ServerInv'
<1> USE DEF ServerInv, EndSessions, RemoveSessions
<1>1. ServerTypeOK'
  BY DEF ServerTypeOK
<1>2. SessionLimitKept'
  BY FewerSessions DEF SessionLimitKept, ServerTypeOK
<1>3. \A sid \in Sid : link'[sid] = IF sid \in dead THEN "ended" ELSE link[sid]
  OBVIOUS
<1>4. ReportedLeaveTheMap'
  BY <1>3 DEF ReportedLeaveTheMap, FindSession
<1>5. \A sid \in Sid : link'[sid] = "unborn" <=> sid > nextSessionId'
  BY <1>3
<1> QED
  BY <1>1, <1>2, <1>4, <1>5 DEF AcceptingWhileRunning

\* Sends end nobody but sessions that are up.
LEMMA SendAllInv ==
    ASSUME ServerInv, running, UNCHANGED <<running, acceptOp, nextSessionId>>,
           NEW batch, NEW now, NEW own, NEW q, NEW late \in SUBSET Sid,
           SendAll(batch, now, own, q, late)
    PROVE  ServerInv'
<1> DEFINE targets == {sid \in Sid : batch[sid] # <<>>}
<1>1. PICK full \in SUBSET {sid \in targets \ Waiting(targets, now) : link[sid] = "up"} :
      \E more \in SUBSET (full \ {own}) : EndSessions(full, late \cup more)
  BY DEF SendAll, Waiting
<1>2. PICK more \in SUBSET (full \ {own}) : EndSessions(full, late \cup more)
  BY <1>1
<1>3. full \in SUBSET {sid \in Sid : link[sid] = "up"} /\ late \cup more \in SUBSET Sid
  OBVIOUS
<1> QED
  BY <1>2, <1>3, EndSessionsInv

LEMMA DisconnectInv ==
    ASSUME ServerInv, running, UNCHANGED <<running, acceptOp, nextSessionId>>,
           NEW sid \in Sid, DisconnectSession(sid), lateReads' \in SUBSET Sid
    PROVE  ServerInv'
<1> USE DEF ServerInv, DisconnectSession
<1>1. \A s \in Sid : link'[s] = IF s = sid /\ FindSession(sid) /\ link[sid] = "up"
                                THEN "closed" ELSE link[s]
  BY DEF ServerTypeOK
<1>2. ServerTypeOK'
  BY DEF ServerTypeOK
<1>3. ReportedLeaveTheMap'
  BY <1>1 DEF ReportedLeaveTheMap, FindSession
<1>4. \A s \in Sid : link'[s] = "unborn" <=> s > nextSessionId'
  BY <1>1
<1> QED
  BY <1>2, <1>3, <1>4 DEF AcceptingWhileRunning, SessionLimitKept

\* A step that leaves the server and the links alone.
LEMMA LinksUnchangedInv ==
    ASSUME ServerInv, UNCHANGED <<serverVars, link>>, lateReads' \in SUBSET Sid
    PROVE  ServerInv'
  BY DEF ServerInv, serverVars, ServerTypeOK, SessionLimitKept,
         AcceptingWhileRunning, ReportedLeaveTheMap, FindSession

LEMMA LateAfterSids ==
    ASSUME ServerInv, NEW sid \in Sid
    PROVE  LateAfter(sid) \in SUBSET Sid
  BY DEF ServerInv, ServerTypeOK, LateAfter

LEMMA HandlerWaitsInv ==
    ASSUME ServerInv, NEW sid \in Sid, HandlerWaits(sid)
    PROVE  ServerInv'
  BY LinksUnchangedInv, LateAfterSids DEF HandlerWaits

LEMMA QuietTurnInv ==
    ASSUME ServerInv, NEW sid \in Sid, QuietTurn(sid)
    PROVE  ServerInv'
  BY LinksUnchangedInv, LateAfterSids DEF QuietTurn

LEMMA RunStrandInv ==
    ASSUME ServerInv, NEW sid \in Sid, RunStrand(sid)
    PROVE  ServerInv'
<1>1. lateReads \in SUBSET Sid
  BY DEF ServerInv, ServerTypeOK
<1> QED
  BY <1>1, SendAllInv DEF RunStrand

LEMMA LinkFailsInv ==
    ASSUME ServerInv, NEW sid \in Sid, LinkFails(sid)
    PROVE  ServerInv'
<1>1. PICK more \in SUBSET {sid} : EndSessions({sid}, LateAfter(sid) \cup more)
  BY DEF LinkFails
<1>2. running /\ link[sid] = "up" /\ UNCHANGED <<running, acceptOp, nextSessionId>>
  BY DEF LinkFails, HandlerTurn
<1>3. LateAfter(sid) \cup more \in SUBSET Sid
  BY LateAfterSids
<1>4. {sid} \in SUBSET {s \in Sid : link[s] = "up"}
  BY <1>2
<1> QED
  BY <1>1, <1>2, <1>3, <1>4, EndSessionsInv
=============================================================================
