----------------------------- MODULE TcpServer ------------------------------
(***************************************************************************)
(* yuno::net::TcpServer: the accept chain, the session map and the strands *)
(* of the sessions, as the servers that own it see them.  This module has  *)
(* the state and the operations; ServerOwner runs them under any owner and *)
(* WorldServer under the game server.                                      *)
(*                                                                         *)
(* A session is here what TcpSession shows it to be: a link that is up     *)
(* until it ends by itself ("ended", reported once) or is closed by its    *)
(* owner ("closed", never reported), and that may deliver one packet more  *)
(* if its read handler was already waiting when it ended (lateReads).      *)
(*                                                                         *)
(* The server runs on one thread, which alternates between polling the     *)
(* io_context until nothing is ready and the owner's Update.  A call that  *)
(* is dispatched to a strand runs at once inside a polled handler when the *)
(* strand is idle or is the handler's own; it is queued on the strand      *)
(* otherwise, behind the calls and handlers that wait there already.       *)
(***************************************************************************)
EXTENDS Integers, Sequences, FiniteSets

CONSTANTS
    MaxSessionsOption,   \* ServerOptions::maxSessions as passed to Start
    LastSid,             \* bound: connections accepted in a behaviour
    MaxStrand            \* bound: entries waiting on one strand

ASSUME ServerBounds ==
    /\ MaxSessionsOption \in Nat
    /\ LastSid \in Nat
    /\ MaxStrand \in Nat

Sid == 1 .. LastSid

VARIABLES
    running,         \* m_running; the owner polls while it holds
    acceptOp,        \* the async_accept: "none" | "wait" | "ok" | "err"
    nextSessionId,   \* m_nextSessionId
    sessions,        \* m_sessions: the ids in the map
    link,            \* each session: "unborn" | "up" | "ended" | "closed"
    lateReads,       \* sessions with a read handler that outlived the link
    strandQ          \* what waits on each strand: Sends and one handler

serverVars == <<running, acceptOp, nextSessionId, sessions>>
sessionVars == <<link, lateReads, strandQ>>

ServerTypeOK ==
    /\ running \in BOOLEAN
    /\ acceptOp \in {"none", "wait", "ok", "err"}
    /\ nextSessionId \in 0 .. LastSid
    /\ sessions \subseteq Sid
    /\ link \in [Sid -> {"unborn", "up", "ended", "closed"}]
    /\ lateReads \subseteq Sid

ServerInit ==
    /\ running = FALSE /\ acceptOp = "none"
    /\ nextSessionId = 0 /\ sessions = {}
    /\ link = [sid \in Sid |-> "unborn"]
    /\ lateReads = {}
    /\ strandQ = [sid \in Sid |-> <<>>]

-----------------------------------------------------------------------------
(* Starting, accepting, stopping.                                          *)

\* Start corrects a limit of zero.
MaxSessions == IF MaxSessionsOption = 0 THEN 1 ELSE MaxSessionsOption

DoAccept == acceptOp' = IF running THEN "wait" ELSE "none"

StartServer ==
    /\ ~running /\ nextSessionId = 0 /\ acceptOp = "none"
    /\ running' = TRUE
    /\ acceptOp' = "wait"
    /\ UNCHANGED <<nextSessionId, sessions, sessionVars>>

NextSessionId == nextSessionId + 1

\* The connection gets the next id, enters the map and is started.
AddSession(sid) ==
    /\ nextSessionId' = nextSessionId + 1
    /\ sessions' = sessions \cup {sid}
    /\ link' = [link EXCEPT ![sid] = "up"]
    /\ UNCHANGED <<lateReads, strandQ>>

\* Variant (SessionLimitKept): one connection too many.
RoomOffByOne == Cardinality(sessions) <= MaxSessions

HasRoom == Cardinality(sessions) < MaxSessions

\* Variant (AcceptingWhileRunning): a refused connection ends the chain.
AcceptHandlerNoRetry ==
    /\ acceptOp \in {"ok", "err"}
    /\ \/ /\ running /\ acceptOp = "ok" /\ HasRoom
          /\ AddSession(NextSessionId)
          /\ DoAccept
       \/ /\ ~(running /\ acceptOp = "ok" /\ HasRoom)
          /\ acceptOp' = "none"
          /\ UNCHANGED <<nextSessionId, sessions, sessionVars>>
    /\ UNCHANGED running

\* The handler of async_accept: an error, a full map or a new session, the
\* next accept is started in every case.
AcceptHandler ==
    /\ acceptOp \in {"ok", "err"}
    /\ \/ /\ running /\ acceptOp = "ok" /\ HasRoom
          /\ AddSession(NextSessionId)
       \/ /\ ~(running /\ acceptOp = "ok" /\ HasRoom)
          /\ UNCHANGED <<nextSessionId, sessions, sessionVars>>
    /\ DoAccept
    /\ UNCHANGED running

\* A connection arrives, or the accept fails.
Connect ==
    /\ acceptOp = "wait"
    /\ nextSessionId < LastSid
    /\ acceptOp' \in {"ok", "err"}
    /\ UNCHANGED <<running, nextSessionId, sessions, sessionVars>>

\* The poll has run everything that was ready: Update and Stop come then.
PollIsDry == \A sid \in Sid : strandQ[sid] = <<>>

\* Every session is closed without a report and the map is emptied; nothing
\* is polled any more.
StopServer ==
    /\ running
    /\ running' = FALSE
    /\ acceptOp' = IF acceptOp = "wait" THEN "err" ELSE acceptOp
    /\ link' = [sid \in Sid |->
                  IF sid \in sessions /\ link[sid] = "up" THEN "closed" ELSE link[sid]]
    /\ sessions' = {}
    /\ strandQ' = [sid \in Sid |-> <<>>]
    /\ lateReads' = {}
    /\ UNCHANGED nextSessionId

-----------------------------------------------------------------------------
(* The sessions in the map.                                                *)

FindSession(sid) == sid \in sessions

\* Variant (ReportedLeaveTheMap): the callback forgets RemoveSession.
KeepSessions(dead) == UNCHANGED sessions

\* RemoveSession, for each of the sessions that report their end in a step.
RemoveSessions(dead) == sessions' = sessions \ dead

\* The sessions in "dead" report their end: each leaves the map before the
\* owner is told.  Those in "late" have a read handler still waiting.
EndSessions(dead, late) ==
    /\ link' = [sid \in Sid |-> IF sid \in dead THEN "ended" ELSE link[sid]]
    /\ RemoveSessions(dead)
    /\ lateReads' = late

\* DisconnectSession, called by a handler of that session: Close runs at
\* once, reports nothing and leaves the map alone.
DisconnectSession(sid) ==
    /\ link' = [link EXCEPT ![sid] =
                  IF FindSession(sid) /\ @ = "up" THEN "closed" ELSE @]
    /\ UNCHANGED sessions

-----------------------------------------------------------------------------
(* Strands.  An entry is a message whose Send waits, or a Handler.         *)

Handler == "handler"

\* A completion handler of the session gets to run.
HandlerTurn(sid) ==
    /\ running
    /\ \/ strandQ[sid] = <<>> /\ (link[sid] = "up" \/ sid \in lateReads)
       \/ strandQ[sid] # <<>> /\ Head(strandQ[sid])[1] = Handler

\* What is left on the strands, and of the late reads, in that turn.
StrandsAfter(sid) ==
    IF strandQ[sid] = <<>> THEN strandQ ELSE [strandQ EXCEPT ![sid] = Tail(@)]

LateAfter(sid) == lateReads \ {sid}

\* A handler that completes while its strand is busy waits there.
HandlerWaits(sid) ==
    /\ running
    /\ link[sid] = "up" \/ sid \in lateReads
    /\ strandQ[sid] # <<>> /\ Len(strandQ[sid]) < MaxStrand
    /\ \A i \in DOMAIN strandQ[sid] : strandQ[sid][i][1] # Handler
    /\ strandQ' = [strandQ EXCEPT ![sid] = Append(@, <<Handler>>)]
    /\ lateReads' = LateAfter(sid)
    /\ UNCHANGED <<serverVars, link>>

\* The sessions whose Send runs at once: "polled" tells a polled handler from
\* Update, "own" is the session of the handler and q what its turn left.
RunsAtOnce(polled, own, q) ==
    IF polled THEN {own} \cup {sid \in Sid : q[sid] = <<>>} ELSE {}

\* Variant (UpdateEndsNobody): Send does not go through the strand.
WithoutStrand(targets, now) == {}

\* Variant (OnlyOwnRepliesOvertake): only Update, where nothing runs at once,
\* goes through the strand.
HandlersSendAtOnce(targets, now) == IF now = {} THEN targets ELSE {}

\* Send is dispatched to the strand: the sessions where it waits there.
Waiting(targets, now) == targets \ now

\* TcpSession::Send of each message in batch[sid], in a step that leaves q on
\* the strands and late among the late reads.  A session that is not up keeps
\* nothing; one that is full ends in the call, and what it had goes with it.
SendAll(batch, now, own, q, late) ==
    LET targets == {sid \in Sid : batch[sid] # <<>>}
        waiting == Waiting(targets, now)
    IN  /\ \A sid \in waiting : Len(q[sid] \o batch[sid]) <= MaxStrand
        /\ \E full \in SUBSET {sid \in targets \ waiting : link[sid] = "up"} :
           \E more \in SUBSET (full \ {own}) :
              EndSessions(full, late \cup more)
        /\ strandQ' = [sid \in Sid |->
                         IF sid \in waiting THEN q[sid] \o batch[sid] ELSE q[sid]]

\* The poll runs a Send that waited on a strand.
RunStrand(sid) ==
    /\ running
    /\ strandQ[sid] # <<>> /\ Head(strandQ[sid])[1] # Handler
    /\ SendAll([s \in Sid |-> IF s = sid THEN <<Head(strandQ[sid])>> ELSE <<>>],
               {sid}, 0, StrandsAfter(sid), lateReads)
    /\ UNCHANGED <<running, acceptOp, nextSessionId>>

\* A turn in which the session ends: an error, the idle timeout, the peer.
\* Another handler of the session may be waiting behind it.
LinkFails(sid) ==
    /\ HandlerTurn(sid)
    /\ link[sid] = "up"
    /\ \E more \in SUBSET {sid} : EndSessions({sid}, LateAfter(sid) \cup more)
    /\ strandQ' = StrandsAfter(sid)
    /\ UNCHANGED <<running, acceptOp, nextSessionId>>

\* A turn that does not reach the owner: a write, a timer, an error of a
\* session that has ended, a packet over the session's inbound budget.
QuietTurn(sid) ==
    /\ HandlerTurn(sid)
    /\ strandQ' = StrandsAfter(sid)
    /\ lateReads' = LateAfter(sid)
    /\ UNCHANGED <<serverVars, link>>

-----------------------------------------------------------------------------
(* Properties of the server under any owner.                               *)

\* The map never outgrows the limit, although it is tested in one handler and
\* filled in the same, and sessions come and go in others (TcpServer.cpp:90).
SessionLimitKept == Cardinality(sessions) <= MaxSessions

\* Whatever an accept ends in, another one is pending while the server runs:
\* no refusal and no error stops the server from taking connections
\* (TcpServer.cpp:78-108).
AcceptingWhileRunning == running => acceptOp # "none"

\* While the server runs the map holds exactly the sessions that have not
\* reported their end.  That includes those the owner disconnected: they keep
\* their slot for good (TcpServer.cpp:135, 172-180).
ReportedLeaveTheMap ==
    running => \A sid \in Sid : FindSession(sid) <=> link[sid] \in {"up", "closed"}
=============================================================================
