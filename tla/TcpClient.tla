----------------------------- MODULE TcpClient ------------------------------
(***************************************************************************)
(* TcpClient: one outgoing connection.  Its state is a record, so that a   *)
(* program can own several; every operation maps the record to the next.   *)
(* Sessions are numbered in the order they are made: the number stands for *)
(* the TcpSession object, whose session id is always 0.                    *)
(***************************************************************************)
EXTENDS Naturals

NoSession == 0

ClientType(last) ==
    [session    : 0 .. last,          \* m_session
     resolving  : Nat,                \* async_resolve in flight
     connecting : Nat,                \* async_connect in flight
     made       : 0 .. last,          \* sessions made so far
     open       : SUBSET (1 .. last), \* sessions whose socket is open
     closing    : SUBSET (1 .. last)] \* those whose Close waits on the strand

NewClient == [session |-> NoSession, resolving |-> 0, connecting |-> 0,
              made |-> 0, open |-> {}, closing |-> {}]

IsConnected(c) == c.session # NoSession

Connect(c) == IF IsConnected(c) THEN c ELSE [c EXCEPT !.resolving = @ + 1]

Resolved(c) == [c EXCEPT !.resolving = @ - 1, !.connecting = @ + 1]

ResolveFailed(c) == [c EXCEPT !.resolving = @ - 1]

\* The new session takes the place of whatever m_session held.
Connected(c) ==
    LET s == c.made + 1
    IN  [c EXCEPT !.connecting = @ - 1, !.made = s, !.session = s, !.open = @ \cup {s}]

ConnectFailed(c) == [c EXCEPT !.connecting = @ - 1]

\* Close runs on the strand of the session, which may be busy.
Disconnect(c) ==
    IF IsConnected(c) THEN [c EXCEPT !.session = NoSession, !.closing = @ \cup {c.session}]
                      ELSE c

Closed(c, s) == [c EXCEPT !.open = @ \ {s}, !.closing = @ \ {s}]

\* Variant (ThreadsAgree): the end of a session leaves m_session set.
EndedKept(c, s) == Closed(c, s)

\* m_onDisconnected of a session resets m_session, whichever session ended.
Ended(c, s) == [Closed(c, s) EXCEPT !.session = NoSession]

\* io_context has work to do for this client even if nothing is posted.
HasWork(c) == c.resolving > 0 \/ c.connecting > 0 \/ c.open # {}
=============================================================================
