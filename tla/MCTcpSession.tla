---------------------------- MODULE MCTcpSession ----------------------------
(* TLC instance of TcpSession: what is sent and what is received.          *)
EXTENDS TcpSession

\* The owner sends packets of one and two bytes, and one that is too short
\* to be a packet at all.
SmallPackets == 0 .. 2

\* A body that is empty, that fits, and that is longer than allowed.
ShortAndLongBodies == {0, 1, 3}
=============================================================================
