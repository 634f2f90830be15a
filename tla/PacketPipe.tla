----------------------------- MODULE PacketPipe -----------------------------
(***************************************************************************)
(* What a TcpSession promises the code that calls Send: a bounded pipe     *)
(* that carries the accepted packets in the order they were accepted, each *)
(* at most once, until the connection ends; from then on nothing moves.    *)
(***************************************************************************)
EXTENDS Integers, Sequences

CONSTANTS Content,   \* the packets that can be sent
          Capacity   \* how many packets the pipe holds

VARIABLES up,        \* the connection is up
          pending,   \* accepted, not yet on the wire
          wire       \* on the wire

pipeVars == <<up, pending, wire>>

PipeInit == up = TRUE /\ pending = <<>> /\ wire = <<>>

Accept(pkt) ==
    /\ up
    /\ Len(pending) < Capacity
    /\ pending' = Append(pending, pkt)
    /\ UNCHANGED <<up, wire>>

Transmit ==
    /\ up
    /\ pending # <<>>
    /\ wire' = Append(wire, Head(pending))
    /\ pending' = Tail(pending)
    /\ UNCHANGED up

\* The connection ends, with whatever has not been transmitted.
Break ==
    /\ up
    /\ up' = FALSE
    /\ pending' = <<>>
    /\ UNCHANGED wire

PipeNext == (\E pkt \in Content : Accept(pkt)) \/ Transmit \/ Break

PipeSpec == PipeInit /\ [][PipeNext]_pipeVars
=============================================================================
