------------------------------- MODULE Pacing -------------------------------
(***************************************************************************)
(* The clocks of a client and the game server: the inputs a frame sends,   *)
(* the delay of the network, the rate the server lets inputs in with, and  *)
(* the snapshots its ticks send.  Times are whole units of a sixtieth of a *)
(* second; what is kept of a moment is how long ago it was.                *)
(***************************************************************************)
EXTENDS Naturals, Sequences, SequencesExt

CONSTANTS
    Step,         \* kInputSendIntervalSeconds
    MaxDt,        \* m_maxDt of the client's timer
    MaxFrame,     \* bound: the longest frame of the client
    MaxDelay,     \* bound: the longest delay of the network, a stall included
    Interval,     \* kSnapshotIntervalSec
    MaxTick,      \* bound: the longest round of the server's main loop
    Window,       \* kPacketBudgetWindow
    MaxMoves      \* kMaxMoveInputPacketsPerWindow

ASSUME PeriodsAssumption ==
    /\ {Step, MaxDt, MaxFrame, Interval, MaxTick, Window, MaxMoves} \subseteq Nat \ {0}
    /\ MaxDelay \in Nat

\* How long a stall may be: nearly two windows (1.9 s with the values of the
\* code: inputs every 2 units, frames of 6 at most, 90 inputs in 60).
ASSUME StallAssumption == Window + MaxDelay + MaxDt < Step * MaxMoves + 2

VARIABLES
    frameAge,       \* since the client's last Tick
    inputAcc,       \* m_inputSendAccumulator
    inFlight,       \* how long ago each input under way was sent, the oldest first
    windowAge,      \* since budget.windowStart, Window at most
    moves,          \* budget.moveInputPacketsInWindow
    dropped,        \* history: an input was dropped
    tickAge,        \* since m_prevTickTime
    snapshotAcc,    \* m_snapshotAccumulatorSec
    snapshotAge     \* history: since the last broadcast

clientVars == <<frameAge, inputAcc>>
serverVars == <<tickAge, snapshotAcc, snapshotAge>>
budgetVars == <<windowAge, moves, dropped>>
clockVars == <<clientVars, inFlight, budgetVars, serverVars>>

ClockTypeOK ==
    /\ frameAge \in 0 .. MaxFrame
    /\ inputAcc \in 0 .. Step - 1
    /\ inFlight \in Seq(0 .. MaxDelay)
    /\ windowAge \in 0 .. Window
    /\ moves \in 0 .. MaxMoves
    /\ dropped \in BOOLEAN
    /\ tickAge \in 0 .. MaxTick
    /\ snapshotAcc \in 0 .. Interval - 1
    /\ snapshotAge \in Nat

\* The player has just spawned; the server has been up for a while.
ClockInit ==
    /\ frameAge = 0 /\ inputAcc = 0
    /\ inFlight = <<>>
    /\ windowAge = Window /\ moves = 0 /\ dropped = FALSE
    /\ tickAge = 0 /\ snapshotAcc = 0 /\ snapshotAge = 0

Least(a, b) == IF a < b THEN a ELSE b

-----------------------------------------------------------------------------

\* Nobody is later than its bound.
TimePasses ==
    /\ frameAge < MaxFrame /\ tickAge < MaxTick
    /\ inFlight # <<>> => Head(inFlight) < MaxDelay
    /\ frameAge' = frameAge + 1
    /\ inFlight' = [i \in DOMAIN inFlight |-> inFlight[i] + 1]
    /\ windowAge' = Least(windowAge + 1, Window)
    /\ tickAge' = tickAge + 1
    /\ snapshotAge' = snapshotAge + 1
    /\ UNCHANGED <<inputAcc, moves, dropped, snapshotAcc>>

\* YunoTimer::Tick: a long frame counts as MaxDt.
ClampedDt == Least(frameAge, MaxDt)

ClientFrame ==
    LET acc == inputAcc + ClampedDt
    IN  /\ frameAge > 0
        /\ frameAge' = 0
        /\ inputAcc' = acc % Step
        /\ inFlight' = inFlight \o [i \in 1 .. acc \div Step |-> 0]
        /\ UNCHANGED <<budgetVars, serverVars>>

\* Variant (HonestInputsPass): the counters are never set back.
WindowNeverOver == FALSE

WindowOver == windowAge >= Window

HasBudget(n) == n + 1 <= MaxMoves

\* poll_one hands an input to ConsumeSessionPacketBudget.
ReceiveInput ==
    LET before == IF WindowOver THEN 0 ELSE moves
    IN  /\ inFlight # <<>>
        /\ inFlight' = Tail(inFlight)
        /\ windowAge' = IF WindowOver THEN 0 ELSE windowAge
        /\ IF HasBudget(before)
           THEN moves' = before + 1 /\ UNCHANGED dropped
           ELSE moves' = before /\ dropped' = TRUE
        /\ UNCHANGED <<clientVars, serverVars>>

\* Its pings and acknowledgements are not inputs, but they may open the window.
\* (With fewer of them than inputs, the limit of all packets is never met.)
ReceiveOther ==
    /\ WindowOver
    /\ windowAge' = 0 /\ moves' = 0
    /\ UNCHANGED <<dropped, clientVars, inFlight, serverVars>>

AfterSnapshot(acc) == 0

\* Variant (SnapshotsArePaced): one unit too late.
IsOverdue(acc) == acc > Interval

ShouldSendSnapshot(acc) == acc >= Interval

\* Tick, after it polled, and Update.
Tick ==
    LET acc == snapshotAcc + tickAge
    IN  /\ tickAge > 0
        /\ tickAge' = 0
        /\ IF ShouldSendSnapshot(acc)
           THEN /\ snapshotAcc' = AfterSnapshot(acc)
                /\ snapshotAge' = 0
           ELSE /\ snapshotAcc' = acc
                /\ UNCHANGED snapshotAge
        /\ UNCHANGED <<clientVars, inFlight, budgetVars>>

ClockNext == TimePasses \/ ClientFrame \/ ReceiveInput \/ ReceiveOther \/ Tick

ClockSpec == ClockInit /\ [][ClockNext]_clockVars

-----------------------------------------------------------------------------
(* Properties.                                                             *)

\* A client that plays by its own clock never has an input dropped, though the
\* network holds its inputs back and delivers them at once, as long as a stall is shorter
\* than two windows by an input (YunoServerNetwork.cpp:525-570, GameApp.cpp:320-345).
HonestInputsPass == ~dropped

\* Snapshots are never late by a round of the main loop ...
SnapshotsComeInTime == snapshotAge < Interval + MaxTick

\* ... and never closer to each other than the interval.
SnapshotsAreSpaced == [][snapshotAge' < snapshotAge => snapshotAge >= Interval]_clockVars

\* Each broadcast comes at least the interval and less than the interval and a
\* round of the main loop after the last, although the accumulator forgets what
\* it ran over (YunoServerNetwork.cpp:703-719).
SnapshotsArePaced == [](ClockTypeOK /\ SnapshotsComeInTime) /\ SnapshotsAreSpaced
=============================================================================
