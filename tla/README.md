# Verification of the MORPG network sample

TLA+ models of the networking core of this repository, the TLC runs that check
them and the TLAPS proofs of what matters most.  Every definition is translated
from the C++ source; `PROJECT.json` maps each to its lines.

## 1. The system

A client (`YunoGame`) logs in at the login server (`YunoLoginServer`), gets a
token, and enters the world of the game server (`YunoServer`) with it.  Both
servers and the client stand on one transport (`YunoNetTransport`), itself on
Boost.Asio.  MySQL holds accounts and tokens.  Each server runs on one thread
that alternates between polling its `io_context` until nothing is ready and an
`Update`; the client runs its `io_context` on a network thread beside the game
thread.

| component | state | operations | talks to |
| --- | --- | --- | --- |
| `TcpSession` | socket, strand, write queue and its byte count, `m_writing`, read buffers, idle timer, inbound window, `m_disconnectedNotified` | Start, Close, Send; handlers of reads, writes and the timer | kernel (async operations), owner (`m_onPacket`, `m_onDisconnected`) |
| `TcpServer` | `m_running`, acceptor, `m_sessions`, id counter | Start, Stop, accept handler, FindSession, DisconnectSession, hooked callbacks | sessions (shared_ptr in the map, weak_ptr in callbacks), owner |
| game server (`YunoServerNetwork`) | `m_players`, `m_sessionPacketBudgets`, id counters, snapshot accumulator, DB handle | enter world, move input, ack, ping, disconnection, Update/broadcast, Stop | TcpServer, MySQL |
| login server (`YunoLoginServerNetwork`) | login session per connection | register, login, logout, disconnection | TcpServer, MySQL repository |
| repository and procedures | `users`, `login_tokens` (one row per user) | validate, create, upsert, has-active, revoke, migrate | both servers |
| `TcpClient`, `YunoClientNetwork` | session, resolver, incoming queue, network thread | Connect, Disconnect, Send, Start, Stop, Pump | game thread |
| prediction (`WorldPlayerState`, `GameApp`) | pending local inputs, last server state, interpolation buffers | publish input/snapshot/spawn, reconcile, sample | client network, scenes |
| dispatcher, builder, byte IO, packets | handler table | frame, check size and direction, serialise | all of the above |
| scene manager (`YunoSceneManager`) | scene stack, views, two queues of operations | push, pop, replace, apply, update, shut down | scenes (callbacks), input system |
| object and effect managers (`ObjectManager`, `Unit`, `EffectManager`) | units, maps by id and name, attach tree, effect pool | create, destroy, attach, spawn, per-frame queues | scenes |
| renderer, UI, audio, input, tools | — | — | not modelled: I/O and numeric data |

### What is hard here, and what makes each component correct

* **TcpSession.**  Handlers of one socket interleave with Send and Close on a
  strand; success handlers that were queued before a Close still run after it.
  Correct means: exact byte accounting, limits kept, one write at a time, no
  stalled queue, packets on the wire in the order they were accepted, the end
  reported once and never after Close, silent peers dropped, everything released.
* **TcpServer.**  A dispatched call runs inside its caller or later, depending
  on who calls and whether the strand is idle; the map changes under callbacks.
  Correct means: the accept chain never breaks, the limit holds, the map is
  exactly the sessions that have not reported their end, messages to a session
  keep their order.
* **Game server.**  Players, sessions, budgets and tokens are four maps that must
  agree while sessions end in the middle of loops over them.  Correct means: a
  user is in the world once, a token lets one session in, no player without a
  session, no entity shared, each input applied once.
* **Login server and tokens.**  Queries fail, answers are lost, tokens expire
  under players.  Correct means: no second token while one is valid, no user
  locked out for longer than a token lives.
* **Client network.**  Game thread and network thread share two queues and read
  each other's flags.  Correct means: at most one live session, Stop returns and
  leaves nothing behind, packets reach the game once and in order.
* **Prediction.**  Inputs, snapshots and acknowledgements are under way at once, a
  reply may overtake a broadcast, budgets drop inputs without a word.  Correct
  means: no input counted twice or taken back, snapshots in order, everything
  settled in the end.
* **Scene manager.**  Requests are made from callbacks of the operations being
  applied, and creations fail.  Correct means: callbacks in turn, one active scene
  on top, no scene used after its end.
* **Objects and effects.**  Creations and destructions wait in queues while ids,
  names and bare pointers are used.  Correct means: ids unique, maps exact, no
  pointer to a deleted unit.

The full list, each at its line and with the properties that cover it, is under
`hazards` in `PROJECT.json`.

## 2. The modules

| module | models | checked by |
| --- | --- | --- |
| `TcpSession` | one session: every operation and handler | `session` |
| `PacketPipe` | abstract: a bounded FIFO pipe that breaks once | refined by `TcpSession` (`PipeSpec`) and `ClientNetwork` (`IncomingPipe`) |
| `TcpServer` | state and operations of the server; strands | through the next three |
| `ServerOwner` | `TcpServer` under an owner that sends and disconnects at will | `server_owner` |
| `WorldServer` | the game server, extending `TcpServer` | `world_entering`, `world_playing`, `world_connected_doc` |
| `LoginServer` | the login server, its repository and tables, extending `TcpServer` | `login` |
| `TcpClient` | one outgoing connection, as operators on a record | through `ClientNetwork` |
| `ClientNetwork` | the game's two threads around a `TcpClient` | `client_network` |
| `MovementSync` | one client and the game server from entry to acknowledged snapshot | `movement_sync` |
| `Pacing` | the clocks: input steps, packet budget, snapshot interval | `pacing` |
| `SceneManager` | the scene stack, its queues and the frame | `scene_stack` |
| `UnitTree` | which unit hangs on which, bones, the effect pool | `unit_tree` |
| `ObjectManager` | units, their ids and names, the queues of a frame | through the next |
| `SceneObjects` | the scene that shows the players, extending `ObjectManager` | `scene_objects` |
| `TcpSessionProofs`, `ServerProofs`, `WorldProofs`, `LoginProofs`, `ClientProofs`, `MovementProofs`, `SceneProofs` | theorems about the module each is named for; `TcpServerProofs`: what every operation of `TcpServer` keeps true; `ClientProofs` also about `Pacing`, `SceneProofs` about `UnitTree`, `MovementProofs` about `ObjectManager` and `SceneObjects` | tlapm |
| `MC...` | values for the constants of the runs | |

Operators commented "Variant (P)" are deliberate faults, never used by a
specification; each stands beside the definition it spoils and shows that P can
fail (`mutants` in `PROJECT.json`).

The modules rest on each other's promises rather than on each other's states.
`TcpServer` sees a session as `TcpSession` promises it (one late packet at most, an
end reported once).  `MovementSync` sees the connection as `PipeSpec`,
`IncomingPipe` and `OnlyOwnRepliesOvertake` leave it: in order, except that a reply
overtakes what waits on the strand.  `LoginServer` and `WorldServer` meet in the
token table, each with the other reduced to what it does to the rows.

### TcpSession

A packet is the range of bytes it takes in the stream of everything accepted,
so size, order and identity are one thing.  An asynchronous operation is
`wait`, `ok` or `err` until its handler runs; `socket.close()` turns waiting
operations into `err`, operations begun on a closed socket into `err` at once,
and leaves finished ones alone.  That is what lets handlers run after a close.
Times are ages rather than a clock: since the last receipt, of the window, left
on the timer.  `recent[k]`, a history variable, counts the packets delivered in the
last k ticks.  `readOp.op = "callback"` is the owner's code running inside a
read handler: Send and Close called there run inline, before the handler goes
on; no other handler of the session runs until it returns (`StrandFree`).

### TcpServer and ServerOwner

A session is reduced to what `TcpSession` shows its owner: up, ended (reported)
or closed (not reported), with at most one late packet (`AtMostOneLateDelivery`
is what justifies "one").  `strandQ` holds the Sends and the handler that wait on
a session's strand.  `RunsAtOnce` is Asio's dispatch rule: from a polled handler
an idle strand, or the handler's own, runs the call inline; from `Update`
nothing does.  `SendAll` is any number of Sends in one step of the single
thread; any session whose call runs inline may turn out to be full, which ends
it inside that step.  `Update` and `Stop` happen when the poll is dry.
`ServerOwner` closes the model with an owner that answers any packet with a
message to any sessions, and numbers the messages.

### WorldServer

One action per packet handler, each a turn of the session it came from, with
the packet budget consumed first and the session looked up as
`RegisterPacketHandlers` does.  `OnDisconnected` is part of whatever step ends a
session.  A step that enters the world sends the spawn message and the snapshot,
and may end sessions while `BroadcastWorldSnapshot` iterates the players: the
iteration is then undefined and the model lets it skip any of the rest.  (The
process may also die there, after which there is nothing to check.)  Positions
are the number of input steps from the spawn point.  The budget counters are
reset when the window passes, not at the next packet; they are read only after
that test.  Query failures are choices: an entry whose query fails is an
`IgnorePacket`, a revocation may leave the token valid.  The login server and
the age of tokens are `IssueToken` and `TokenEnds`.  The numbers of snapshots and
ticks, the contents of messages, and the legacy-hash migration are left out.

### LoginServer

`authenticated` is the part of `m_sessions` that is read: the sessions whose
login was accepted.  `accounts` and `rows` are the tables; a row holds its token,
the time it has left and whether it is revoked (`expires_at`, `revoked_at`).  A
handler runs from one query to the next: `request` says which query it is at, and
each query is an action, so that the game server's queries, the clock and a crash
of the process (`Restart`) come between any two.  Nothing else of the login server
runs meanwhile (`request = Idle` guards it), since the handler holds its only
thread.  A query that stores or revokes has three outcomes: done, failed, and done
with the answer lost (`mysql_query` reports an error for the last two).  The game
server is reduced to what it does to the tables: it lets a user in with an active
token the client was told, which `UserOnceInWorld` of `WorldServer` makes one
token per user, and revokes by hash when the user leaves.  A session that enters
under another user is `LeaveWorld` without revocation, then `EnterWorld`.
`MakeLoginToken` never repeats; the model reuses a token that is in no row and
with no player.  `told` is a history variable: the tokens clients know.

### TcpClient and ClientNetwork

A client is a record: the current session, resolutions and connections in flight,
the sessions with an open socket and those whose `Close` waits on the strand.
Sessions are numbered as they are made.  `ClientNetwork` has two processes.  The
game thread goes from `register` (handlers are registered after `Start`, before
the first frame) through `pump` and `check` to `stop`, `join` and `clear`; the
network thread runs `posted` in order and the completions of asynchronous
operations until the `io_context` is stopped or has no work.  A handler takes two
steps, `BeginHandler` and its effects, and `m_io.stop()` may come between them: the
handler it meets still changes the client, sends or delivers, until the join.
`StopIsFinal` is about the time after that, once `Stop` has returned: neither what
was left in `posted` nor another `Start` may connect, send or deliver.
`IsConnected` reads `m_session` without a lock; the model reads the value of the
moment.  The `io_context` is never restarted (`StoppedAtStart`), so a second `Start`
finds it stopped; its variant restarts it, and breaks `StopIsFinal`.

### MovementSync

The client, the server and both directions of one connection.  A position is the
set of inputs that were added to the spawn point, so an input added twice or lost
shows; the two speeds, and interpolation between two samples, are left out.
`toServer` and `toClient` are in order; `deferred` is what waits on the session's
strand, which replies from the session's own handler (`EnterReply`) overtake.
`ServerDrops` is any budget that refuses a packet.  A second `EnterWorld` takes
the player back to its spawn point.  `dropped` is a history variable.

### Pacing

Times are whole sixtieths of a second and only ages are kept.  `ClientFrame` is the
input loop of `GameApp::OnUpdate` with the clamped time of `YunoTimer`,
`ReceiveInput` the packet budget, `Tick` the snapshot accumulator, which is set to
zero rather than reduced.  Pings and acknowledgements use none of the budget for
inputs but may open its next window (`ReceiveOther`).  They share the budget for all
packets, which is twice that for inputs and left out: a client sends fewer of them
than inputs.  `MaxFrame`, `MaxTick` and `MaxDelay`
bound how late anybody is.  `StallAssumption` bounds the delay further: a stall
may last nearly two windows, 1.9 s with the values of the code.  It is exact at the
run's values, where one unit more drops an input.

### SceneManager

`phase` is the part of the frame.  A scene is an object that is requested once;
`life` is a history variable of what its callbacks were told, kept apart from
`SceneEntry::state` so that the two can be compared, and `Told` makes it `broken`
when a callback comes out of turn.  An operation is one action, the creation's
outcome a choice.  After it come any number of requests of its callbacks
(`EnqueueOp` while `called`): a deferred one waits for the next frame, an immediate
one goes to the end of the vector the loop runs over, where the loop, which took
its end before, does not come to it, and goes with `ops.clear()`.  `batch` is what
the loop still has before it.  `owed` is a history variable: every request is
numbered, pops included, but for those immediate ones, and stays owed until it is
applied; `RequestsAreApplied` says that none stays so for ever, which a request
dropped unapplied would.  The immediate requests of callbacks are outside it, for
the code does lose them (section 5).  A scene that lies paused on top and is
popped gets `OnDestroy` without `OnExit`.  The game itself requests one `ReplaceRoot`; the
model lets any scene request anything.

### UnitTree, ObjectManager and SceneObjects

`UnitTree` keeps, for every unit, its parent pointer and, for every object, its
children and (animated ones) the two maps of bones; deletion of an object leaves
behind what the code leaves behind.  `Clear` comes at the end of the scene and in
`OverlaySceneFromFile`, after which the scene goes on with other objects and with
the effects it had.  `Id` is any function to the natural numbers, for objects and
effects do come to share ids (section 5); in the run one object has the id of an
effect.  The code goes wrong for two kinds of units: those that met, in play,
another with their own id, and effects that hung on an object when `Clear` came.
`stale`, a history variable, collects them, and `TreeIsSound` says of every other
unit that its pointer leads to an object there is and that lists it.  A step
that would follow a pointer to a deleted parent is not taken (`MayFollow`): what
the code does then is undefined.  No game code calls attach, spawn or overlay yet; the
model calls them freely.  `ObjectManager` has
names as sequences of digits, since its search for a free name counts names that
contain the new one and appends the digits of the count.  `SceneObjects` is `TestScene`: one step per entity of a
snapshot, removals, then `SubmitObj` with the manager's queues.  A snapshot tells of
`MaxPlayers` entities at most, the sessions the server has room for, so a count
has four digits at most.  Only creation
without a preferred id and destruction by id occur.

## 3. What the runs show

| run | bounds | shows |
| --- | --- | --- |
| `session` | 2 packets / 3 bytes of queue, packets of 0–2 bytes, 3 bytes accepted; bodies of 0, 1, too many bytes; timeout 1, window 2 ticks, 1 packet per window | the sending side is exact, bounded, ordered, stops once and implements `PacketPipe`; one late packet at most, silence below twice the timeout, deliveries within twice the budget; accepted bytes leave or the session ends |
| `server_owner` | 3 connections, 2 slots, 3 messages, 3 entries per strand | accept chain, limit, map, order of messages |
| `world_entering` | 2 sessions, 2 users, 3 tokens, 1 packet per window | users, players and tokens agree; Update's broadcast ends nobody |
| `world_playing` | 1 session, 3 tokens, 3 frame lists, acks 1–2, 2 packets (1 move) per window, 1 drop | inputs applied once, progress kept across entries |
| `world_connected_doc` | as `world_entering` | *violated*: README.md:102; a session over its budget stays in the world and is sent snapshots |
| `login` | 1 connection at a time and in all, 2 users, 3 tokens that live 2 ticks | a login takes no active token away, a leave revokes no later login, lost answers and crashes lock a user out until the token expires and never for good |
| `client_network` | 2 starts, 3 packets | the threads agree, Stop returns in the middle of a handler too and is final, the entry is sent, the incoming queue implements `PacketPipe` |
| `movement_sync` | 1 other player, 3 inputs, 4 snapshots, 1 drop, 3 messages under way | the view is sound, inputs are counted once, snapshots stay in order, inputs settle, departed players vanish |
| `pacing` | step 2, frames up to 4, stalls up to 6, interval 3, rounds up to 2, window 4, 6 moves | an honest client loses no input, snapshots come in time and never too close |
| `scene_stack` | 3 scenes, 2 operations waiting, made by one callback or several | callbacks in turn, the stack sound, requests applied |
| `unit_tree` | 3 objects (1 animated with 2 bones, 1 with an effect's id), 2 effects | pointers, children, bones and pool agree in any order of destruction, over overlays and but for the stale units |
| `scene_objects` | players 1, 2, 11, all of them in a snapshot at most; 5 snapshots; 12 ids | ids and maps exact, no dangling pointer, the screen shows the last snapshot |

The bounds let every interesting case occur: the queue both fills and overflows
by packets and by bytes, a write is in flight while Close empties and Send
refills the queue, a window boundary falls between two bursts, the map is full
when a connection arrives, a handler waits on a strand with a message before
and one behind it, a user has a second token, a session enters under a second
user, a revocation fails, a token expires under a player while its user logs in
again with the third, a network is stopped before its connection is made, an
entry's reply overtakes a broadcast, an input is dropped between two that are
not, a push fails above a paused scene while two operations wait, a player comes
back under a name that contains another's.  No property depends on more sessions
than two of the same user or a message and its overtaker.

`CHECK_DEADLOCK FALSE` is set where the program stops (servers and clients are
shut down, scenes end) or where a bound of the model ends the behaviour
(`MovementSync` runs out of inputs and snapshots; `Pacing` of time for somebody
who is late); `session` keeps the deadlock check, as its clock never stops.

`PollIsDry` for `Update` follows the loop `while (m_io.poll_one() > 0)`.  The
counters `LastSid`, `LastMessage`, `MaxStrand`, `MaxAccepted`, `MaxStarts`,
`MaxPackets`, `MaxInputs`, `MaxSnapshots`, `MaxInFlight`, `MaxPending`, `MaxID` and
`Frames` are bounds of the models, not of the code.

### Fairness

* `session`: the `io_context` runs every queued handler (weak; strong for handlers
  that wait while the owner's code runs inside a read handler), the kernel takes
  or fails a started write, timers expire and the clock advances.  This is what
  `Tick` and `m_io.run()` provide as long as callbacks return.  Nothing is assumed
  of the peer, of reads or of the owner.
* `login`: only that the clock advances while a token runs out; expiry is
  `expires_at > NOW()` in the database and needs no step of either server.
* `client_network`: the game thread goes on with its frames and with a Stop it has
  begun; the network thread begins what is posted, gets to the end of a handler it
  has begun and returns when it can.  Nothing is assumed of the network, so a
  resolution may never end.
* `movement_sync`: the loops of both programs go on; a message arrives unless it
  is dropped or the connection fails.  Requests and failures are never forced.
* `scene_stack`: the main loop goes on.

## 4. What is proved

Proofs are by an inductive invariant, checked for `Init` and each action, then
combined with PTL.  Assumptions are the named `ASSUME`s of the modules: limits
are natural numbers, the header has at least one byte, "no scene" is no scene,
entities and effects are finitely many, `StallAssumption` bounds a stall, and
`PlayersAssumption` says that twice the players and the terrain have four digits (the
server has room for 2048).  Nothing is assumed of the units' ids.

* **TcpSessionProofs.**  `SendInv` joins the byte count to the queue as a gapless
  run that ends at `accepted`, the single write to `m_writing` and to the front
  of the queue, the socket to `m_disconnectedNotified` and to the number of
  reports.  None of the listed properties is inductive alone: the byte count
  needs the order of the queue, the absence of stalls needs `m_writing`, and
  `m_writing` may stay set only once the socket is closed.  From it:
  `QueueAccounted`, `WritesMatchQueue`, `EndReportedOnce`, `CloseIsSilent`, and the
  refinement of `PacketPipe`.  `RecvInv` is its counterpart for receiving.  That one
  late packet is the last needs that a read begun on a closed socket fails; that
  silence ends needs the sum of the silence and the time left on the timer, since
  the timer is not restarted by a receipt.  `RateInv` bounds what the last k ticks
  saw for every k at once: the window's count, and one budget more once k is
  greater than the window's age.  `DeliveryRateBounded` is the last k alone, and not
  inductive: a tick makes the bound of k that of k + 1.
* **TcpServerProofs, ServerProofs.**  `ServerInv` says that ids are given out in
  order (so a new session was not in the map), that a stopped server has an empty
  map, and that a connection is accepted only while an id is left; each operation
  keeps it, whoever owns the server.  `OwnerInv` adds the order of messages.  That
  what a session has taken is in order is not inductive: `Ordered` relates it to
  what waits on the strand, which must itself be in the order of sending, and
  bounds every number by `issued`.
* **WorldProofs.**  `WorldInv` joins `ServerInv` to `GoodPlayers`, `GoodBudgets` and
  `GoodTokens`.  These are stated over maps rather than variables, because a step
  that ends sessions in the middle of a broadcast passes through maps no state has:
  `EnterGood` shows them of the map with the new player, `LeaversGood` that
  `OnDisconnected` then keeps them.  `TokenAdmitsOneSession` needs that a token that
  can still be used belongs to the player of every session it let in, and with
  `UserOnceInWorld` that there is one such player.  `InputAppliedOnce` rests on
  `AppliedCount`: the frames applied map one to one into the numbers after the last
  one processed.
* **LoginProofs.**  `LoginInv` adds to `ServerInv` that a handler at the store of a
  token has a user without an active one.  That is kept because nobody else makes
  a token active: each query of the game server, each tick and each handler of the
  network is shown to leave `Active` alone or to end it.
* **ClientProofs.**  `ClientInv` says that there is one attempt to connect
  (`ConnectsOnce`: an `io_context` that was stopped has run all it will run, and
  before that `Start` was called once), that a session's place is freed by its own
  end (`OneAttempt`), and that stop, join and clear come in this order
  (`StopsInOrder`); once `Stop` has returned the `io_context` is stopped and no handler
  is half way, and it stays so (`StaysFinal`).  From it: `ThreadsAgree`, `StopIsFinal`, and the refinement of
  `PacketPipe` by the incoming queue.  `ClockInv`, of `Pacing`, counts inputs as time:
  those that lie at or behind an input on the wire were made since it was sent
  (`InputsPaced`), and those the window let in with all on the wire were made
  since it opened, or in the longest delay before that (`WindowPaced`).  Both also
  count the time the client has not yet made inputs of.  With `StallAssumption` the
  count stays below the budget (`HonestInputsPass`).  For `SnapshotsArePaced` it is
  enough that the age of a snapshot is the accumulator and the age of the tick.
* **MovementProofs.**  `SyncInv` describes what is under way.  Inputs on the wire
  are increasing and are exactly those sent but not yet settled (`InputsInOrder`,
  `NoInputLost`); every snapshot on its way, on the strand or made next, tells a
  prefix of what the server has applied and names an acknowledgement of one the
  client has (`AllHold`, `AllFollow`); they lie in the order of their ids, with the
  spawn message first (`SnapshotsOrdered`, `SpawnFirst`).  The order holds only
  because the world is entered once (`EntersOnce`).  From it: `ViewIsSound`,
  `InputsAreCounted`, `SnapshotsInOrder`, for any number of inputs and players.
  `ObjectsInv`, of `SceneObjects`: every id lies below the next one to be given
  out, so that one is free (`IdsFit`); the units are the terrain, those the scene
  points to and those in the queue of destructions (`UnitsFit`); what waits to be
  created while a snapshot is worked on is a player of that snapshot (`PhaseFits`),
  so that no destruction is ignored; and the units, with those to come, keep names
  within four digits and ids within `MaxID` (`CountsFit`).  From it: `SceneIsSound`
  and `ScreenMatchesSnapshot`, for any players and any number of snapshots.
* **SceneProofs.**  `SceneInv` says of the stack that every entry's state is what its
  scene was told, that a scene has one entry and that all but the top are paused;
  of the queues that what waits in them is new and waits once; of the frame that
  what blocks input is on the stack.  That a scene is told nothing out of turn is
  not inductive without the queues, since a scene requested twice would be created
  twice.  Each operation is shown to keep the stack and to leave new scenes alone
  (`OpKeeps`), which is what the queues need of it.  From it: `LifecycleKept` and
  `StackIsSound`, for any number of scenes and requests.  `TreeInv`, of `UnitTree`:
  who is on a list of children points back, has no sibling with its id and its
  parent is there; who points to a parent is in play, and is on its list or stale
  (`Linked`); the bones' two maps agree (`BonesFit`); units in play with an id in
  common are stale (`Met`); the pool's two queues hold each effect once (`Pooled`).
  `Linked` is kept because every step that takes a unit away does so on both sides
  (`DettachKeeps`, `DeleteOneKeeps`): a unit it takes away in place of another has
  that one's id, and by `Met` both are stale.  `DeleteAllKeeps` is `Clear`, which
  does so on one side, for those that are stale from then on.

Bounds of the models that remain in the theorems are arbitrary natural numbers.

Model-checked only: liveness (`AcceptedIsSent`, `LockoutEnds`, `StopReturns`,
`EnterIsSent`, `InputsSettle`, `DepartedVanish`, `RequestsAreApplied`), which needs
fairness and `ENABLED`.  Every other property that passes is a theorem.

## 5. Where the code and its documents differ

`findings` in `PROJECT.json` has the one a run refutes; these came up while
modelling and are what the modules describe (the code, not the document):

* README.md:119 promises a 30 s idle timeout.  The timer is re-armed in full
  (TcpSession.cpp:233), so a session may be silent for nearly 60 s;
  `IdleBelowTwiceTimeout` is the bound that holds.
* README.md:88 has a token revoked with the logout, and used once.  A logout on the
  connection that logged in is dropped (YunoLoginServerNetwork.cpp:236), and the
  game server revokes a token when its player leaves, not when it enters.
* README.md:102 speaks of 20 snapshots a second.  The accumulator is set to zero
  (YunoServerNetwork.cpp:712), so an interval is up to one round longer.
* An immediate scene request made while scenes are updated waits for the next
  frame, and a deferred one made between frames is applied in the same
  (YunoSceneManager.cpp:356, :239; ISceneManager.h:33, YunoSceneManager.h:89 say
  otherwise).  One made by a callback of an operation being applied, with the
  default option, is lost, and its `push_back` may move the vector the loop
  iterates (YunoSceneManager.cpp:119, :250, :352).
* A push whose scene cannot be created leaves the scene below paused
  (YunoSceneManager.cpp:305; IScene.h:36).
* Effects get ids `i + 1 * 100` (EffectManager.cpp:22), that is from 100 in steps of
  one; objects count from 1 and clash with them from the hundredth on.
  Of two units with one id a parent takes the second for the first: it is not
  listed, another is taken off in its place, and its pointer may outlive the
  parent.  `TreeIsSound` excuses such units and no others.
* Names are made unique by counting names that contain them
  (ObjectManager.cpp:360), so two units may still share one; the map of names
  keeps the first.
* `Clear` leaves the map by id (ObjectManager.cpp:146) and the lights, so a manager
  is not to be used after it; `OverlaySceneFromFile` with `replaceObjects` uses it
  (SceneBase.cpp:170).  Old ids then lead to deleted objects, whose names the first
  creation reads (ObjectManager.cpp:360), and an effect that hung on one follows its
  pointer in the next `Update` (Unit.cpp:119).  The model takes the outcome in which
  the objects of the file come to be; `TreeIsSound` says who is left with a pointer
  to a deleted unit: the active effects that had a parent.  Nothing in the
  repository calls the overlay.

## 6. Not modelled

* Renderer, UI, audio, input, window and parser code, ImGui, json.hpp, FMOD: more
  than nine tenths of the lines.  They are vendored, or Direct3D and Win32 calls
  and numeric data, with no protocol of their own between them; a model would be a
  transliteration.  This is why the map covers a small share of all lines although
  it covers the networking core and the engine's managers.
* `PacketDispatcher`, `PacketBuilder`, `ByteIO` and the packets' fields: pure
  functions over bytes.  `WorldServer` and `LoginServer` have a refused frame as an
  ignored packet.
* Spawn point resolver: a table lookup.  Server `main` and the bot mode: a loop
  around `Tick` and a load generator.  The client's login menu: one blocking
  request and its answer, whose effect on the tables is `LoginServer`.
* In `WorldServer`: the numbers of snapshots and ticks, contents of messages, the
  migration of old password hashes; in `MovementSync`: speeds and interpolation;
  in `ObjectManager`: preferred ids, overlays, lights, cameras, the scene file
  (`UnitTree` has the overlay that replaces the objects).
* `SceneBase::m_selectedObject`, a bare pointer of debug builds that the hierarchy
  panel sets and nothing clears when its object is destroyed: `SceneIsSound` does not
  cover it.
* `SceneView::state` points into the stack and dangles after a `push_back`; nothing
  reads it through the view, so the model has indices.
* Password hashing and SQL escaping; vendored code; scripts.
