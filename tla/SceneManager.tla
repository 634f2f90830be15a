---------------------------- MODULE SceneManager ----------------------------
(***************************************************************************)
(* YunoSceneManager: the stack of scenes, the operations that are          *)
(* requested on it and the frame in which they are applied.  One thread    *)
(* runs it all, but a scene may request an operation from any of its       *)
(* callbacks: between frames, while it is updated or drawn, and in the     *)
(* middle of an operation.                                                 *)
(*                                                                         *)
(* A scene is an object: it is requested once and never comes back.  What  *)
(* its callbacks have been told is kept apart from SceneEntry::state, in   *)
(* the history variable life, so that the two can be compared.             *)
(***************************************************************************)
EXTENDS Naturals, Sequences, SequencesExt

CONSTANTS
    Scenes,      \* the scenes there are: a bound on requests with a scene
    NoScene,     \* no scene
    MaxPending   \* bound: operations waiting in m_pendingNow and m_pendingNext

ASSUME NoSceneIsNone == NoScene \notin Scenes
ASSUME PendingBound == MaxPending \in Nat \ {0}

VARIABLES
    phase,         \* the part of the frame the main loop is in
    stack,         \* m_stack: [scene, state, policy]
    views,         \* m_views: the stack index of each, from 1
    selected,      \* m_selectView: an index in views, or 0
    pendingNow,    \* m_pendingNow, without what ApplyPending has come to
    pendingNext,   \* m_pendingNext
    batch,         \* how many of pendingNow its loop has yet to come to
    called,        \* the operation it is at calls back a scene
    owed,          \* history: the numbers of the requests yet to be applied
    blockScene,    \* the scene SetInputBlockScene was given
    at,            \* the entry Update is at, or 0
    life           \* history: what the callbacks of a scene have been told

stackVars == <<stack, views, selected, life>>
queueVars == <<pendingNow, pendingNext, batch, called, owed>>
vars == <<phase, stackVars, queueVars, blockScene, at>>

Policy == [blockUpdateBelow : BOOLEAN, blockInputBelow : BOOLEAN]
DefaultPolicy == [blockUpdateBelow |-> FALSE, blockInputBelow |-> FALSE]
Entry == [scene : Scenes, state : {"Active", "Paused"}, policy : Policy]

\* A request has a number of its own until it is applied; one that is going to
\* be dropped has none.
Numbers == 1 .. MaxPending
NoNumber == 0

Op == [type : {"ReplaceRoot", "Push", "Pop"}, scene : Scenes \cup {NoScene},
       policy : Policy, immediate : BOOLEAN, number : Numbers \cup {NoNumber}]

Life == {"new", "Loaded", "Active", "Paused", "exited", "destroyed", "broken"}

TypeOK ==
    /\ phase \in {"game", "apply", "update", "render", "off"}
    /\ stack \in Seq(Entry)
    /\ views \in Seq(Nat)
    /\ selected \in Nat
    /\ pendingNow \in Seq(Op) /\ pendingNext \in Seq(Op)
    /\ batch \in 0 .. Len(pendingNow) /\ called \in BOOLEAN
    /\ owed \subseteq Numbers
    /\ blockScene \in Scenes \cup {NoScene}
    /\ at \in 0 .. Len(stack)
    /\ life \in [Scenes -> Life]

Init ==
    /\ phase = "game"
    /\ stack = <<>> /\ views = <<>> /\ selected = 0
    /\ pendingNow = <<>> /\ pendingNext = <<>>
    /\ batch = 0 /\ called = FALSE /\ owed = {}
    /\ blockScene = NoScene /\ at = 0
    /\ life = [s \in Scenes |-> "new"]

-----------------------------------------------------------------------------
(* The callbacks of a scene: what it may be told after what (IScene.h).    *)

Told(l, before, after) == IF l \in before THEN after ELSE "broken"

OnCreate(l) == Told(l, {"new"}, "Loaded")
OnEnter(l) == Told(l, {"Loaded"}, "Active")
OnPause(l) == Told(l, {"Active"}, "Paused")
OnResume(l) == Told(l, {"Paused"}, "Active")
OnExit(l) == Told(l, {"Active", "Paused"}, "exited")
\* A failed OnCreate is followed by OnDestroy; a scene that lies paused on top
\* is popped without OnExit.
OnDestroy(l) == Told(l, {"Loaded", "Paused", "exited"}, "destroyed")

OnStack == {stack[i].scene : i \in DOMAIN stack}

-----------------------------------------------------------------------------
(* Requests.                                                               *)

InQueue(q) == {q[i].scene : i \in DOMAIN q} \ {NoScene}
IsUsed(s) == life[s] # "new" \/ s \in InQueue(pendingNow) \cup InQueue(pendingNext)

\* What can be asked for, under number n.
Requests(n) ==
    {op \in Op :
        /\ op.number = n
        /\ op.scene = NoScene <=> op.type = "Pop"
        /\ op.scene = NoScene \/ ~IsUsed(op.scene)
        /\ op.type = "Push" \/ op.policy = DefaultPolicy}

InCallback == phase = "apply" /\ called

\* The game between frames, a callback of the operation that is applied, a scene
\* that is updated or one that is drawn.  An immediate request of a callback goes
\* to the vector the loop runs over, whose end the loop has taken: ops.clear()
\* drops it.  Should the vector move as it grows, the loop reads freed memory,
\* and there is no next state to speak of.
EnqueueOp ==
    /\ \/ phase = "game"
       \/ InCallback
       \/ phase = "update" /\ at > 0
       \/ phase = "render" /\ stack # <<>>
    /\ Len(pendingNow) + Len(pendingNext) < MaxPending
    /\ \/ /\ InCallback
          /\ \E op \in Requests(NoNumber) :
                 op.immediate /\ pendingNow' = Append(pendingNow, op)
          /\ UNCHANGED <<pendingNext, owed>>
       \/ \E n \in Numbers \ owed : \E op \in Requests(n) :
              /\ \A m \in 1 .. n - 1 : m \in owed
              /\ \/ /\ op.immediate /\ ~InCallback
                    /\ pendingNow' = Append(pendingNow, op) /\ UNCHANGED pendingNext
                 \/ /\ ~op.immediate
                    /\ pendingNext' = Append(pendingNext, op) /\ UNCHANGED pendingNow
              /\ owed' = owed \cup {n}
    /\ UNCHANGED <<batch, called, phase, stackVars, blockScene, at>>

-----------------------------------------------------------------------------
(* YunoSceneManager::Update: what was requested is applied, ...            *)

PromoteNextPending ==
    /\ phase = "game"
    /\ phase' = "apply"
    /\ pendingNow' = pendingNow \o pendingNext /\ pendingNext' = <<>>
    /\ batch' = Len(pendingNow')
    /\ UNCHANGED <<called, owed, stackVars, blockScene, at>>

Exits(e) == e.state \in {"Active", "Paused"}

Removed(e, l) == OnDestroy(IF Exits(e) THEN OnExit(l) ELSE l)

RemovedAll ==
    [s \in Scenes |-> IF \E i \in DOMAIN stack : stack[i].scene = s
                      THEN Removed(stack[CHOOSE i \in DOMAIN stack : stack[i].scene = s], life[s])
                      ELSE life[s]]

NewEntry(op) == [scene |-> op.scene, state |-> "Active", policy |-> op.policy]

\* Variant (LifecycleKept): a failed scene is taken down like any other.
TakenDown(l, ok) == IF ok THEN OnEnter(OnCreate(l)) ELSE OnDestroy(OnExit(OnCreate(l)))

EnsureCreated(l, ok) == IF ok THEN OnEnter(OnCreate(l)) ELSE OnDestroy(OnCreate(l))

\* The stack is empty when OnCreate of the new root fails.
ReplaceRoot(op, ok) ==
    /\ op.type = "ReplaceRoot"
    /\ stack' = IF ok THEN <<NewEntry(op)>> ELSE <<>>
    /\ views' = IF ok THEN <<1>> ELSE <<>>
    /\ selected' = 0
    /\ life' = [RemovedAll EXCEPT ![op.scene] = EnsureCreated(@, ok)]

PausedTop ==
    IF stack # <<>> /\ Last(stack).state = "Active"
    THEN [stack EXCEPT ![Len(stack)].state = "Paused"]
    ELSE stack

Below == PausedTop

\* The scene below is paused before it is known whether there is one above.
Push(op, ok) ==
    /\ op.type = "Push"
    /\ stack' = IF ok THEN Append(Below, NewEntry(op)) ELSE Below
    /\ views' = IF ok THEN Append(views, Len(stack) + 1) ELSE views
    /\ life' = [s \in Scenes |->
                   IF s = op.scene THEN EnsureCreated(life[s], ok)
                   ELSE IF stack # <<>> /\ s = Last(stack).scene /\ Last(stack).state = "Active"
                   THEN OnPause(life[s])
                   ELSE life[s]]
    /\ UNCHANGED selected

Resumes(below) == below # <<>> /\ Last(below).state = "Paused"

Resumed(below) ==
    IF below # <<>> THEN [below EXCEPT ![Len(below)].state = "Active"] ELSE below

Deselected == 0

Pop(op) ==
    /\ op.type = "Pop"
    /\ \/ stack = <<>> /\ UNCHANGED stackVars
       \/ /\ stack # <<>>
          /\ LET top == Last(stack)
                 below == Front(stack)
             IN  /\ stack' = Resumed(below)
                 /\ life' = [s \in Scenes |->
                               IF s = top.scene
                               THEN OnDestroy(IF top.state = "Active" THEN OnExit(life[s]) ELSE life[s])
                               ELSE IF Resumes(below) /\ s = Last(below).scene
                               THEN OnResume(life[s])
                               ELSE life[s]]
          /\ views' = Front(views)
          /\ selected' = Deselected

\* Variant (RequestsAreApplied): a creation that fails ends the loop.
RemainingIfCreated(ok) == IF ok THEN batch - 1 ELSE 0

Remaining(ok) == batch - 1

\* One operation.  Whether OnCreate succeeds is up to the scene; a Pop of an
\* empty stack calls nobody.
ApplyPending ==
    /\ phase = "apply" /\ batch > 0
    /\ \/ /\ \E ok \in BOOLEAN :
                 /\ ReplaceRoot(Head(pendingNow), ok) \/ Push(Head(pendingNow), ok)
                 /\ batch' = Remaining(ok)
          /\ called' = TRUE
       \/ /\ Pop(Head(pendingNow))
          /\ batch' = batch - 1
          /\ called' = (stack # <<>>)
    /\ pendingNow' = Tail(pendingNow)
    /\ owed' = owed \ {Head(pendingNow).number}
    /\ UNCHANGED <<pendingNext, phase, blockScene, at>>

InputBlockers == {i \in DOMAIN stack : stack[i].policy.blockInputBelow}
Topmost(S) == CHOOSE i \in S : \A j \in S : j <= i

\* Variant (StackIsSound): an empty stack is left alone.
BlockKeptWhenEmpty ==
    IF stack = <<>> THEN blockScene
    ELSE IF InputBlockers = {} THEN NoScene ELSE stack[Topmost(InputBlockers)].scene

BlockInput ==
    IF InputBlockers = {} THEN NoScene ELSE stack[Topmost(InputBlockers)].scene

\* ... the vector is cleared of what the loop came to and of what its callbacks
\* put behind that, the input system learns whose input is blocked, ...
Applied ==
    /\ phase = "apply" /\ batch = 0
    /\ phase' = "update"
    /\ pendingNow' = <<>> /\ called' = FALSE
    /\ blockScene' = BlockInput
    /\ at' = Len(stack)
    /\ UNCHANGED <<stackVars, pendingNext, batch, owed>>

GoesBelow(e) == ~e.policy.blockUpdateBelow

\* ... and the scenes are updated from the top down.
UpdateScene ==
    /\ phase = "update" /\ at > 0
    /\ at' = IF GoesBelow(stack[at]) THEN at - 1 ELSE 0
    /\ UNCHANGED <<phase, stackVars, queueVars, blockScene>>

UpdateEnds ==
    /\ phase = "update" /\ at = 0
    /\ phase' = "render"
    /\ UNCHANGED <<stackVars, queueVars, blockScene, at>>

\* The scene hierarchy panel selects a view while the frame is drawn.
SelectView ==
    /\ phase = "render"
    /\ \E v \in DOMAIN views : selected' = v
    /\ UNCHANGED <<phase, stack, views, life, queueVars, blockScene, at>>

FrameEnds ==
    /\ phase = "render"
    /\ phase' = "game"
    /\ UNCHANGED <<stackVars, queueVars, blockScene, at>>

\* The destructor, after the last frame.  The queues are dropped first.
ShutdownStack ==
    /\ phase = "game"
    /\ phase' = "off"
    /\ pendingNow' = <<>> /\ pendingNext' = <<>>
    /\ stack' = <<>>
    /\ life' = RemovedAll
    /\ UNCHANGED <<views, selected, batch, called, owed, blockScene, at>>

Frame ==
    \/ PromoteNextPending \/ ApplyPending \/ Applied
    \/ UpdateScene \/ UpdateEnds \/ FrameEnds

Next == EnqueueOp \/ Frame \/ SelectView \/ ShutdownStack

Spec == Init /\ [][Next]_vars

\* The main loop goes on.
FairSpec == Spec /\ WF_vars(Frame)

-----------------------------------------------------------------------------
(* Properties.                                                             *)

\* No scene gets a callback out of turn: it is created once, entered once, left
\* at most once and destroyed last, however pushes, pops and failing creations
\* follow each other (IScene.h:31-37, YunoSceneManager.cpp:165-182, :245-353).
LifecycleKept == \A s \in Scenes : life[s] # "broken"

\* What an entry says of its scene is what the scene was told, and no scene
\* lives outside the stack.
LifeMatchesState ==
    /\ \A i \in DOMAIN stack : life[stack[i].scene] = stack[i].state
    /\ \A s \in Scenes : life[s] \in {"Active", "Paused"} => s \in OnStack

\* Only the top of the stack can be active.
OneActiveOnTop == \A i \in DOMAIN stack : stack[i].state = "Active" => i = Len(stack)

\* There is a view for each entry, and the one selected is among them.
ViewsMatchStack ==
    phase # "off" => /\ Len(views) = Len(stack)
                     /\ \A i \in DOMAIN views : views[i] = i
                     /\ selected <= Len(views)

\* The scene whose input is blocked is on the stack whenever the input system
\* may look at it.
BlockerIsAlive == phase \in {"update", "render", "game"} => blockScene \in OnStack \cup {NoScene}

\* No scene is updated while one above it blocks updates.
CoveredIsNotUpdated ==
    phase = "update" =>
        \A i \in DOMAIN stack : i > at /\ at > 0 => ~stack[i].policy.blockUpdateBelow

\* The stack, its entries' states, the views that index it and the pointer the
\* input system keeps from frame to frame stay in step through every operation,
\* failed creations and requests from callbacks included: no scene leaks, none
\* is used after its destruction, and a covered one neither runs nor is active
\* (YunoSceneManager.cpp:245-388, YunoInputSystem.cpp:139).
StackIsSound ==
    /\ TypeOK
    /\ LifeMatchesState
    /\ OneActiveOnTop
    /\ ViewsMatchStack
    /\ BlockerIsAlive
    /\ CoveredIsNotUpdated

\* Every request is applied while the main loop runs, in whatever phase it was
\* made and whether or not the creations before it fail, but for an immediate
\* one of a callback of ApplyPending, which ops.clear() drops
\* (YunoSceneManager.cpp:119-123, :233-243, :250-352).
RequestsAreApplied == \A n \in Numbers : n \in owed ~> n \notin owed \/ phase = "off"
=============================================================================
