---------------------------- MODULE SceneProofs -----------------------------
(***************************************************************************)
(* Proofs about SceneManager: the stack and what its scenes were told stay *)
(* in step through every operation and every request.                      *)
(***************************************************************************)
EXTENDS SceneManager, UnitTree, FiniteSetTheorems, WellFoundedInduction, TLAPS

\* What is said of the stack alone: every entry's state is what its scene was
\* told, a scene has one entry, and only the top can be active.
StackTyped == stack \in Seq(Entry) /\ life \in [Scenes -> Life]

EntryTold ==
    /\ \A i \in 1 .. Len(stack) : life[stack[i].scene] = stack[i].state
    /\ \A s \in Scenes : life[s] \in {"Active", "Paused"}
                           => \E i \in 1 .. Len(stack) : stack[i].scene = s

OneEntryEach ==
    \A i, j \in 1 .. Len(stack) : stack[i].scene = stack[j].scene => i = j

CoveredPaused == \A i \in 1 .. Len(stack) : i # Len(stack) => stack[i].state = "Paused"

StackFits == StackTyped /\ LifecycleKept /\ EntryTold /\ OneEntryEach /\ CoveredPaused

\* The views are the indices of the stack.
ViewsFit ==
    /\ views \in Seq(Nat) /\ selected \in Nat
    /\ phase # "off" => /\ Len(views) = Len(stack)
                        /\ \A i \in 1 .. Len(views) : views[i] = i
                        /\ selected <= Len(views)

\* A scene that waits to be pushed is new, and it waits once.
IsOp(op) == op \in Op /\ (op.type = "Pop" <=> op.scene = NoScene)

OpFits(op) == IsOp(op) /\ (op.scene # NoScene => life[op.scene] = "new")

Apart(q, r) ==
    \A i \in 1 .. Len(q), j \in 1 .. Len(r) : q[i].scene = r[j].scene => q[i].scene = NoScene

OnceIn(q) ==
    \A i, j \in 1 .. Len(q) : q[i].scene = q[j].scene /\ q[i].scene # NoScene => i = j

QueuesFit ==
    /\ pendingNow \in Seq(Op) /\ pendingNext \in Seq(Op)
    /\ \A i \in 1 .. Len(pendingNow) : OpFits(pendingNow[i])
    /\ \A i \in 1 .. Len(pendingNext) : OpFits(pendingNext[i])
    /\ OnceIn(pendingNow) /\ OnceIn(pendingNext) /\ Apart(pendingNow, pendingNext)

\* Nothing is updated but in its phase, and what blocks input is on the stack
\* in every phase that does not change it.
FrameFits ==
    /\ phase \in {"game", "apply", "update", "render", "off"}
    /\ blockScene \in Scenes \cup {NoScene}
    /\ at \in 0 .. Len(stack)
    /\ phase # "update" => at = 0
    /\ at > 0 => \A i \in 1 .. Len(stack) : i > at => ~stack[i].policy.blockUpdateBelow
    /\ phase \in {"update", "render", "game"} =>
          blockScene = NoScene \/ \E i \in 1 .. Len(stack) : stack[i].scene = blockScene

\* The loop of ApplyPending has yet to come to operations that are there.
BatchFits ==
    /\ batch \in 0 .. Len(pendingNow)
    /\ phase # "apply" => batch = 0
    /\ called \in BOOLEAN
    /\ owed \subseteq Numbers

SceneInv == StackFits /\ ViewsFit /\ QueuesFit /\ BatchFits /\ FrameFits

-----------------------------------------------------------------------------
(* Sequences and entries.                                                  *)

LEMMA SeqFacts ==
    ASSUME NEW S, NEW q \in Seq(S)
    PROVE  /\ Len(q) \in Nat /\ DOMAIN q = 1 .. Len(q)
           /\ \A i \in 1 .. Len(q) : q[i] \in S
           /\ (q = <<>>) <=> (Len(q) = 0)
  OBVIOUS

LEMMA AppendFacts ==
    ASSUME NEW S, NEW q \in Seq(S), NEW e \in S
    PROVE  /\ Append(q, e) \in Seq(S) /\ Len(Append(q, e)) = Len(q) + 1
           /\ \A i \in 1 .. Len(q) : Append(q, e)[i] = q[i]
           /\ Append(q, e)[Len(q) + 1] = e
           /\ \A i \in 1 .. Len(Append(q, e)) : i \in 1 .. Len(q) \/ i = Len(q) + 1
  OBVIOUS

LEMMA TailFacts ==
    ASSUME NEW S, NEW q \in Seq(S), q # <<>>
    PROVE  /\ Tail(q) \in Seq(S) /\ Len(Tail(q)) = Len(q) - 1
           /\ \A i \in 1 .. Len(Tail(q)) : Tail(q)[i] = q[i + 1] /\ i + 1 \in 1 .. Len(q)
           /\ Head(q) = q[1] /\ Head(q) \in S /\ 1 \in 1 .. Len(q) /\ Len(q) \in Nat
  OBVIOUS

LEMMA PrefixFacts ==
    ASSUME NEW S, NEW q \in Seq(S), NEW k \in 0 .. Len(q)
    PROVE  /\ SubSeq(q, 1, k) \in Seq(S) /\ Len(SubSeq(q, 1, k)) = k
           /\ \A i \in 1 .. k : SubSeq(q, 1, k)[i] = q[i] /\ i \in 1 .. Len(q)
  OBVIOUS

LEMMA FrontFacts ==
    ASSUME NEW S, NEW q \in Seq(S), q # <<>>
    PROVE  /\ Front(q) \in Seq(S) /\ Len(Front(q)) = Len(q) - 1
           /\ \A i \in 1 .. Len(q) - 1 : Front(q)[i] = q[i] /\ i \in 1 .. Len(q)
           /\ Last(q) = q[Len(q)] /\ Last(q) \in S /\ Len(q) \in 1 .. Len(q) /\ Len(q) \in Nat
<1>1. Len(q) - 1 \in 0 .. Len(q) /\ Len(q) \in 1 .. Len(q) /\ Len(q) \in Nat
  BY SeqFacts
<1>2. Front(q) = SubSeq(q, 1, Len(q) - 1) /\ Last(q) = q[Len(q)] /\ Last(q) \in S
  BY <1>1, SeqFacts DEF Front, Last
<1> QED
  BY <1>1, <1>2, PrefixFacts

LEMMA ConcatFacts ==
    ASSUME NEW S, NEW q \in Seq(S), NEW r \in Seq(S)
    PROVE  /\ q \o r \in Seq(S) /\ Len(q \o r) = Len(q) + Len(r)
           /\ \A i \in 1 .. Len(q) + Len(r) :
                 \/ i \in 1 .. Len(q) /\ (q \o r)[i] = q[i]
                 \/ i - Len(q) \in 1 .. Len(r) /\ (q \o r)[i] = r[i - Len(q)]
           /\ Len(q) \in Nat /\ Len(r) \in Nat
  OBVIOUS

\* The same entry in another state.
LEMMA WithState ==
    ASSUME NEW e \in Entry, NEW st \in {"Active", "Paused"}
    PROVE  /\ [e EXCEPT !.state = st] \in Entry
           /\ [e EXCEPT !.state = st].scene = e.scene
           /\ [e EXCEPT !.state = st].policy = e.policy
           /\ [e EXCEPT !.state = st].state = st
  BY DEF Entry

LEMMA ReplaceTop ==
    ASSUME NEW q \in Seq(Entry), q # <<>>, NEW st \in {"Active", "Paused"}, NEW r,
           r = [q EXCEPT ![Len(q)].state = st]
    PROVE  /\ r \in Seq(Entry) /\ Len(r) = Len(q)
           /\ \A i \in 1 .. Len(q) : /\ r[i].scene = q[i].scene /\ r[i].policy = q[i].policy
                                     /\ r[i].state = IF i = Len(q) THEN st ELSE q[i].state
<1> DEFINE e == [q[Len(q)] EXCEPT !.state = st]
<1>1. Len(q) \in 1 .. Len(q) /\ q[Len(q)] \in Entry /\ Len(q) \in Nat
  BY SeqFacts
<1>2. /\ e \in Entry /\ e.scene = q[Len(q)].scene /\ e.policy = q[Len(q)].policy /\ e.state = st
  BY <1>1, WithState
<1>3. r = [q EXCEPT ![Len(q)] = e]
  OBVIOUS
<1> HIDE DEF e
<1>4. /\ r \in Seq(Entry) /\ Len(r) = Len(q)
      /\ \A i \in 1 .. Len(q) : r[i] = IF i = Len(q) THEN e ELSE q[i]
  BY <1>1, <1>2, <1>3
<1> QED
  BY <1>2, <1>4

\* Scenes on the stack are among the scenes, and what is new is not on it.
LEMMA OnTheStack ==
    ASSUME StackFits
    PROVE  /\ \A i \in 1 .. Len(stack) : /\ stack[i] \in Entry /\ stack[i].scene \in Scenes
                                         /\ stack[i].state \in {"Active", "Paused"}
                                         /\ stack[i].policy \in Policy
           /\ \A s \in Scenes : life[s] = "new" => \A i \in 1 .. Len(stack) : stack[i].scene # s
           /\ Len(stack) \in Nat /\ (stack = <<>> <=> Len(stack) = 0)
           /\ DOMAIN stack = 1 .. Len(stack)
<1>1. /\ stack \in Seq(Entry) /\ Len(stack) \in Nat
      /\ \A i \in 1 .. Len(stack) : stack[i] \in Entry
      /\ (stack = <<>> <=> Len(stack) = 0) /\ DOMAIN stack = 1 .. Len(stack)
  BY SeqFacts DEF StackFits, StackTyped
<1>2. \A i \in 1 .. Len(stack) : /\ stack[i].scene \in Scenes
                                 /\ stack[i].state \in {"Active", "Paused"}
                                 /\ stack[i].policy \in Policy
  BY <1>1 DEF Entry
<1> QED
  BY <1>1, <1>2 DEF StackFits, EntryTold

\* What becomes of a scene when the whole stack is taken down.
LEMMA TakenDownFacts ==
    ASSUME StackFits
    PROVE  /\ RemovedAll \in [Scenes -> Life]
           /\ \A s \in Scenes :
                 /\ (\E i \in 1 .. Len(stack) : stack[i].scene = s) => RemovedAll[s] = "destroyed"
                 /\ (\A i \in 1 .. Len(stack) : stack[i].scene # s) => RemovedAll[s] = life[s]
<1>1. ASSUME NEW s \in Scenes, \E i \in 1 .. Len(stack) : stack[i].scene = s
      PROVE  RemovedAll[s] = "destroyed"
  <2> DEFINE i == CHOOSE i \in DOMAIN stack : stack[i].scene = s
  <2>1. i \in 1 .. Len(stack) /\ stack[i].scene = s
    BY <1>1, OnTheStack
  <2>2. RemovedAll[s] = Removed(stack[i], life[s])
    BY <1>1, OnTheStack DEF RemovedAll
  <2> HIDE DEF i
  <2>3. life[s] = stack[i].state /\ stack[i].state \in {"Active", "Paused"}
    BY <2>1, OnTheStack DEF StackFits, EntryTold
  <2> QED
    BY <2>2, <2>3 DEF Removed, Exits, OnExit, OnDestroy, Told
<1>2. ASSUME NEW s \in Scenes, \A i \in 1 .. Len(stack) : stack[i].scene # s
      PROVE  RemovedAll[s] = life[s]
  BY <1>2, OnTheStack DEF RemovedAll
<1>3. \A s \in Scenes : RemovedAll[s] \in Life
  BY <1>1, <1>2 DEF StackFits, StackTyped, Life
<1>4. RemovedAll \in [Scenes -> Life]
  BY <1>3 DEF RemovedAll
<1> QED
  BY <1>1, <1>2, <1>4

LEMMA CreatedFacts ==
    ASSUME NEW ok \in BOOLEAN
    PROVE  /\ EnsureCreated("new", TRUE) = "Active" /\ EnsureCreated("new", FALSE) = "destroyed"
           /\ EnsureCreated("new", ok) \in {"Active", "destroyed"}
  BY DEF EnsureCreated, OnCreate, OnEnter, OnDestroy, Told

-----------------------------------------------------------------------------
(* The operations on the stack.                                            *)

\* What an operation does to the stack, and to scenes that are new.
LeavesNew(op) == \A s \in Scenes : life[s] = "new" /\ s # op.scene => life'[s] = "new"

OpKeeps(op) == StackFits' /\ ViewsFit' /\ LeavesNew(op)

LEMMA ReplaceRootKeeps ==
    ASSUME StackFits, ViewsFit, phase' = phase, NEW op, OpFits(op), NEW ok \in BOOLEAN,
           ReplaceRoot(op, ok)
    PROVE  OpKeeps(op)
<1>1. op.scene \in Scenes /\ life[op.scene] = "new" /\ op.policy \in Policy
  BY DEF ReplaceRoot, OpFits, IsOp, Op
<1>2. \A i \in 1 .. Len(stack) : stack[i].scene # op.scene
  BY <1>1, OnTheStack
<1>3. life' = [RemovedAll EXCEPT ![op.scene] = EnsureCreated("new", ok)]
  BY <1>1, <1>2, TakenDownFacts DEF ReplaceRoot
<1>4. /\ life' \in [Scenes -> Life]
      /\ life'[op.scene] = (IF ok THEN "Active" ELSE "destroyed")
      /\ \A s \in Scenes : s # op.scene =>
            \/ life'[s] = "destroyed"
            \/ life'[s] = life[s] /\ \A i \in 1 .. Len(stack) : stack[i].scene # s
  BY <1>1, <1>3, TakenDownFacts, CreatedFacts DEF Life
<1>5. \A s \in Scenes : s # op.scene => life'[s] \notin {"Active", "Paused", "broken"}
  BY <1>4 DEF StackFits, EntryTold, LifecycleKept
<1>6. LeavesNew(op)
  BY <1>4, TakenDownFacts, OnTheStack, <1>1, <1>3 DEF LeavesNew, StackFits, StackTyped
<1>7. NewEntry(op) \in Entry /\ NewEntry(op).scene = op.scene /\ NewEntry(op).state = "Active"
  BY <1>1 DEF NewEntry, Entry
<1>8. CASE ok
  <2>1. /\ stack' = <<NewEntry(op)>> /\ stack' \in Seq(Entry) /\ Len(stack') = 1
        /\ stack'[1] = NewEntry(op) /\ 1 .. Len(stack') = {1}
    BY <1>7, <1>8 DEF ReplaceRoot
  <2>2. views' = <<1>> /\ views' \in Seq(Nat) /\ Len(views') = 1 /\ views'[1] = 1 /\ selected' = 0
    BY <1>8 DEF ReplaceRoot
  <2>3. ViewsFit'
    BY <2>1, <2>2 DEF ViewsFit
  <2>4. EntryTold' /\ OneEntryEach' /\ CoveredPaused' /\ LifecycleKept' /\ StackTyped'
    BY <1>4, <1>5, <1>7, <1>8, <2>1
       DEF EntryTold, OneEntryEach, CoveredPaused, LifecycleKept, StackTyped
  <2> QED
    BY <1>6, <2>3, <2>4 DEF OpKeeps, StackFits
<1>9. CASE ~ok
  <2>1. stack' = <<>> /\ stack' \in Seq(Entry) /\ Len(stack') = 0 /\ 1 .. Len(stack') = {}
    BY <1>9 DEF ReplaceRoot
  <2>2. views' = <<>> /\ views' \in Seq(Nat) /\ Len(views') = 0 /\ selected' = 0
    BY <1>9 DEF ReplaceRoot
  <2>3. ViewsFit'
    BY <2>1, <2>2 DEF ViewsFit
  <2>4. EntryTold' /\ OneEntryEach' /\ CoveredPaused' /\ LifecycleKept' /\ StackTyped'
    BY <1>4, <1>5, <1>9, <2>1
       DEF EntryTold, OneEntryEach, CoveredPaused, LifecycleKept, StackTyped
  <2> QED
    BY <1>6, <2>3, <2>4 DEF OpKeeps, StackFits
<1> QED
  BY <1>8, <1>9

\* The stack below a pushed scene: all its entries are paused.
LEMMA BelowFacts ==
    ASSUME StackFits
    PROVE  /\ Below \in Seq(Entry) /\ Len(Below) = Len(stack)
           /\ \A i \in 1 .. Len(stack) : Below[i].scene = stack[i].scene /\ Below[i].state = "Paused"
<1>1. stack \in Seq(Entry)
  BY DEF StackFits, StackTyped
<1>2. CASE stack # <<>> /\ Last(stack).state = "Active"
  <2>1. Below = [stack EXCEPT ![Len(stack)].state = "Paused"]
    BY <1>2 DEF Below, PausedTop
  <2>2. /\ Below \in Seq(Entry) /\ Len(Below) = Len(stack)
        /\ \A i \in 1 .. Len(stack) : /\ Below[i].scene = stack[i].scene
                                      /\ Below[i].state = IF i = Len(stack) THEN "Paused" ELSE stack[i].state
    BY <1>1, <1>2, <2>1, ReplaceTop
  <2> QED
    BY <2>2 DEF StackFits, CoveredPaused
<1>3. CASE ~(stack # <<>> /\ Last(stack).state = "Active")
  <2>1. Below = stack
    BY <1>3 DEF Below, PausedTop
  <2>2. ASSUME NEW i \in 1 .. Len(stack)
        PROVE  stack[i].state = "Paused"
    <3>1. stack # <<>> /\ stack[i].state \in {"Active", "Paused"}
      BY <2>2, OnTheStack
    <3>2. Last(stack) = stack[Len(stack)]
      BY <1>1, <3>1, FrontFacts
    <3> QED
      BY <1>3, <3>1, <3>2 DEF StackFits, CoveredPaused
  <2> QED
    BY <1>1, <2>1, <2>2
<1> QED
  BY <1>2, <1>3

LEMMA PushKeeps ==
    ASSUME StackFits, ViewsFit, phase = "apply", phase' = phase, NEW op, OpFits(op),
           NEW ok \in BOOLEAN, Push(op, ok)
    PROVE  OpKeeps(op)
<1>1. op.scene \in Scenes /\ life[op.scene] = "new" /\ op.policy \in Policy
  BY DEF Push, OpFits, IsOp, Op
<1>2. \A i \in 1 .. Len(stack) : stack[i].scene # op.scene
  BY <1>1, OnTheStack
<1>3. stack \in Seq(Entry) /\ life \in [Scenes -> Life] /\ Len(stack) \in Nat
  BY OnTheStack DEF StackFits, StackTyped
<1>4. /\ life'[op.scene] = (IF ok THEN "Active" ELSE "destroyed")
      /\ life'[op.scene] = EnsureCreated("new", ok)
  BY <1>1, <1>3, CreatedFacts DEF Push
<1>5. ASSUME NEW s \in Scenes, s # op.scene
      PROVE  /\ (\E i \in 1 .. Len(stack) : stack[i].scene = s) => life'[s] = "Paused"
             /\ (\A i \in 1 .. Len(stack) : stack[i].scene # s) => life'[s] = life[s]
  <2>1. life'[s] = IF stack # <<>> /\ s = Last(stack).scene /\ Last(stack).state = "Active"
                   THEN OnPause(life[s]) ELSE life[s]
    BY <1>5 DEF Push
  <2>2. stack # <<>> => Last(stack) = stack[Len(stack)] /\ Len(stack) \in 1 .. Len(stack)
    BY <1>3, FrontFacts
  <2>3. ASSUME NEW i \in 1 .. Len(stack), stack[i].scene = s
        PROVE  life'[s] = "Paused"
    <3>1. life[s] = stack[i].state /\ stack[i].state \in {"Active", "Paused"} /\ stack # <<>>
      BY <2>3, OnTheStack DEF StackFits, EntryTold
    <3>2. CASE i = Len(stack)
      BY <2>1, <2>2, <2>3, <3>1, <3>2 DEF OnPause, Told
    <3>3. CASE i # Len(stack)
      <4>1. stack[i].state = "Paused" /\ s # Last(stack).scene
        BY <2>2, <2>3, <3>1, <3>3 DEF StackFits, CoveredPaused, OneEntryEach
      <4> QED
        BY <2>1, <3>1, <4>1
    <3> QED
      BY <3>2, <3>3
  <2>4. (\A i \in 1 .. Len(stack) : stack[i].scene # s) => life'[s] = life[s]
    BY <2>1, <2>2
  <2> QED
    BY <2>3, <2>4
<1>6. life' \in [Scenes -> Life]
  <2>1. \A s \in Scenes : life'[s] \in Life
    BY <1>3, <1>4, <1>5 DEF Life
  <2>2. life' = [s \in Scenes |-> life'[s]]
    BY DEF Push
  <2> QED
    BY <2>1, <2>2
<1>7. LifecycleKept' /\ LeavesNew(op)
  <2>1. ASSUME NEW s \in Scenes
        PROVE  life'[s] # "broken" /\ (life[s] = "new" /\ s # op.scene => life'[s] = "new")
    BY <1>4, <1>5, OnTheStack DEF StackFits, LifecycleKept
  <2> QED
    BY <2>1 DEF LifecycleKept, LeavesNew
<1>8. /\ NewEntry(op) \in Entry /\ NewEntry(op).scene = op.scene /\ NewEntry(op).state = "Active"
  BY <1>1 DEF NewEntry, Entry
<1>9. CASE ok
  <2>1. stack' = Append(Below, NewEntry(op)) /\ views' = Append(views, Len(stack) + 1)
        /\ selected' = selected
    BY <1>9 DEF Push
  <2>2. /\ stack' \in Seq(Entry) /\ Len(stack') = Len(stack) + 1
        /\ \A i \in 1 .. Len(stack) : stack'[i].scene = stack[i].scene /\ stack'[i].state = "Paused"
        /\ stack'[Len(stack) + 1] = NewEntry(op)
        /\ \A i \in 1 .. Len(stack') : i \in 1 .. Len(stack) \/ i = Len(stack) + 1
        /\ Len(stack) + 1 \in 1 .. Len(stack')
    BY <1>3, <1>8, <2>1, BelowFacts, AppendFacts
  <2>3. ViewsFit'
    BY <1>3, <2>1, <2>2, AppendFacts DEF ViewsFit
  <2>4. EntryTold'
    <3>1. ASSUME NEW i \in 1 .. Len(stack')
          PROVE  life'[stack'[i].scene] = stack'[i].state
      BY <1>2, <1>4, <1>5, <1>8, <1>9, <2>2, <3>1, OnTheStack
    <3>2. ASSUME NEW s \in Scenes, life'[s] \in {"Active", "Paused"}
          PROVE  \E i \in 1 .. Len(stack') : stack'[i].scene = s
      <4>1. CASE s = op.scene
        BY <1>8, <2>2, <4>1
      <4>2. CASE s # op.scene
        <5>1. PICK i \in 1 .. Len(stack) : stack[i].scene = s
          BY <1>5, <3>2, <4>2 DEF StackFits, EntryTold
        <5>2. i \in 1 .. Len(stack') /\ stack'[i].scene = s
          BY <1>3, <2>2, <5>1
        <5> QED
          BY <5>2
      <4> QED
        BY <4>1, <4>2
    <3> QED
      BY <3>1, <3>2 DEF EntryTold
  <2>5. OneEntryEach' /\ CoveredPaused'
    BY <1>2, <1>3, <1>8, <2>2 DEF StackFits, OneEntryEach, CoveredPaused
  <2> QED
    BY <1>6, <1>7, <2>2, <2>3, <2>4, <2>5 DEF OpKeeps, StackFits, StackTyped
<1>10. CASE ~ok
  <2>1. stack' = Below /\ views' = views /\ selected' = selected
    BY <1>10 DEF Push
  <2>2. /\ stack' \in Seq(Entry) /\ Len(stack') = Len(stack)
        /\ \A i \in 1 .. Len(stack) : stack'[i].scene = stack[i].scene /\ stack'[i].state = "Paused"
    BY <2>1, BelowFacts
  <2>3. ViewsFit'
    BY <2>1, <2>2 DEF ViewsFit
  <2>4. EntryTold'
    <3>1. ASSUME NEW i \in 1 .. Len(stack')
          PROVE  life'[stack'[i].scene] = stack'[i].state
      BY <1>2, <1>5, <2>2, <3>1, OnTheStack
    <3>2. ASSUME NEW s \in Scenes, life'[s] \in {"Active", "Paused"}
          PROVE  \E i \in 1 .. Len(stack') : stack'[i].scene = s
      <4>1. s # op.scene
        BY <1>4, <1>10, <3>2
      <4> QED
        BY <1>5, <2>2, <3>2, <4>1 DEF StackFits, EntryTold
    <3> QED
      BY <3>1, <3>2 DEF EntryTold
  <2>5. OneEntryEach' /\ CoveredPaused'
    BY <2>2 DEF StackFits, OneEntryEach, CoveredPaused
  <2> QED
    BY <1>6, <1>7, <2>2, <2>3, <2>4, <2>5 DEF OpKeeps, StackFits, StackTyped
<1> QED
  BY <1>9, <1>10

\* Nothing of the stack changes.
LEMMA StackStays ==
    ASSUME StackFits, ViewsFit, UNCHANGED stackVars, phase = "off" => phase' = "off"
    PROVE  StackFits' /\ ViewsFit' /\ (\A s \in Scenes : life'[s] = life[s])
<1>1. stack' = stack /\ views' = views /\ selected' = selected /\ life' = life
  BY DEF stackVars
<1>2. StackFits'
  BY <1>1 DEF StackFits, StackTyped, LifecycleKept, EntryTold, OneEntryEach, CoveredPaused
<1>3. ViewsFit'
  BY <1>1 DEF ViewsFit
<1> QED
  BY <1>1, <1>2, <1>3

LEMMA PopKeeps ==
    ASSUME StackFits, ViewsFit, phase = "apply", phase' = phase, NEW op, OpFits(op), Pop(op)
    PROVE  OpKeeps(op)
<1>1. CASE stack = <<>> /\ UNCHANGED stackVars
  BY <1>1, StackStays DEF OpKeeps, LeavesNew
<1>2. CASE stack # <<>>
  <2> DEFINE n == Len(stack)
             top == stack[n]
             below == Front(stack)
  <2>1. /\ stack \in Seq(Entry) /\ life \in [Scenes -> Life] /\ n \in Nat /\ n \in 1 .. n
        /\ stack # <<>>
    BY <1>2, OnTheStack, SeqFacts DEF StackFits, StackTyped
  <2>2. /\ below \in Seq(Entry) /\ Len(below) = n - 1
        /\ \A i \in 1 .. n - 1 : below[i] = stack[i] /\ i \in 1 .. n
        /\ Last(stack) = top
    BY <2>1, FrontFacts
  <2>3. /\ stack' = Resumed(below) /\ views' = Front(views) /\ selected' = 0
        /\ life' = [s \in Scenes |->
                      IF s = top.scene
                      THEN OnDestroy(IF top.state = "Active" THEN OnExit(life[s]) ELSE life[s])
                      ELSE IF Resumes(below) /\ s = Last(below).scene
                      THEN OnResume(life[s])
                      ELSE life[s]]
    BY <2>1, <2>2 DEF Pop, Deselected
  <2>4. \A i \in 1 .. n : /\ life[stack[i].scene] = stack[i].state
                          /\ stack[i].state \in {"Active", "Paused"} /\ stack[i].scene \in Scenes
                          /\ i # n => stack[i].state = "Paused" /\ stack[i].scene # top.scene
    BY <2>1, OnTheStack DEF StackFits, EntryTold, CoveredPaused, OneEntryEach
  <2>5. life'[top.scene] = "destroyed"
    BY <2>1, <2>3, <2>4 DEF OnDestroy, OnExit, Told
  <2>6. /\ below # <<>> <=> n # 1
        /\ n # 1 => /\ Last(below) = stack[n - 1] /\ n - 1 \in 1 .. n /\ Resumes(below)
                    /\ Len(below) \in 1 .. Len(below)
    <3>1. below # <<>> <=> n # 1
      BY <2>1, <2>2, SeqFacts
    <3>2. n # 1 => /\ Last(below) = below[n - 1] /\ n - 1 \in 1 .. n /\ n - 1 \in 1 .. n - 1
      BY <2>1, <2>2, <3>1, FrontFacts
    <3>3. n # 1 => Last(below) = stack[n - 1] /\ stack[n - 1].state = "Paused"
      BY <2>1, <2>2, <2>4, <3>2
    <3> QED
      BY <2>2, <3>1, <3>2, <3>3 DEF Resumes
  <2>7. /\ stack' \in Seq(Entry) /\ Len(stack') = n - 1
        /\ \A i \in 1 .. n - 1 :
              /\ stack'[i].scene = stack[i].scene
              /\ stack'[i].state = IF i = n - 1 THEN "Active" ELSE "Paused"
    <3>1. CASE n = 1
      <4>1. below = <<>> /\ stack' = below
        BY <2>3, <2>6, <3>1 DEF Resumed
      <4>2. 1 .. n - 1 = {} /\ Len(stack') = n - 1
        BY <2>2, <3>1, <4>1
      <4> QED
        BY <2>2, <4>1, <4>2
    <3>2. CASE n # 1
      <4>1. stack' = [below EXCEPT ![Len(below)].state = "Active"]
        BY <2>3, <2>6, <3>2 DEF Resumed
      <4>2. /\ stack' \in Seq(Entry) /\ Len(stack') = Len(below)
            /\ \A i \in 1 .. Len(below) :
                  /\ stack'[i].scene = below[i].scene
                  /\ stack'[i].state = IF i = Len(below) THEN "Active" ELSE below[i].state
        BY <2>2, <2>6, <3>2, <4>1, ReplaceTop
      <4>3. \A i \in 1 .. n - 1 : i # n /\ i \in 1 .. n
        BY <2>1
      <4> QED
        BY <2>2, <2>4, <4>2, <4>3
    <3> QED
      BY <3>1, <3>2
  <2>8. ASSUME NEW s \in Scenes, s # top.scene
        PROVE  /\ \A i \in 1 .. n - 1 : stack[i].scene = s =>
                     life'[s] = IF i = n - 1 THEN "Active" ELSE "Paused"
               /\ (\A i \in 1 .. n : stack[i].scene # s) => life'[s] = life[s]
    <3>1. life'[s] = IF Resumes(below) /\ s = Last(below).scene THEN OnResume(life[s]) ELSE life[s]
      BY <2>3, <2>8
    <3>2. ASSUME NEW i \in 1 .. n - 1, stack[i].scene = s
          PROVE  life'[s] = IF i = n - 1 THEN "Active" ELSE "Paused"
      <4>1. i \in 1 .. n /\ i # n /\ n # 1 /\ life[s] = "Paused" /\ n - 1 \in 1 .. n
        BY <2>1, <2>4, <3>2
      <4>2. i = n - 1 <=> s = stack[n - 1].scene
        BY <3>2, <4>1 DEF StackFits, OneEntryEach
      <4> QED
        BY <2>6, <3>1, <4>1, <4>2 DEF OnResume, Told
    <3>3. (\A i \in 1 .. n : stack[i].scene # s) => life'[s] = life[s]
      <4>1. CASE n = 1
        BY <2>6, <3>1, <4>1 DEF Resumes
      <4>2. CASE n # 1
        BY <2>6, <3>1, <4>2
      <4> QED
        BY <4>1, <4>2
    <3> QED
      BY <3>2, <3>3
  <2>9. ASSUME NEW s \in Scenes
        PROVE  \/ s = top.scene
               \/ \E i \in 1 .. n - 1 : stack[i].scene = s
               \/ \A i \in 1 .. n : stack[i].scene # s
    BY <2>1
  <2> HIDE DEF n, top, below
  <2>10. ASSUME NEW s \in Scenes
         PROVE  /\ life'[s] \in Life /\ life'[s] # "broken"
                /\ life[s] = "new" => life'[s] = "new"
    <3>1. CASE s = top.scene
      BY <2>1, <2>4, <2>5, <3>1 DEF Life, top
    <3>2. CASE s # top.scene /\ \E i \in 1 .. n - 1 : stack[i].scene = s
      <4>1. PICK i \in 1 .. n - 1 : stack[i].scene = s
        BY <3>2
      <4>2. life[s] \in {"Active", "Paused"}
        BY <2>1, <2>4, <4>1
      <4> QED
        BY <2>8, <3>2, <4>1, <4>2 DEF Life
    <3>3. CASE s # top.scene /\ \A i \in 1 .. n : stack[i].scene # s
      BY <2>1, <2>8, <3>3 DEF StackFits, LifecycleKept
    <3> QED
      BY <2>9, <3>1, <3>2, <3>3
  <2>11. life' \in [Scenes -> Life]
    <3>1. life' = [s \in Scenes |-> life'[s]]
      BY <2>3
    <3> QED
      BY <2>10, <3>1
  <2>12. EntryTold'
    <3>1. ASSUME NEW i \in 1 .. Len(stack')
          PROVE  life'[stack'[i].scene] = stack'[i].state
      <4>1. /\ i \in 1 .. n - 1 /\ i \in 1 .. n /\ i # n
        BY <2>1, <2>7
      <4> QED
        BY <2>4, <2>7, <2>8, <4>1
    <3>2. ASSUME NEW s \in Scenes, life'[s] \in {"Active", "Paused"}
          PROVE  \E i \in 1 .. Len(stack') : stack'[i].scene = s
      <4>1. s # top.scene
        BY <2>5, <3>2
      <4>2. ~ \A i \in 1 .. n : stack[i].scene # s
        BY <2>8, <3>2, <4>1 DEF StackFits, EntryTold, n
      <4>3. PICK i \in 1 .. n - 1 : stack[i].scene = s
        BY <2>9, <4>1, <4>2
      <4> QED
        BY <2>7, <4>3
    <3> QED
      BY <3>1, <3>2 DEF EntryTold
  <2>13. OneEntryEach' /\ CoveredPaused'
    <3>1. \A i \in 1 .. n - 1 : i \in 1 .. n
      BY <2>1
    <3> QED
      BY <2>7, <3>1 DEF StackFits, OneEntryEach, CoveredPaused, n
  <2>14. ViewsFit'
    <3>1. /\ views \in Seq(Nat) /\ Len(views) = n /\ views # <<>>
          /\ \A i \in 1 .. n : views[i] = i
      BY <2>1, SeqFacts DEF ViewsFit, n
    <3>2. /\ views' \in Seq(Nat) /\ Len(views') = n - 1
          /\ \A i \in 1 .. n - 1 : views'[i] = i /\ i \in 1 .. n
      BY <2>3, <3>1, FrontFacts
    <3> QED
      BY <2>1, <2>3, <2>7, <3>2 DEF ViewsFit
  <2> QED
    BY <2>7, <2>10, <2>11, <2>12, <2>13, <2>14
       DEF OpKeeps, LeavesNew, StackFits, StackTyped, LifecycleKept
<1> QED
  BY <1>1, <1>2 DEF Pop

-----------------------------------------------------------------------------
(* The queues.                                                             *)

LEMMA RequestFacts ==
    ASSUME QueuesFit, NEW n, NEW op \in Requests(n)
    PROVE  /\ OpFits(op) /\ op \in Op
           /\ op.scene # NoScene =>
                 /\ \A i \in 1 .. Len(pendingNow) : pendingNow[i].scene # op.scene
                 /\ \A i \in 1 .. Len(pendingNext) : pendingNext[i].scene # op.scene
<1>1. /\ op \in Op /\ (op.type = "Pop" <=> op.scene = NoScene)
      /\ op.scene = NoScene \/ ~IsUsed(op.scene)
  BY DEF Requests
<1>2. /\ DOMAIN pendingNow = 1 .. Len(pendingNow) /\ DOMAIN pendingNext = 1 .. Len(pendingNext)
  BY SeqFacts DEF QueuesFit
<1>3. op.scene # NoScene =>
         /\ life[op.scene] = "new"
         /\ \A i \in 1 .. Len(pendingNow) : pendingNow[i].scene # op.scene
         /\ \A i \in 1 .. Len(pendingNext) : pendingNext[i].scene # op.scene
  BY <1>1, <1>2 DEF IsUsed, InQueue
<1> QED
  BY <1>1, <1>3 DEF OpFits, IsOp

LEMMA QueueGrows ==
    ASSUME NEW q \in Seq(Op), NEW r \in Seq(Op), NEW op \in Op, OnceIn(q), Apart(q, r),
           op.scene # NoScene => /\ \A i \in 1 .. Len(q) : q[i].scene # op.scene
                                 /\ \A i \in 1 .. Len(r) : r[i].scene # op.scene
    PROVE  OnceIn(Append(q, op)) /\ Apart(Append(q, op), r) /\ Apart(r, Append(q, op))
<1> DEFINE a == Append(q, op)
<1>1. /\ \A i \in 1 .. Len(q) : a[i] = q[i]
      /\ a[Len(q) + 1] = op
      /\ \A i \in 1 .. Len(a) : i \in 1 .. Len(q) \/ i = Len(q) + 1
  BY AppendFacts
<1> HIDE DEF a
<1>2. OnceIn(a)
  <2>1. ASSUME NEW i \in 1 .. Len(a), NEW j \in 1 .. Len(a), a[i].scene = a[j].scene,
               a[i].scene # NoScene
        PROVE  i = j
    BY <1>1, <2>1 DEF OnceIn
  <2> QED
    BY <2>1 DEF OnceIn
<1>3. ASSUME NEW i \in 1 .. Len(a), NEW j \in 1 .. Len(r), a[i].scene = r[j].scene
      PROVE  a[i].scene = NoScene
  BY <1>1, <1>3 DEF Apart
<1>4. Apart(a, r) /\ Apart(r, a)
  BY <1>3 DEF Apart
<1> QED
  BY <1>2, <1>4 DEF a

LEMMA Turned ==
    ASSUME NEW q, NEW r, Apart(q, r)
    PROVE  Apart(r, q)
  BY DEF Apart

\* Nothing changes but the life of scenes that do not wait.
LEMMA QueuesStay ==
    ASSUME QueuesFit, UNCHANGED <<pendingNow, pendingNext>>, \A s \in Scenes : life'[s] = life[s]
    PROVE  QueuesFit'
<1>1. pendingNow' = pendingNow /\ pendingNext' = pendingNext
  OBVIOUS
<1>2. \A op \in Op : op.scene = NoScene \/ op.scene \in Scenes
  BY DEF Op
<1>3. /\ pendingNow \in Seq(Op) /\ \A i \in 1 .. Len(pendingNow) : pendingNow[i] \in Op
      /\ pendingNext \in Seq(Op) /\ \A i \in 1 .. Len(pendingNext) : pendingNext[i] \in Op
  BY SeqFacts DEF QueuesFit
<1> QED
  BY <1>1, <1>2, <1>3 DEF QueuesFit, OpFits, IsOp, OnceIn, Apart

LEMMA EnqueueKeeps ==
    ASSUME SceneInv, EnqueueOp
    PROVE  SceneInv'
<1>1. UNCHANGED <<batch, called, phase, stackVars, blockScene, at>>
  BY DEF EnqueueOp
<1>2. StackFits' /\ ViewsFit' /\ \A s \in Scenes : life'[s] = life[s]
  BY <1>1, StackStays DEF SceneInv
<1>3. FrameFits'
  BY <1>1 DEF SceneInv, FrameFits, stackVars
<1>4. PICK n \in Numbers \cup {NoNumber} :
        \E op \in Requests(n) :
          /\ \/ pendingNow' = Append(pendingNow, op) /\ pendingNext' = pendingNext
             \/ pendingNext' = Append(pendingNext, op) /\ pendingNow' = pendingNow
          /\ owed' = owed \/ (n \in Numbers /\ owed' = owed \cup {n})
  BY DEF EnqueueOp
<1>5. PICK op \in Requests(n) :
          /\ \/ pendingNow' = Append(pendingNow, op) /\ pendingNext' = pendingNext
             \/ pendingNext' = Append(pendingNext, op) /\ pendingNow' = pendingNow
          /\ owed' = owed \/ (n \in Numbers /\ owed' = owed \cup {n})
  BY <1>4
<1>6. /\ OpFits(op) /\ op \in Op /\ OpFits(op)'
      /\ op.scene # NoScene =>
                 /\ \A i \in 1 .. Len(pendingNow) : pendingNow[i].scene # op.scene
                 /\ \A i \in 1 .. Len(pendingNext) : pendingNext[i].scene # op.scene
  <2>1. OpFits(op) /\ op \in Op /\ (op.scene = NoScene \/ op.scene \in Scenes)
    BY RequestFacts DEF SceneInv, Op
  <2> QED
    BY <1>2, <2>1, RequestFacts DEF SceneInv, OpFits, IsOp
<1>7. /\ pendingNow \in Seq(Op) /\ pendingNext \in Seq(Op)
      /\ OnceIn(pendingNow) /\ OnceIn(pendingNext)
      /\ Apart(pendingNow, pendingNext) /\ Apart(pendingNext, pendingNow)
  BY Turned DEF SceneInv, QueuesFit
<1>8. /\ \A i \in 1 .. Len(pendingNow) : OpFits(pendingNow[i]) /\ pendingNow[i] \in Op
      /\ \A i \in 1 .. Len(pendingNext) : OpFits(pendingNext[i]) /\ pendingNext[i] \in Op
      /\ \A o \in Op : o.scene = NoScene \/ o.scene \in Scenes
  BY <1>7, SeqFacts DEF SceneInv, QueuesFit, Op
<1>9. BatchFits'
  <2>1. Len(pendingNow) \in Nat /\ Len(Append(pendingNow, op)) = Len(pendingNow) + 1
    BY <1>6, <1>7, SeqFacts, AppendFacts
  <2>2. Len(pendingNow') \in Nat /\ Len(pendingNow) <= Len(pendingNow')
    BY <1>5, <2>1
  <2>3. owed' \subseteq Numbers
    BY <1>5 DEF SceneInv, BatchFits
  <2> QED
    BY <1>1, <2>1, <2>2, <2>3 DEF SceneInv, BatchFits
<1>10. CASE pendingNow' = Append(pendingNow, op) /\ pendingNext' = pendingNext
  <2>1. pendingNow' \in Seq(Op) /\ OnceIn(pendingNow') /\ Apart(pendingNow', pendingNext')
    BY <1>6, <1>7, <1>10, QueueGrows, AppendFacts
  <2>2. ASSUME NEW i \in 1 .. Len(pendingNow')
        PROVE  pendingNow'[i] = op \/ \E j \in 1 .. Len(pendingNow) : pendingNow'[i] = pendingNow[j]
    BY <1>6, <1>7, <1>10, AppendFacts
  <2>3. \A i \in 1 .. Len(pendingNow') : OpFits(pendingNow[i])'
    BY <1>2, <1>6, <1>8, <2>2 DEF OpFits, IsOp
  <2>4. \A i \in 1 .. Len(pendingNext') : OpFits(pendingNext[i])'
    BY <1>2, <1>8, <1>10 DEF OpFits, IsOp
  <2>5. QueuesFit'
    BY <1>7, <1>10, <2>1, <2>3, <2>4 DEF QueuesFit, OnceIn, Apart
  <2> QED
    BY <1>2, <1>3, <1>9, <2>5 DEF SceneInv
<1>11. CASE pendingNext' = Append(pendingNext, op) /\ pendingNow' = pendingNow
  <2>1. pendingNext' \in Seq(Op) /\ OnceIn(pendingNext') /\ Apart(pendingNow', pendingNext')
    BY <1>6, <1>7, <1>11, QueueGrows, AppendFacts
  <2>2. ASSUME NEW i \in 1 .. Len(pendingNext')
        PROVE  pendingNext'[i] = op \/ \E j \in 1 .. Len(pendingNext) : pendingNext'[i] = pendingNext[j]
    BY <1>6, <1>7, <1>11, AppendFacts
  <2>3. \A i \in 1 .. Len(pendingNext') : OpFits(pendingNext[i])'
    BY <1>2, <1>6, <1>8, <2>2 DEF OpFits, IsOp
  <2>4. \A i \in 1 .. Len(pendingNow') : OpFits(pendingNow[i])'
    BY <1>2, <1>8, <1>11 DEF OpFits, IsOp
  <2>5. QueuesFit'
    BY <1>7, <1>11, <2>1, <2>3, <2>4 DEF QueuesFit, OnceIn, Apart
  <2> QED
    BY <1>2, <1>3, <1>9, <2>5 DEF SceneInv
<1> QED
  BY <1>10, <1>11, <1>5

\* What waits for the next frame comes after what waits for this one.
LEMMA PromoteKeeps ==
    ASSUME SceneInv, PromoteNextPending
    PROVE  SceneInv'
<1>1. /\ UNCHANGED <<called, owed, stackVars, blockScene, at>>
      /\ phase = "game" /\ phase' = "apply" /\ batch' = Len(pendingNow')
      /\ pendingNow' = pendingNow \o pendingNext /\ pendingNext' = <<>>
  BY DEF PromoteNextPending
<1>2. StackFits' /\ ViewsFit' /\ \A s \in Scenes : life'[s] = life[s]
  BY <1>1, StackStays DEF SceneInv
<1>3. FrameFits'
  BY <1>1 DEF SceneInv, FrameFits, stackVars
<1>4. /\ pendingNow \in Seq(Op) /\ pendingNext \in Seq(Op)
      /\ \A i \in 1 .. Len(pendingNow) : OpFits(pendingNow[i]) /\ pendingNow[i] \in Op
      /\ \A i \in 1 .. Len(pendingNext) : OpFits(pendingNext[i]) /\ pendingNext[i] \in Op
      /\ \A o \in Op : o.scene = NoScene \/ o.scene \in Scenes
  BY SeqFacts DEF SceneInv, QueuesFit, Op
<1> DEFINE m == Len(pendingNow)
           n == Len(pendingNext)
<1>5. /\ pendingNow' \in Seq(Op) /\ Len(pendingNow') = m + n /\ m \in Nat /\ n \in Nat
      /\ \A i \in 1 .. m + n :
            \/ i \in 1 .. m /\ pendingNow'[i] = pendingNow[i]
            \/ i - m \in 1 .. n /\ pendingNow'[i] = pendingNext[i - m]
  BY <1>1, <1>4, ConcatFacts
<1> HIDE DEF m, n
<1>6. \A i \in 1 .. Len(pendingNow') : OpFits(pendingNow[i])'
  <2>1. ASSUME NEW i \in 1 .. Len(pendingNow')
        PROVE  \/ \E j \in 1 .. Len(pendingNow) : pendingNow'[i] = pendingNow[j]
               \/ \E j \in 1 .. Len(pendingNext) : pendingNow'[i] = pendingNext[j]
    BY <1>5 DEF m, n
  <2>2. ASSUME NEW i \in 1 .. Len(pendingNow')
        PROVE  OpFits(pendingNow[i])'
    <3>1. CASE \E j \in 1 .. Len(pendingNow) : pendingNow'[i] = pendingNow[j]
      BY <1>2, <1>4, <3>1 DEF OpFits, IsOp
    <3>2. CASE \E j \in 1 .. Len(pendingNext) : pendingNow'[i] = pendingNext[j]
      BY <1>2, <1>4, <3>2 DEF OpFits, IsOp
    <3> QED
      BY <2>1, <3>1, <3>2
  <2> QED
    BY <2>2
<1>7. OnceIn(pendingNow)'
  <2>1. ASSUME NEW i \in 1 .. m + n, NEW j \in 1 .. m + n,
               pendingNow'[i].scene = pendingNow'[j].scene, pendingNow'[i].scene # NoScene
        PROVE  i = j
    <3>1. CASE i \in 1 .. m /\ pendingNow'[i] = pendingNow[i] /\ j \in 1 .. m /\ pendingNow'[j] = pendingNow[j]
      BY <2>1, <3>1 DEF SceneInv, QueuesFit, OnceIn, m
    <3>2. CASE /\ i - m \in 1 .. n /\ pendingNow'[i] = pendingNext[i - m]
               /\ j - m \in 1 .. n /\ pendingNow'[j] = pendingNext[j - m]
      <4>1. i - m = j - m
        BY <2>1, <3>2 DEF SceneInv, QueuesFit, OnceIn, n
      <4> QED
        BY <1>5, <4>1
    <3>3. CASE i \in 1 .. m /\ pendingNow'[i] = pendingNow[i] /\ j - m \in 1 .. n /\ pendingNow'[j] = pendingNext[j - m]
      BY <2>1, <3>3 DEF SceneInv, QueuesFit, Apart, m, n
    <3>4. CASE j \in 1 .. m /\ pendingNow'[j] = pendingNow[j] /\ i - m \in 1 .. n /\ pendingNow'[i] = pendingNext[i - m]
      BY <2>1, <3>4 DEF SceneInv, QueuesFit, Apart, m, n
    <3> QED
      BY <1>5, <3>1, <3>2, <3>3, <3>4
  <2> QED
    BY <1>5, <2>1 DEF OnceIn
<1>8. /\ pendingNext' \in Seq(Op) /\ Len(pendingNext') = 0 /\ 1 .. Len(pendingNext') = {}
  <2>1. 1 .. 0 = {} /\ Len(<<>>) = 0
    OBVIOUS
  <2> QED
    BY <1>1, <2>1
<1>9. QueuesFit'
  BY <1>5, <1>6, <1>7, <1>8 DEF QueuesFit, OnceIn, Apart
<1>10. BatchFits'
  BY <1>1, <1>5 DEF SceneInv, BatchFits
<1> QED
  BY <1>2, <1>3, <1>9, <1>10 DEF SceneInv

\* A set of indices has a greatest one: the differences to the bound have a
\* least one, as the naturals are well founded.
LEMMA TopmostExists ==
    ASSUME NEW n \in Nat, NEW S \in SUBSET (1 .. n), S # {}
    PROVE  Topmost(S) \in S
<1> DEFINE T == {n - i : i \in S}
           R == OpToRel(<, Nat)
<1>0. \A i \in S : i \in Nat /\ n - i \in Nat
  OBVIOUS
<1>1. T \subseteq Nat /\ T # {} /\ \A t \in T : t \in Nat
  BY <1>0
<1>2. IsWellFoundedOn(R, Nat)
  BY NatLessThanWellFounded
<1>3. \A x, y \in Nat : y < x => <<y, x>> \in R
  BY DEF OpToRel
<1> HIDE DEF T, R
<1>4. PICK x \in T : \A y \in T : ~(<<y, x>> \in R)
  BY <1>1, <1>2, WFMin
<1>5. \A y \in T : x <= y
  <2>1. ASSUME NEW y \in T PROVE x <= y
    <3>1. x \in Nat /\ y \in Nat /\ ~(y < x)
      BY <1>1, <1>3, <1>4
    <3> QED
      BY <3>1
  <2> QED
    BY <2>1
<1>6. PICK i \in S : x = n - i
  BY DEF T
<1>7. \A j \in S : j <= i
  BY <1>0, <1>5, <1>6 DEF T
<1> QED
  BY <1>7 DEF Topmost

-----------------------------------------------------------------------------
(* The steps of the frame.                                                 *)

\* An operation is taken off its queue and applied; its scene waits nowhere
\* else, so whatever still waits is as new as before.
LEMMA ApplyKeeps ==
    ASSUME SceneInv, ApplyPending
    PROVE  SceneInv'
<1> DEFINE hd == Head(pendingNow)
<1>0. pendingNow # <<>>
  <2>1. batch \in 0 .. Len(pendingNow) /\ batch > 0
    BY DEF ApplyPending, SceneInv, BatchFits
  <2>2. Len(<<>>) = 0
    OBVIOUS
  <2> QED
    BY <2>1, <2>2
<1>1. /\ phase = "apply" /\ pendingNow # <<>> /\ phase' = phase
      /\ blockScene' = blockScene /\ at' = at /\ batch > 0 /\ batch' = batch - 1
      /\ pendingNow' = Tail(pendingNow) /\ pendingNext' = pendingNext
      /\ called' \in BOOLEAN /\ owed' \subseteq owed
      /\ \/ \E ok \in BOOLEAN : ReplaceRoot(hd, ok) \/ Push(hd, ok)
         \/ Pop(hd)
  BY <1>0 DEF ApplyPending, Remaining
<1>2. /\ pendingNow \in Seq(Op) /\ pendingNext \in Seq(Op)
      /\ \A i \in 1 .. Len(pendingNow) : OpFits(pendingNow[i]) /\ pendingNow[i] \in Op
      /\ \A i \in 1 .. Len(pendingNext) : OpFits(pendingNext[i]) /\ pendingNext[i] \in Op
      /\ \A o \in Op : o.scene = NoScene \/ o.scene \in Scenes
      /\ OnceIn(pendingNow) /\ OnceIn(pendingNext)
      /\ Apart(pendingNow, pendingNext) /\ Apart(pendingNext, pendingNow)
  BY SeqFacts, Turned DEF SceneInv, QueuesFit, Op
<1>3. /\ Tail(pendingNow) \in Seq(Op) /\ Len(Tail(pendingNow)) = Len(pendingNow) - 1
      /\ \A i \in 1 .. Len(Tail(pendingNow)) :
            Tail(pendingNow)[i] = pendingNow[i + 1] /\ i + 1 \in 1 .. Len(pendingNow)
      /\ hd = pendingNow[1] /\ 1 \in 1 .. Len(pendingNow) /\ Len(pendingNow) \in Nat
  BY <1>1, <1>2, TailFacts
<1>4. OpFits(hd)
  BY <1>2, <1>3
<1> HIDE DEF hd
<1>5. StackFits' /\ ViewsFit' /\ LeavesNew(hd)
  <2>1. CASE \E ok \in BOOLEAN : ReplaceRoot(hd, ok)
    BY <1>1, <1>4, <2>1, ReplaceRootKeeps DEF SceneInv, OpKeeps
  <2>2. CASE \E ok \in BOOLEAN : Push(hd, ok)
    BY <1>1, <1>4, <2>2, PushKeeps DEF SceneInv, OpKeeps
  <2>3. CASE Pop(hd)
    BY <1>1, <1>4, <2>3, PopKeeps DEF SceneInv, OpKeeps
  <2> QED
    BY <1>1, <2>1, <2>2, <2>3
<1>6. FrameFits'
  <2>1. Len(stack') \in Nat /\ at = 0
    BY <1>1, <1>5, SeqFacts DEF SceneInv, FrameFits, StackFits, StackTyped
  <2> QED
    BY <1>1, <2>1 DEF SceneInv, FrameFits
<1>7. pendingNow' = Tail(pendingNow)
  BY <1>1
<1>8. ASSUME NEW i \in 1 .. Len(pendingNow')
      PROVE  OpFits(pendingNow[i])'
  <2>1. pendingNow'[i] = pendingNow[i + 1] /\ i + 1 \in 1 .. Len(pendingNow) /\ i + 1 # 1
    BY <1>3, <1>7, <1>8
  <2>2. pendingNow[i + 1].scene # NoScene => pendingNow[i + 1].scene # hd.scene
    BY <1>2, <1>3, <2>1 DEF OnceIn
  <2> QED
    BY <1>2, <1>5, <2>1, <2>2 DEF OpFits, IsOp, LeavesNew
<1>9. ASSUME NEW i \in 1 .. Len(pendingNext)
      PROVE  /\ IsOp(pendingNext[i])
             /\ pendingNext[i].scene # NoScene => life'[pendingNext[i].scene] = "new"
  <2>1. pendingNext[i].scene # NoScene => pendingNext[i].scene # hd.scene
    BY <1>2, <1>3, <1>9 DEF Apart
  <2> QED
    BY <1>2, <1>5, <1>9, <2>1 DEF OpFits, LeavesNew
<1>10. OnceIn(pendingNow') /\ Apart(pendingNow', pendingNext) /\ pendingNow' \in Seq(Op)
  <2>1. \A i \in 1 .. Len(pendingNow') : /\ pendingNow'[i] = pendingNow[i + 1]
                                         /\ i + 1 \in 1 .. Len(pendingNow)
    BY <1>3, <1>7
  <2>2. OnceIn(pendingNow')
    <3>1. ASSUME NEW i \in 1 .. Len(pendingNow'), NEW j \in 1 .. Len(pendingNow'),
                 pendingNow'[i].scene = pendingNow'[j].scene, pendingNow'[i].scene # NoScene
          PROVE  i = j
      <4>1. i + 1 = j + 1
        BY <1>2, <2>1, <3>1 DEF OnceIn
      <4> QED
        BY <4>1
    <3> QED
      BY <3>1 DEF OnceIn
  <2>3. Apart(pendingNow', pendingNext)
    BY <1>2, <2>1 DEF Apart
  <2> QED
    BY <1>3, <1>7, <2>2, <2>3
<1>11. QueuesFit'
  <2>1. \A i \in 1 .. Len(pendingNext') : OpFits(pendingNext[i])'
    BY <1>1, <1>9 DEF OpFits, IsOp
  <2> QED
    BY <1>1, <1>2, <1>8, <1>10, <2>1 DEF QueuesFit, OnceIn, Apart
<1>12. BatchFits'
  <2>1. batch \in 0 .. Len(pendingNow) /\ Len(pendingNow') = Len(pendingNow) - 1
    BY <1>3, <1>7 DEF SceneInv, BatchFits
  <2>2. batch' \in 0 .. Len(pendingNow')
    BY <1>1, <1>3, <2>1
  <2> QED
    BY <1>1, <2>2 DEF SceneInv, BatchFits
<1> QED
  BY <1>5, <1>6, <1>11, <1>12 DEF SceneInv

\* A frame's step that leaves the stack and the queues alone.
LEMMA FrameStepKeeps ==
    ASSUME SceneInv, UNCHANGED stackVars, UNCHANGED queueVars, phase # "off",
           phase # "apply", FrameFits'
    PROVE  SceneInv'
<1>1. BatchFits'
  BY DEF SceneInv, BatchFits, queueVars
<1> QED
  BY <1>1, StackStays, QueuesStay DEF SceneInv, queueVars

LEMMA AppliedKeeps ==
    ASSUME SceneInv, Applied
    PROVE  SceneInv'
<1>1. /\ UNCHANGED <<stackVars, pendingNext, batch, owed>> /\ phase = "apply" /\ phase' = "update"
      /\ batch = 0 /\ pendingNow' = <<>> /\ called' = FALSE
      /\ blockScene' = BlockInput /\ at' = Len(stack) /\ stack' = stack
  BY DEF Applied, stackVars
<1>2. /\ Len(stack) \in Nat /\ DOMAIN stack = 1 .. Len(stack)
      /\ \A i \in 1 .. Len(stack) : stack[i].scene \in Scenes
  BY OnTheStack DEF SceneInv
<1>3. \/ blockScene' = NoScene
      \/ \E i \in 1 .. Len(stack) : stack[i].scene = blockScene'
  <2>1. CASE InputBlockers = {}
    BY <1>1, <2>1 DEF BlockInput
  <2>2. CASE InputBlockers # {}
    <3>1. InputBlockers \in SUBSET (1 .. Len(stack))
      BY <1>2 DEF InputBlockers
    <3>2. Topmost(InputBlockers) \in 1 .. Len(stack)
      BY <1>2, <2>2, <3>1, TopmostExists
    <3> QED
      BY <1>1, <2>2, <3>2 DEF BlockInput
  <2> QED
    BY <2>1, <2>2
<1>4. FrameFits'
  BY <1>1, <1>2, <1>3 DEF FrameFits
<1>5. StackFits' /\ ViewsFit' /\ \A s \in Scenes : life'[s] = life[s]
  BY <1>1, StackStays DEF SceneInv
<1>6. QueuesFit'
  <2>1. 1 .. Len(<<>>) = {}
    OBVIOUS
  <2>2. /\ pendingNext \in Seq(Op) /\ OnceIn(pendingNext)
        /\ \A i \in 1 .. Len(pendingNext) : OpFits(pendingNext[i]) /\ pendingNext[i] \in Op
        /\ \A o \in Op : o.scene = NoScene \/ o.scene \in Scenes
    BY SeqFacts DEF SceneInv, QueuesFit, Op
  <2>3. \A i \in 1 .. Len(pendingNext') : OpFits(pendingNext[i])'
    BY <1>1, <1>5, <2>2 DEF OpFits, IsOp
  <2> QED
    BY <1>1, <2>1, <2>2, <2>3 DEF QueuesFit, OnceIn, Apart
<1>7. BatchFits'
  <2>1. 0 \in 0 .. Len(<<>>)
    OBVIOUS
  <2> QED
    BY <1>1, <2>1 DEF SceneInv, BatchFits
<1> QED
  BY <1>4, <1>5, <1>6, <1>7 DEF SceneInv

LEMMA UpdateKeeps ==
    ASSUME SceneInv, UpdateScene \/ UpdateEnds
    PROVE  SceneInv'
<1>1. /\ UNCHANGED stackVars /\ UNCHANGED queueVars /\ phase = "update"
      /\ blockScene' = blockScene /\ stack' = stack
  BY DEF UpdateScene, UpdateEnds, stackVars
<1>2. Len(stack) \in Nat /\ at \in 0 .. Len(stack)
  BY OnTheStack DEF SceneInv, FrameFits
<1>3. CASE UpdateScene
  <2>1. at > 0 /\ at' = (IF GoesBelow(stack[at]) THEN at - 1 ELSE 0) /\ phase' = "update"
    BY <1>1, <1>3 DEF UpdateScene
  <2>2. at' \in 0 .. Len(stack)
    BY <1>2, <2>1
  <2>3. ASSUME at' > 0, NEW i \in 1 .. Len(stack), i > at'
        PROVE  ~stack[i].policy.blockUpdateBelow
    <3>1. at' = at - 1 /\ GoesBelow(stack[at])
      BY <2>1, <2>3
    <3>2. i = at \/ i > at
      BY <1>2, <2>3, <3>1
    <3>3. \A j \in 1 .. Len(stack) : j > at => ~stack[j].policy.blockUpdateBelow
      BY <2>1 DEF SceneInv, FrameFits
    <3> QED
      BY <3>1, <3>2, <3>3 DEF GoesBelow
  <2>4. FrameFits'
    BY <1>1, <2>1, <2>2, <2>3 DEF SceneInv, FrameFits
  <2> QED
    BY <1>1, <2>4, FrameStepKeeps
<1>4. CASE UpdateEnds
  <2>1. FrameFits'
    BY <1>1, <1>4 DEF SceneInv, FrameFits, UpdateEnds
  <2> QED
    BY <1>1, <2>1, FrameStepKeeps
<1> QED
  BY <1>3, <1>4

LEMMA FrameEndsKeeps ==
    ASSUME SceneInv, FrameEnds
    PROVE  SceneInv'
<1>1. /\ UNCHANGED stackVars /\ UNCHANGED queueVars /\ phase = "render"
      /\ phase' = "game" /\ blockScene' = blockScene /\ stack' = stack /\ at' = at
  BY DEF FrameEnds, stackVars
<1>2. FrameFits'
  BY <1>1 DEF SceneInv, FrameFits
<1> QED
  BY <1>1, <1>2, FrameStepKeeps

LEMMA SelectKeeps ==
    ASSUME SceneInv, SelectView
    PROVE  SceneInv'
<1>1. /\ UNCHANGED <<phase, stack, views, life, queueVars, blockScene, at>> /\ phase = "render"
  BY DEF SelectView
<1>2. PICK v \in DOMAIN views : selected' = v
  BY DEF SelectView
<1>3. DOMAIN views = 1 .. Len(views) /\ Len(views) \in Nat
  BY SeqFacts DEF SceneInv, ViewsFit
<1>4. ViewsFit'
  BY <1>1, <1>2, <1>3 DEF SceneInv, ViewsFit
<1>5. StackFits'
  BY <1>1 DEF SceneInv, StackFits, StackTyped, LifecycleKept, EntryTold, OneEntryEach, CoveredPaused
<1>6. QueuesFit'
  BY <1>1, QueuesStay DEF SceneInv, queueVars
<1>8. BatchFits'
  BY <1>1 DEF SceneInv, BatchFits, queueVars
<1>7. FrameFits'
  BY <1>1 DEF SceneInv, FrameFits
<1> QED
  BY <1>4, <1>5, <1>6, <1>7, <1>8 DEF SceneInv

LEMMA ShutdownKeeps ==
    ASSUME SceneInv, ShutdownStack
    PROVE  SceneInv'
<1>1. /\ phase = "game" /\ phase' = "off" /\ pendingNow' = <<>> /\ pendingNext' = <<>>
      /\ stack' = <<>> /\ life' = RemovedAll /\ views' = views /\ selected' = selected
      /\ blockScene' = blockScene /\ at' = at
      /\ batch' = batch /\ called' = called /\ owed' = owed
  BY DEF ShutdownStack
<1>2. 1 .. 0 = {} /\ Len(<<>>) = 0 /\ 0 \in 0 .. 0
  OBVIOUS
<1>3. \A s \in Scenes : RemovedAll[s] \notin {"Active", "Paused", "broken"}
  BY TakenDownFacts DEF SceneInv, StackFits, EntryTold, LifecycleKept
<1>4. StackFits'
  BY <1>1, <1>2, <1>3, TakenDownFacts
     DEF SceneInv, StackFits, StackTyped, LifecycleKept, EntryTold, OneEntryEach, CoveredPaused
<1>5. ViewsFit'
  BY <1>1 DEF SceneInv, ViewsFit
<1>6. QueuesFit'
  BY <1>1, <1>2 DEF QueuesFit, OnceIn, Apart
<1>7. FrameFits'
  BY <1>1, <1>2 DEF SceneInv, FrameFits
<1>8. BatchFits'
  BY <1>1, <1>2 DEF SceneInv, BatchFits
<1> QED
  BY <1>4, <1>5, <1>6, <1>7, <1>8 DEF SceneInv

LEMMA InitInv == Init => SceneInv
<1> SUFFICES ASSUME Init PROVE SceneInv
  OBVIOUS
<1>1. 1 .. 0 = {} /\ Len(<<>>) = 0 /\ 0 \in 0 .. 0
  OBVIOUS
<1>2. \A s \in Scenes : life[s] = "new"
  BY DEF Init
<1>3. StackFits
  BY <1>1, <1>2
     DEF Init, StackFits, StackTyped, LifecycleKept, EntryTold, OneEntryEach, CoveredPaused, Life
<1>4. ViewsFit /\ FrameFits
  BY <1>1 DEF Init, ViewsFit, FrameFits
<1>5. QueuesFit
  BY <1>1 DEF Init, QueuesFit, OnceIn, Apart
<1>6. BatchFits
  BY <1>1 DEF Init, BatchFits
<1> QED
  BY <1>3, <1>4, <1>5, <1>6 DEF SceneInv

LEMMA StepInv == SceneInv /\ [Next]_vars => SceneInv'
<1> SUFFICES ASSUME SceneInv, [Next]_vars PROVE SceneInv'
  OBVIOUS
<1>1. CASE EnqueueOp
  BY <1>1, EnqueueKeeps
<1>2. CASE PromoteNextPending
  BY <1>2, PromoteKeeps
<1>3. CASE ApplyPending
  BY <1>3, ApplyKeeps
<1>4. CASE Applied
  BY <1>4, AppliedKeeps
<1>5. CASE UpdateScene \/ UpdateEnds
  BY <1>5, UpdateKeeps
<1>6. CASE FrameEnds
  BY <1>6, FrameEndsKeeps
<1>7. CASE SelectView
  BY <1>7, SelectKeeps
<1>8. CASE ShutdownStack
  BY <1>8, ShutdownKeeps
<1>9. CASE UNCHANGED vars
  <2>1. /\ UNCHANGED stackVars /\ UNCHANGED queueVars /\ phase' = phase
        /\ blockScene' = blockScene /\ stack' = stack /\ at' = at
    BY <1>9 DEF vars, stackVars
  <2>2. FrameFits'
    BY <2>1 DEF SceneInv, FrameFits
  <2>3. BatchFits'
    BY <2>1 DEF SceneInv, BatchFits, queueVars
  <2> QED
    BY <2>1, <2>2, <2>3, StackStays, QueuesStay DEF SceneInv, queueVars
<1> QED
  BY <1>1, <1>2, <1>3, <1>4, <1>5, <1>6, <1>7, <1>8, <1>9 DEF Next, Frame

-----------------------------------------------------------------------------
(* The theorems.                                                           *)

\* The invariant behind the theorems below: the stack, what its scenes were
\* told, its views, its queues and the frame fit each other in every state of
\* YunoSceneManager (YunoSceneManager.cpp:215-388).
THEOREM SceneInvAlways == Spec => []SceneInv
  BY InitInv, StepInv, PTL DEF Spec

\* No scene is ever told anything out of turn (IScene.h:31-37,
\* YunoSceneManager.cpp:165-182, :245-353).
THEOREM LifecycleAlwaysKept == Spec => []LifecycleKept
<1>1. SceneInv => LifecycleKept
  BY DEF SceneInv, StackFits
<1> QED
  BY <1>1, SceneInvAlways, PTL

LEMMA SoundWhenFits == SceneInv => StackIsSound
<1> SUFFICES ASSUME SceneInv PROVE StackIsSound
  OBVIOUS
<1>1. /\ DOMAIN stack = 1 .. Len(stack) /\ Len(stack) \in Nat /\ DOMAIN views = 1 .. Len(views)
      /\ \A i \in 1 .. Len(stack) : stack[i].scene \in Scenes
  BY OnTheStack, SeqFacts DEF SceneInv, ViewsFit
<1>2. TypeOK
  BY DEF SceneInv, StackFits, StackTyped, ViewsFit, QueuesFit, BatchFits, FrameFits, TypeOK
<1>3. LifeMatchesState
  BY <1>1 DEF SceneInv, StackFits, EntryTold, LifeMatchesState, OnStack
<1>4. OneActiveOnTop /\ ViewsMatchStack
  BY <1>1 DEF SceneInv, StackFits, CoveredPaused, ViewsFit, OneActiveOnTop, ViewsMatchStack
<1>5. BlockerIsAlive
  BY <1>1 DEF SceneInv, FrameFits, BlockerIsAlive, OnStack
<1>6. CoveredIsNotUpdated
  BY <1>1 DEF SceneInv, FrameFits, CoveredIsNotUpdated
<1> QED
  BY <1>2, <1>3, <1>4, <1>5, <1>6 DEF StackIsSound

\* The stack, its entries' states, the views and the pointer to the scene that
\* blocks input stay in step, and a covered scene neither runs nor is active,
\* for any number of scenes and requests (YunoSceneManager.cpp:245-388).
THEOREM StackAlwaysSound == Spec => []StackIsSound
  BY SoundWhenFits, SceneInvAlways, PTL
-----------------------------------------------------------------------------
(* The tree of units.                                                      *)

\* Those of the units P with an id in common are in Z.
Met(P, Z) == \A u \in P : \A w \in P : Id[u] = Id[w] /\ u # w => u \in Z

\* Pointers and lists of children agree and lead to the objects S alone, but
\* for the units Z; only the units P hang on something.
Linked(t, S, P, Z) ==
    /\ \A p \in Objects : \A u \in t.childs[p] : t.parent[u] = p /\ p \in S
    /\ \A p \in Objects : \A u, w \in t.childs[p] : Id[u] = Id[w] => u = w
    /\ \A u \in Units :
           /\ t.parent[u] \in Objects \cup {NoUnit}
           /\ t.parent[u] # NoUnit =>
                 u \in P /\ (u \in Z \/ (t.parent[u] \in S /\ u \in t.childs[t.parent[u]]))

\* BonesAgree, of any tree.
BonesFit(t, Z) ==
    \A p \in Animated :
        /\ \A c \in Units, b \in Bones : <<c, b>> \in t.idx[p] <=> c \in t.bones[p][b]
        /\ \A x \in t.idx[p] : x[1] \in t.childs[p] \cup Z
        /\ \A x, y \in t.idx[p] : x[1] = y[1] => x = y

TreeFits(t, S, P, Z) == t \in Tree /\ Linked(t, S, P, Z) /\ BonesFit(t, Z)

\* There may be more objects, units in play and stale ones ...
LEMMA MoreFits ==
    ASSUME NEW t, NEW S, NEW P, NEW Z, TreeFits(t, S, P, Z),
           NEW S2, NEW P2, NEW Z2, S \subseteq S2, P \subseteq P2, Z \subseteq Z2
    PROVE  TreeFits(t, S2, P2, Z2)
<1>1. Linked(t, S2, P2, Z2)
  BY DEF TreeFits, Linked
<1>2. BonesFit(t, Z2)
  BY DEF TreeFits, BonesFit
<1> QED
  BY <1>1, <1>2 DEF TreeFits

\* ... and fewer units in play, if those who left hang on nothing.
LEMMA FewerFit ==
    ASSUME NEW t, NEW S, NEW P, NEW Z, TreeFits(t, S, P, Z),
           NEW Q, \A u \in P : u \notin Q => t.parent[u] = NoUnit
    PROVE  TreeFits(t, S, Q, Z)
  BY DEF TreeFits, Linked

\* A record with the four parts of a tree.
Whole(d) == d = [parent |-> d.parent, childs |-> d.childs, idx |-> d.idx, bones |-> d.bones]

LEMMA IsTree ==
    ASSUME NEW d, Whole(d),
           d.parent \in [Units -> Units \cup {NoUnit}], d.childs \in [Objects -> SUBSET Units],
           d.idx \in [Animated -> SUBSET (Units \X Bones)],
           d.bones \in [Animated -> [Bones -> SUBSET Units]]
    PROVE  d \in Tree
  BY DEF Whole, Tree

\* The tree d with the pointer of c cleared.
Loose(d, c) == [d EXCEPT !.parent[c] = NoUnit]

\* Nothing else changes.
LetsGo(d, c, r) ==
    /\ r.parent = [d.parent EXCEPT ![c] = NoUnit]
    /\ r.childs = d.childs /\ r.idx = d.idx /\ r.bones = d.bones
    /\ r \in Tree

LEMMA LooseLetsGo ==
    ASSUME NEW d \in Tree, NEW c \in Units
    PROVE  LetsGo(d, c, Loose(d, c))
<1> DEFINE R == [d.parent EXCEPT ![c] = NoUnit]
           r == Loose(d, c)
<1>1. /\ d = [parent |-> d.parent, childs |-> d.childs, idx |-> d.idx, bones |-> d.bones]
      /\ d.parent \in [Units -> Units \cup {NoUnit}] /\ d.childs \in [Objects -> SUBSET Units]
      /\ d.idx \in [Animated -> SUBSET (Units \X Bones)]
      /\ d.bones \in [Animated -> [Bones -> SUBSET Units]]
  BY DEF Tree
<1>2. R \in [Units -> Units \cup {NoUnit}]
  BY <1>1
<1>3. r = [parent |-> R, childs |-> d.childs, idx |-> d.idx, bones |-> d.bones]
  BY DEF Loose, Tree
<1> HIDE DEF r
<1>4. r.parent = R /\ r.childs = d.childs /\ r.idx = d.idx /\ r.bones = d.bones
  BY <1>3
<1> HIDE DEF R
<1>5. r \in Tree
  <2>1. Whole(r)
    BY <1>3, <1>4 DEF Whole
  <2> QED
    BY <1>1, <1>2, <1>4, <2>1, IsTree
<1>6. LetsGo(d, c, r)
  BY <1>4, <1>5 DEF R, LetsGo
<1> QED
  BY <1>6 DEF r

\* What DettachChild and DettachParent make of each part of the tree.
LEMMA DettachParts ==
    ASSUME NEW t \in Tree, NEW Z, BonesFit(t, Z), NEW c \in Units,
           NEW p \in Objects, p = t.parent[c], NEW U, U = Under(t, p, Id[c]),
           NEW r, r = DettachParent(t, c)
    PROVE  /\ r \in Tree
           /\ r.parent = [u \in Units |-> IF u = c \/ (p \notin Animated /\ u \in U) THEN NoUnit
                                          ELSE t.parent[u]]
           /\ r.childs = [t.childs EXCEPT ![p] = @ \ U]
           /\ p \notin Animated => r.idx = t.idx /\ r.bones = t.bones
           /\ p \in Animated =>
                 /\ r.idx = [t.idx EXCEPT ![p] = {x \in @ : x[1] \notin U}]
                 /\ r.bones = [t.bones EXCEPT ![p] = [b \in Bones |-> @[b] \ U]]
<1> DEFINE d == DettachChild(t, p, Id[c])
<1>1. p # NoUnit
  BY UnitsAssumption DEF Units
<1>2. r = Loose(d, c)
  BY <1>1 DEF DettachParent, Loose
<1>3. CASE p \notin Animated
  <2>1. d = [[t EXCEPT !.parent = [u \in Units |-> IF u \in U THEN NoUnit ELSE t.parent[u]]]
                EXCEPT !.childs[p] = t.childs[p] \ U]
    BY <1>3 DEF DettachChild, Tree
  <2>2. d.parent = [u \in Units |-> IF u \in U THEN NoUnit ELSE t.parent[u]]
        /\ d.childs = [t.childs EXCEPT ![p] = @ \ U] /\ d.idx = t.idx /\ d.bones = t.bones
    BY <2>1 DEF Tree
  <2>3. d \in Tree
    <3>1. Whole(d)
      BY <2>1 DEF Tree, Whole
    <3>2. /\ d.parent \in [Units -> Units \cup {NoUnit}] /\ d.childs \in [Objects -> SUBSET Units]
          /\ d.idx \in [Animated -> SUBSET (Units \X Bones)]
          /\ d.bones \in [Animated -> [Bones -> SUBSET Units]]
      BY <2>2 DEF Tree
    <3> HIDE DEF d
    <3> QED
      BY <3>1, <3>2, IsTree
  <2> HIDE DEF d
  <2>4. r.parent = [d.parent EXCEPT ![c] = NoUnit]
        /\ r.childs = d.childs /\ r.idx = d.idx /\ r.bones = d.bones /\ r \in Tree
    <3>1. LetsGo(d, c, Loose(d, c))
      BY <2>3, LooseLetsGo
    <3> QED
      BY <1>2, <3>1 DEF LetsGo
  <2>5. r.parent = [u \in Units |-> IF u = c \/ (p \notin Animated /\ u \in U) THEN NoUnit
                                    ELSE t.parent[u]]
    BY <1>3, <2>2, <2>4
  <2> QED
    BY <1>3, <2>2, <2>4, <2>5
<1>4. CASE p \in Animated
  <2> DEFINE B == [b \in Bones |-> {a \in t.bones[p][b] : <<a, b>> \notin t.idx[p] \/ a \notin U}]
             C == [b \in Bones |-> t.bones[p][b] \ U]
  <2>1. B = C
    <3>1. \A b \in Bones : t.bones[p][b] \subseteq Units
      BY <1>4 DEF Tree
    <3>2. \A b \in Bones, a \in Units : <<a, b>> \in t.idx[p] <=> a \in t.bones[p][b]
      BY <1>4 DEF BonesFit
    <3>3. \A b \in Bones : {a \in t.bones[p][b] : <<a, b>> \notin t.idx[p] \/ a \notin U}
                           = t.bones[p][b] \ U
      BY <3>1, <3>2
    <3> QED
      BY <3>3
  <2>2. d = [[t EXCEPT !.idx[p] = {x \in t.idx[p] : x[1] \notin U}, !.bones[p] = B]
                EXCEPT !.childs[p] = t.childs[p] \ U]
    BY <1>4 DEF DettachChild, OffBone, Tree
  <2>3. C \in [Bones -> SUBSET Units]
    BY <1>4 DEF Tree
  <2> HIDE DEF B, C
  <2>4. /\ d.parent = t.parent /\ d.childs = [t.childs EXCEPT ![p] = @ \ U]
        /\ d.idx = [t.idx EXCEPT ![p] = {x \in @ : x[1] \notin U}]
        /\ d.bones = [t.bones EXCEPT ![p] = C]
    BY <2>1, <2>2 DEF Tree
  <2>5. d \in Tree
    <3>1. Whole(d)
      BY <2>2 DEF Tree, Whole
    <3>2. /\ t.parent \in [Units -> Units \cup {NoUnit}] /\ t.childs \in [Objects -> SUBSET Units]
          /\ t.idx \in [Animated -> SUBSET (Units \X Bones)]
          /\ t.bones \in [Animated -> [Bones -> SUBSET Units]]
      BY DEF Tree
    <3> HIDE DEF d
    <3>3. d.parent \in [Units -> Units \cup {NoUnit}] /\ d.childs \in [Objects -> SUBSET Units]
      BY <2>4, <3>2
    <3>4. d.idx \in [Animated -> SUBSET (Units \X Bones)]
      <4> DEFINE I == {x \in t.idx[p] : x[1] \notin U}
                 On == SUBSET (Units \X Bones)
      <4>1. t.idx \in [Animated -> On] /\ d.idx = [t.idx EXCEPT ![p] = I]
        BY <2>4, <3>2
      <4>2. I \in On
        BY <1>4, <3>2
      <4> HIDE DEF I, On
      <4>3. d.idx \in [Animated -> On]
        BY <4>1, <4>2
      <4> QED
        BY <4>3 DEF On
    <3>5. d.bones \in [Animated -> [Bones -> SUBSET Units]]
      <4> DEFINE On == [Bones -> SUBSET Units]
      <4>1. t.bones \in [Animated -> On] /\ C \in On
        BY <2>3, <3>2
      <4> HIDE DEF On
      <4>2. d.bones \in [Animated -> On]
        BY <2>4, <4>1
      <4> QED
        BY <4>2 DEF On
    <3> QED
      BY <3>1, <3>3, <3>4, <3>5, IsTree
  <2> HIDE DEF d
  <2>6. r.parent = [d.parent EXCEPT ![c] = NoUnit]
        /\ r.childs = d.childs /\ r.idx = d.idx /\ r.bones = d.bones /\ r \in Tree
    <3>1. LetsGo(d, c, Loose(d, c))
      BY <2>5, LooseLetsGo
    <3> QED
      BY <1>2, <3>1 DEF LetsGo
  <2>7. r.idx = [t.idx EXCEPT ![p] = {x \in @ : x[1] \notin U}]
    BY <2>4, <2>6
  <2>8. r.bones = [t.bones EXCEPT ![p] = [b \in Bones |-> @[b] \ U]]
    BY <2>4, <2>6 DEF C
  <2>9. r.parent = [u \in Units |-> IF u = c \/ (p \notin Animated /\ u \in U) THEN NoUnit
                                    ELSE t.parent[u]]
    BY <1>4, <2>4, <2>6 DEF Tree
  <2> QED
    BY <1>4, <2>4, <2>6, <2>7, <2>8, <2>9
<1> QED
  BY <1>3, <1>4

\* After DettachParent c hangs on nothing.  Whoever else lost its place has an
\* id in common with it.
LEMMA DettachKeeps ==
    ASSUME NEW S \in SUBSET Objects, NEW P, NEW Z, NEW t, TreeFits(t, S, P, Z), Met(P, Z),
           NEW c \in Units, c \in P, NEW r, r = DettachParent(t, c)
    PROVE  TreeFits(r, S, P, Z) /\ r.parent[c] = NoUnit
<1>1. t \in Tree /\ Linked(t, S, P, Z) /\ BonesFit(t, Z) /\ NoUnit \notin Objects
  BY UnitsAssumption DEF TreeFits, Units
<1>2. CASE t.parent[c] = NoUnit
  BY <1>2 DEF DettachParent
<1>3. ASSUME NEW p \in Objects, p = t.parent[c]
      PROVE  TreeFits(r, S, P, Z) /\ r.parent[c] = NoUnit
  <2> DEFINE U == Under(t, p, Id[c])
  <2>1. U = Under(t, p, Id[c])
    OBVIOUS
  <2>2. /\ U \subseteq t.childs[p] /\ U \subseteq Units
        /\ \A u \in t.childs[p] : u \in U <=> Id[u] = Id[c]
    BY <1>1 DEF Under, Tree
  <2> HIDE DEF U
  <2>3. \A u \in U : t.parent[u] = p /\ u \in P /\ (u # c => u \in Z)
    <3> SUFFICES ASSUME NEW u \in U PROVE t.parent[u] = p /\ u \in P /\ (u # c => u \in Z)
      OBVIOUS
    <3>1. t.parent[u] = p /\ u \in Units /\ Id[u] = Id[c]
      BY <1>1, <2>2 DEF Linked
    <3>2. u \in P
      BY <1>1, <3>1 DEF Linked
    <3> QED
      BY <3>1, <3>2 DEF Met
  <2>4. /\ r \in Tree
        /\ r.parent = [u \in Units |-> IF u = c \/ (p \notin Animated /\ u \in U) THEN NoUnit
                                       ELSE t.parent[u]]
        /\ r.childs = [t.childs EXCEPT ![p] = @ \ U]
        /\ p \notin Animated => r.idx = t.idx /\ r.bones = t.bones
        /\ p \in Animated =>
              /\ r.idx = [t.idx EXCEPT ![p] = {x \in @ : x[1] \notin U}]
              /\ r.bones = [t.bones EXCEPT ![p] = [b \in Bones |-> @[b] \ U]]
    BY <1>1, <1>3, <2>1, DettachParts
  <2>5. /\ r.parent[c] = NoUnit
        /\ \A u \in Units : u # c /\ u \notin U => r.parent[u] = t.parent[u]
        /\ \A u \in Units : r.parent[u] # NoUnit => u # c /\ r.parent[u] = t.parent[u]
    BY <2>4
  <2>6. /\ r.childs[p] = t.childs[p] \ U
        /\ \A q \in Objects : q # p => r.childs[q] = t.childs[q]
        /\ \A q \in Objects : r.childs[q] \subseteq t.childs[q] /\ t.childs[q] \subseteq Units
    BY <1>1, <2>4 DEF Tree
  <2>7. ASSUME NEW q \in Objects, NEW u \in r.childs[q] PROVE r.parent[u] = q /\ q \in S
    <3>1. u \in Units /\ t.parent[u] = q /\ q \in S
      BY <1>1, <2>6 DEF Linked
    <3>2. u # c
      <4>1. CASE q = p
        BY <2>2, <2>6, <2>7, <4>1
      <4>2. CASE q # p
        BY <1>3, <3>1, <4>2
      <4> QED
        BY <4>1, <4>2
    <3>3. u \notin U
      BY <2>3, <2>6, <2>7, <3>1
    <3> QED
      BY <2>5, <3>1, <3>2, <3>3
  <2>8. ASSUME NEW u \in Units, r.parent[u] # NoUnit
        PROVE  u \in P /\ (u \in Z \/ (r.parent[u] \in S /\ u \in r.childs[r.parent[u]]))
    <3>1. u # c /\ r.parent[u] = t.parent[u] /\ t.parent[u] # NoUnit
      BY <2>5, <2>8
    <3>2. u \in P /\ t.parent[u] \in Objects
          /\ (u \in Z \/ (t.parent[u] \in S /\ u \in t.childs[t.parent[u]]))
      BY <1>1, <3>1 DEF Linked
    <3>3. CASE u \in U
      BY <2>3, <3>1, <3>2, <3>3
    <3>4. CASE u \notin U
      <4>1. u \in t.childs[t.parent[u]] => u \in r.childs[t.parent[u]]
        BY <2>6, <3>2, <3>4
      <4> QED
        BY <3>1, <3>2, <4>1
    <3> QED
      BY <3>3, <3>4
  <2>9. Linked(r, S, P, Z)
    <3>1. \A q \in Objects : \A u, w \in r.childs[q] : Id[u] = Id[w] => u = w
      BY <1>1, <2>6 DEF Linked
    <3>2. \A u \in Units : r.parent[u] \in Objects \cup {NoUnit}
      BY <1>1, <2>5 DEF Linked
    <3> QED
      BY <2>7, <2>8, <3>1, <3>2 DEF Linked
  <2>10. BonesFit(r, Z)
    <3> SUFFICES ASSUME NEW q \in Animated
                 PROVE  /\ \A u \in Units, b \in Bones : <<u, b>> \in r.idx[q] <=> u \in r.bones[q][b]
                        /\ \A x \in r.idx[q] : x[1] \in r.childs[q] \cup Z
                        /\ \A x, y \in r.idx[q] : x[1] = y[1] => x = y
      BY DEF BonesFit
    <3>1. q \in Objects
      BY UnitsAssumption
    <3>2. /\ \A u \in Units, b \in Bones : <<u, b>> \in t.idx[q] <=> u \in t.bones[q][b]
          /\ \A x \in t.idx[q] : x[1] \in t.childs[q] \cup Z
          /\ \A x, y \in t.idx[q] : x[1] = y[1] => x = y
      BY <1>1 DEF BonesFit
    <3>3. CASE q = p
      <4>1. r.idx[q] = {x \in t.idx[q] : x[1] \notin U}
        BY <1>1, <2>4, <3>3 DEF Tree
      <4>2. \A b \in Bones : r.bones[q][b] = t.bones[q][b] \ U
        BY <1>1, <2>4, <3>3 DEF Tree
      <4>3. ASSUME NEW u \in Units, NEW b \in Bones
            PROVE  <<u, b>> \in r.idx[q] <=> u \in r.bones[q][b]
        <5>1. <<u, b>> \in r.idx[q] <=> <<u, b>> \in t.idx[q] /\ u \notin U
          BY <4>1
        <5>2. u \in r.bones[q][b] <=> u \in t.bones[q][b] /\ u \notin U
          BY <4>2
        <5> QED
          BY <3>2, <5>1, <5>2
      <4> QED
        BY <2>6, <3>2, <3>3, <4>1, <4>3
    <3>4. CASE q # p
      <4>1. r.idx[q] = t.idx[q] /\ r.bones[q] = t.bones[q]
        BY <1>1, <2>4, <3>4 DEF Tree
      <4> QED
        BY <2>6, <3>1, <3>2, <3>4, <4>1
    <3> QED
      BY <3>3, <3>4
  <2> QED
    BY <2>4, <2>5, <2>9, <2>10 DEF TreeFits
<1>4. t.parent[c] \in Objects \cup {NoUnit}
  BY <1>1 DEF Linked
<1> QED
  BY <1>2, <1>3, <1>4

\* After Attach c hangs on p, which knows it unless another of p's children has
\* its id.
LEMMA AttachKeeps ==
    ASSUME NEW S \in SUBSET Objects, NEW P, NEW Z, NEW t, TreeFits(t, S, P, Z), Met(P, Z),
           NEW c \in Units, c \in P, NEW p \in S, NEW r, r = Attach(t, p, c)
    PROVE  TreeFits(r, S, P, Z) /\ r.parent[c] = p /\ c \in r.childs[p] \cup Z
<1> DEFINE d == DettachParent(t, c)
           N == IF Under(d, p, Id[c]) = {} THEN d.childs[p] \cup {c} ELSE d.childs[p]
<1>1. TreeFits(d, S, P, Z) /\ d.parent[c] = NoUnit
  BY DettachKeeps
<1>2. r = [d EXCEPT !.parent[c] = p, !.childs[p] = N] /\ p \in Objects
  BY <1>1 DEF Attach, TreeFits, Tree
<1> HIDE DEF d
<1>3. d \in Tree /\ Linked(d, S, P, Z) /\ BonesFit(d, Z) /\ NoUnit \notin Objects
  BY <1>1, UnitsAssumption DEF TreeFits, Units
<1>4. \A q \in Objects : c \notin d.childs[q] /\ d.childs[q] \subseteq Units
  BY <1>1, <1>3 DEF Linked, Tree
<1>5. /\ d.childs[p] \subseteq N /\ N \subseteq d.childs[p] \cup {c}
      /\ c \in N => \A u \in d.childs[p] : Id[u] # Id[c]
      /\ c \in N \cup Z
  <2>1. CASE Under(d, p, Id[c]) = {}
    BY <2>1 DEF Under
  <2>2. CASE Under(d, p, Id[c]) # {}
    <3>1. PICK w \in d.childs[p] : Id[w] = Id[c]
      BY <2>2 DEF Under
    <3>2. w \in P /\ w # c
      BY <1>2, <1>3, <1>4 DEF Linked
    <3>3. c \in Z
      BY <3>1, <3>2 DEF Met
    <3>4. N = d.childs[p]
      BY <2>2
    <3> QED
      BY <1>2, <1>4, <3>3, <3>4
  <2> QED
    BY <2>1, <2>2
<1> HIDE DEF N
<1>6. /\ r \in Tree /\ r.idx = d.idx /\ r.bones = d.bones
      /\ r.parent = [d.parent EXCEPT ![c] = p]
      /\ r.childs = [d.childs EXCEPT ![p] = N]
  <2> DEFINE R == [d.parent EXCEPT ![c] = p]
             C == [d.childs EXCEPT ![p] = N]
  <2>1. r = [parent |-> R, childs |-> C, idx |-> d.idx, bones |-> d.bones]
    BY <1>2, <1>3 DEF Tree
  <2>2. R \in [Units -> Units \cup {NoUnit}]
    BY <1>2, <1>3 DEF Tree, Units
  <2>3. C \in [Objects -> SUBSET Units]
    BY <1>3, <1>4, <1>5 DEF Tree
  <2>4. d.idx \in [Animated -> SUBSET (Units \X Bones)] /\ d.bones \in [Animated -> [Bones -> SUBSET Units]]
    BY <1>3 DEF Tree
  <2>5. r.parent = R /\ r.childs = C /\ r.idx = d.idx /\ r.bones = d.bones
    BY <2>1
  <2> HIDE DEF R, C
  <2>6. r \in Tree
    <3>1. Whole(r)
      BY <2>1, <2>5 DEF Whole
    <3> QED
      BY <2>2, <2>3, <2>4, <2>5, <3>1, IsTree
  <2> QED
    BY <2>5, <2>6 DEF R, C
<1>7. /\ r.parent[c] = p
      /\ \A u \in Units : u # c => r.parent[u] = d.parent[u]
      /\ \A q \in Objects : q # p => r.childs[q] = d.childs[q]
      /\ r.childs[p] = N
  BY <1>2, <1>3, <1>6 DEF Tree
<1>8. Linked(r, S, P, Z)
  <2>1. ASSUME NEW q \in Objects, NEW u \in r.childs[q] PROVE r.parent[u] = q /\ q \in S
    <3>1. CASE u \in d.childs[q]
      <4>1. u # c /\ u \in Units /\ d.parent[u] = q /\ q \in S
        BY <1>3, <1>4, <3>1 DEF Linked
      <4> QED
        BY <1>7, <4>1
    <3>2. CASE u \notin d.childs[q]
      <4>1. q = p /\ u = c
        BY <1>5, <1>7, <2>1, <3>2
      <4> QED
        BY <1>7, <4>1
    <3> QED
      BY <3>1, <3>2
  <2>2. ASSUME NEW q \in Objects, NEW u \in r.childs[q], NEW w \in r.childs[q], Id[u] = Id[w]
        PROVE  u = w
    <3>1. CASE u \in d.childs[q] /\ w \in d.childs[q]
      BY <1>3, <2>2, <3>1 DEF Linked
    <3>2. CASE u \notin d.childs[q] \/ w \notin d.childs[q]
      <4>1. q = p /\ (u = c \/ w = c) /\ c \in N
        BY <1>5, <1>7, <2>2, <3>2
      <4>2. u \in d.childs[p] \cup {c} /\ w \in d.childs[p] \cup {c}
        BY <1>5, <1>7, <2>2, <4>1
      <4> QED
        BY <1>5, <2>2, <4>1, <4>2
    <3> QED
      BY <3>1, <3>2
  <2>3. ASSUME NEW u \in Units
        PROVE  /\ r.parent[u] \in Objects \cup {NoUnit}
               /\ r.parent[u] # NoUnit =>
                     u \in P /\ (u \in Z \/ (r.parent[u] \in S /\ u \in r.childs[r.parent[u]]))
    <3>1. CASE u = c
      BY <1>2, <1>5, <1>7, <3>1
    <3>2. CASE u # c
      <4>1. r.parent[u] = d.parent[u]
        BY <1>7, <3>2
      <4>2. /\ d.parent[u] \in Objects \cup {NoUnit}
            /\ d.parent[u] # NoUnit =>
                  u \in P /\ (u \in Z \/ (d.parent[u] \in S /\ u \in d.childs[d.parent[u]]))
        BY <1>3 DEF Linked
      <4>3. d.parent[u] \in Objects => d.childs[d.parent[u]] \subseteq r.childs[d.parent[u]]
        BY <1>5, <1>7
      <4> QED
        BY <4>1, <4>2, <4>3
    <3> QED
      BY <3>1, <3>2
  <2> QED
    BY <2>1, <2>2, <2>3 DEF Linked
<1>9. BonesFit(r, Z)
  <2>1. \A q \in Animated : q \in Objects /\ d.childs[q] \subseteq r.childs[q]
    BY <1>5, <1>7, UnitsAssumption
  <2> QED
    BY <1>3, <1>6, <2>1 DEF BonesFit
<1> QED
  BY <1>5, <1>6, <1>7, <1>8, <1>9 DEF TreeFits

\* A child set on a bone is on that bone alone.
LEMMA AttachBoneKeeps ==
    ASSUME NEW S \in SUBSET Objects, NEW P, NEW Z, NEW t, TreeFits(t, S, P, Z), Met(P, Z),
           NEW c \in Units, c \in P, NEW p \in S, p \in Animated, NEW b \in Bones,
           NEW r, r = AttachChildBone(t, p, c, b)
    PROVE  TreeFits(r, S, P, Z)
<1> DEFINE d == Attach(t, p, c)
           before == {x \in d.idx[p] : x[1] = c}
           I == (d.idx[p] \ before) \cup {<<c, b>>}
           B == [a \in Bones |-> IF a = b THEN d.bones[p][a] \cup {c}
                                 ELSE IF <<c, a>> \in before THEN d.bones[p][a] \ {c}
                                 ELSE d.bones[p][a]]
<1>1. TreeFits(d, S, P, Z) /\ c \in d.childs[p] \cup Z
  BY AttachKeeps
<1>2. r = [d EXCEPT !.idx[p] = I, !.bones[p] = B] /\ p \in Objects
  BY <1>1 DEF AttachChildBone, TreeFits, Tree
<1> HIDE DEF d
<1>3. /\ d \in Tree /\ Linked(d, S, P, Z) /\ BonesFit(d, Z)
      /\ d.idx[p] \subseteq Units \X Bones /\ d.bones[p] \in [Bones -> SUBSET Units]
  BY <1>1 DEF TreeFits, Tree
<1>4. /\ I \subseteq Units \X Bones
      /\ \A x \in I : x = <<c, b>> \/ (x \in d.idx[p] /\ x[1] # c)
      /\ \A u \in Units, a \in Bones :
            <<u, a>> \in I <=> (u = c /\ a = b) \/ (u # c /\ <<u, a>> \in d.idx[p])
  BY <1>3
<1>5. B \in [Bones -> SUBSET Units]
  BY <1>3
<1>6. \A u \in Units, a \in Bones :
         u \in B[a] <=> (u = c /\ a = b) \/ (u # c /\ u \in d.bones[p][a])
  <2>1. \A a \in Bones : <<c, a>> \in before <=> c \in d.bones[p][a]
    BY <1>3 DEF BonesFit
  <2> HIDE DEF before
  <2> QED
    BY <1>3, <2>1
<1> HIDE DEF before, I, B
<1>7. /\ r \in Tree /\ r.parent = d.parent /\ r.childs = d.childs
      /\ r.idx = [d.idx EXCEPT ![p] = I]
      /\ r.bones = [d.bones EXCEPT ![p] = B]
  <2> DEFINE V == [d.idx EXCEPT ![p] = I]
             W == [d.bones EXCEPT ![p] = B]
  <2>1. r = [parent |-> d.parent, childs |-> d.childs, idx |-> V, bones |-> W]
    BY <1>2, <1>3 DEF Tree
  <2>2. V \in [Animated -> SUBSET (Units \X Bones)]
    BY <1>3, <1>4 DEF Tree
  <2>3. W \in [Animated -> [Bones -> SUBSET Units]]
    BY <1>3, <1>5 DEF Tree
  <2>4. d.parent \in [Units -> Units \cup {NoUnit}] /\ d.childs \in [Objects -> SUBSET Units]
    BY <1>3 DEF Tree
  <2>5. r.parent = d.parent /\ r.childs = d.childs /\ r.idx = V /\ r.bones = W
    BY <2>1
  <2> HIDE DEF V, W
  <2>6. r \in Tree
    <3>1. Whole(r)
      BY <2>1, <2>5 DEF Whole
    <3> QED
      BY <2>2, <2>3, <2>4, <2>5, <3>1, IsTree
  <2> QED
    BY <2>5, <2>6 DEF V, W
<1>8. Linked(r, S, P, Z)
  BY <1>3, <1>7 DEF Linked
<1>9. BonesFit(r, Z)
  <2> SUFFICES ASSUME NEW q \in Animated
               PROVE  /\ \A u \in Units, a \in Bones : <<u, a>> \in r.idx[q] <=> u \in r.bones[q][a]
                      /\ \A x \in r.idx[q] : x[1] \in r.childs[q] \cup Z
                      /\ \A x, y \in r.idx[q] : x[1] = y[1] => x = y
    BY DEF BonesFit
  <2>1. /\ \A u \in Units, a \in Bones : <<u, a>> \in d.idx[q] <=> u \in d.bones[q][a]
        /\ \A x \in d.idx[q] : x[1] \in d.childs[q] \cup Z
        /\ \A x, y \in d.idx[q] : x[1] = y[1] => x = y
    BY <1>3 DEF BonesFit
  <2>2. CASE q # p
    <3>1. r.idx[q] = d.idx[q] /\ r.bones[q] = d.bones[q]
      BY <1>3, <1>7, <2>2 DEF Tree
    <3> QED
      BY <1>7, <2>1, <3>1
  <2>3. CASE q = p
    <3>1. r.idx[q] = I /\ r.bones[q] = B
      BY <1>3, <1>7, <2>3 DEF Tree
    <3>2. \A u \in Units, a \in Bones : <<u, a>> \in r.idx[q] <=> u \in r.bones[q][a]
      BY <1>4, <1>6, <2>1, <2>3, <3>1
    <3>3. \A x \in r.idx[q] : x[1] \in r.childs[q] \cup Z
      BY <1>1, <1>4, <1>7, <2>1, <2>3, <3>1
    <3>4. ASSUME NEW x \in r.idx[q], NEW y \in r.idx[q], x[1] = y[1] PROVE x = y
      <4>1. x = <<c, b>> \/ (x \in d.idx[q] /\ x[1] # c)
        BY <1>4, <2>3, <3>1
      <4>2. y = <<c, b>> \/ (y \in d.idx[q] /\ y[1] # c)
        BY <1>4, <2>3, <3>1
      <4> QED
        BY <2>1, <3>4, <4>1, <4>2
    <3> QED
      BY <3>2, <3>3, <3>4
  <2> QED
    BY <2>2, <2>3
<1> QED
  BY <1>7, <1>8, <1>9 DEF TreeFits

\* An object that hangs on nothing lets its children go and is deleted.
LEMMA DeleteOneKeeps ==
    ASSUME NEW S \in SUBSET Objects, NEW P, NEW Z, NEW t, TreeFits(t, S, P, Z),
           NEW o \in S, t.parent[o] = NoUnit,
           NEW r, r = Deleted(ClearChild(t, o), {o})
    PROVE  TreeFits(r, S \ {o}, P \ {o}, Z)
<1> DEFINE k == ClearChild(t, o)
<1>1. /\ t \in Tree /\ Linked(t, S, P, Z) /\ BonesFit(t, Z)
      /\ o \in Objects /\ o \in Units /\ NoUnit \notin Objects
      /\ \A p \in Objects : t.childs[p] \subseteq Units
  BY UnitsAssumption DEF TreeFits, Units, Tree
<1>2. /\ k.parent = [u \in Units |-> IF u \in t.childs[o] THEN NoUnit ELSE t.parent[u]]
      /\ k.childs = [t.childs EXCEPT ![o] = {}]
      /\ \A q \in Animated : q # o => k.idx[q] = t.idx[q] /\ k.bones[q] = t.bones[q]
  <2> DEFINE f == [u \in Units |-> IF u \in t.childs[o] THEN NoUnit ELSE t.parent[u]]
             l == [t EXCEPT !.parent = f, !.childs[o] = {}]
             e == [b \in Bones |-> {}]
  <2>1. k = IF o \in Animated THEN [l EXCEPT !.idx[o] = {}, !.bones[o] = e] ELSE l
    BY DEF ClearChild
  <2> HIDE DEF f, k, e
  <2>2. l = [parent |-> f, childs |-> [t.childs EXCEPT ![o] = {}], idx |-> t.idx, bones |-> t.bones]
    <3> DEFINE m == [t EXCEPT !.parent = f]
    <3>1. t = [parent |-> t.parent, childs |-> t.childs, idx |-> t.idx, bones |-> t.bones]
      BY <1>1 DEF Tree
    <3>2. m = [parent |-> f, childs |-> t.childs, idx |-> t.idx, bones |-> t.bones]
      BY <3>1
    <3>3. l = [m EXCEPT !.childs = [t.childs EXCEPT ![o] = {}]]
      BY <3>1
    <3> HIDE DEF m, l
    <3> QED
      BY <3>2, <3>3
  <2> HIDE DEF l
  <2>3. l.parent = f /\ l.childs = [t.childs EXCEPT ![o] = {}] /\ l.idx = t.idx /\ l.bones = t.bones
    BY <2>2
  <2>4. k.parent = f /\ k.childs = [t.childs EXCEPT ![o] = {}]
    BY <2>1, <2>2
  <2>5. ASSUME NEW q \in Animated, q # o PROVE k.idx[q] = t.idx[q] /\ k.bones[q] = t.bones[q]
    <3>1. CASE o \in Animated
      <4>1. k.idx = [t.idx EXCEPT ![o] = {}] /\ k.bones = [t.bones EXCEPT ![o] = e]
        BY <2>1, <2>2, <3>1
      <4> QED
        BY <1>1, <2>5, <4>1 DEF Tree
    <3>2. CASE o \notin Animated
      BY <2>1, <2>3, <3>2
    <3> QED
      BY <3>1, <3>2
  <2> QED
    BY <2>4, <2>5 DEF f
<1>3. /\ r.parent = [u \in Units |-> IF u \in {o} THEN NoUnit ELSE k.parent[u]]
      /\ r.childs = [p \in Objects |-> IF p \in {o} THEN {} ELSE k.childs[p]]
      /\ r.idx = [p \in Animated |-> IF p \in {o} THEN {} ELSE k.idx[p]]
      /\ r.bones = [p \in Animated |-> IF p \in {o} THEN [b \in Bones |-> {}] ELSE k.bones[p]]
      /\ Whole(r)
  BY DEF Deleted, Whole
<1> HIDE DEF k
<1>4. /\ \A u \in Units : r.parent[u] = IF u = o \/ u \in t.childs[o] THEN NoUnit ELSE t.parent[u]
      /\ \A p \in Objects : r.childs[p] = IF p = o THEN {} ELSE t.childs[p]
  <2>1. \A u \in Units : r.parent[u] = IF u = o \/ u \in t.childs[o] THEN NoUnit ELSE t.parent[u]
    BY <1>2, <1>3
  <2>2. \A p \in Objects : k.childs[p] = IF p = o THEN {} ELSE t.childs[p]
    BY <1>1, <1>2 DEF Tree
  <2>3. \A p \in Objects : r.childs[p] = IF p = o THEN {} ELSE t.childs[p]
    BY <1>3, <2>2
  <2> QED
    BY <2>1, <2>3
<1>5. \A q \in Animated :
         /\ r.idx[q] = IF q = o THEN {} ELSE t.idx[q]
         /\ \A b \in Bones : r.bones[q][b] = IF q = o THEN {} ELSE t.bones[q][b]
  <2> SUFFICES ASSUME NEW q \in Animated
               PROVE  /\ r.idx[q] = IF q = o THEN {} ELSE t.idx[q]
                      /\ \A b \in Bones : r.bones[q][b] = IF q = o THEN {} ELSE t.bones[q][b]
    OBVIOUS
  <2>1. /\ r.idx[q] = IF q = o THEN {} ELSE k.idx[q]
        /\ r.bones[q] = IF q = o THEN [b \in Bones |-> {}] ELSE k.bones[q]
    BY <1>3
  <2>2. CASE q = o
    BY <2>1, <2>2
  <2>3. CASE q # o
    BY <1>2, <2>1, <2>3
  <2> QED
    BY <2>2, <2>3
<1>6. r \in Tree
  <2>2. \A u \in Units : k.parent[u] \in Units \cup {NoUnit}
    BY <1>1, <1>2 DEF Tree
  <2>3. r.parent \in [Units -> Units \cup {NoUnit}]
    BY <1>3, <2>2
  <2>4. \A p \in Objects : k.childs[p] \in SUBSET Units
    BY <1>1, <1>2 DEF Tree
  <2>5. r.childs \in [Objects -> SUBSET Units]
    BY <1>3, <2>4
  <2>6. \A q \in Animated : q # o => /\ k.idx[q] \in SUBSET (Units \X Bones)
                                     /\ k.bones[q] \in [Bones -> SUBSET Units]
    <3>1. \A q \in Animated : /\ t.idx[q] \in SUBSET (Units \X Bones)
                              /\ t.bones[q] \in [Bones -> SUBSET Units]
      BY <1>1 DEF Tree
    <3> QED
      BY <1>2, <3>1
  <2>7. r.idx \in [Animated -> SUBSET (Units \X Bones)]
    BY <1>3, <2>6
  <2>8. r.bones \in [Animated -> [Bones -> SUBSET Units]]
    BY <1>3, <2>6
  <2> QED
    BY <1>3, <2>3, <2>5, <2>7, <2>8, IsTree
<1>7. Linked(r, S \ {o}, P \ {o}, Z)
  <2>1. ASSUME NEW q \in Objects, NEW u \in r.childs[q] PROVE r.parent[u] = q /\ q \in S \ {o}
    <3>1. q # o /\ u \in t.childs[q]
      BY <1>4, <2>1
    <3>2. u \in Units /\ t.parent[u] = q /\ q \in S
      BY <1>1, <3>1 DEF Linked
    <3>3. u # o /\ u \notin t.childs[o]
      BY <1>1, <3>1, <3>2 DEF Linked
    <3> QED
      BY <1>4, <3>1, <3>2, <3>3
  <2>2. \A q \in Objects : \A u, w \in r.childs[q] : Id[u] = Id[w] => u = w
    BY <1>1, <1>4 DEF Linked
  <2>3. ASSUME NEW u \in Units
        PROVE  /\ r.parent[u] \in Objects \cup {NoUnit}
               /\ r.parent[u] # NoUnit =>
                     /\ u \in P \ {o}
                     /\ u \in Z \/ (r.parent[u] \in S \ {o} /\ u \in r.childs[r.parent[u]])
    <3>1. /\ t.parent[u] \in Objects \cup {NoUnit}
          /\ t.parent[u] # NoUnit =>
                u \in P /\ (u \in Z \/ (t.parent[u] \in S /\ u \in t.childs[t.parent[u]]))
      BY <1>1 DEF Linked
    <3>2. r.parent[u] = IF u = o \/ u \in t.childs[o] THEN NoUnit ELSE t.parent[u]
      BY <1>4
    <3>3. t.parent[u] \in Objects /\ t.parent[u] # o => r.childs[t.parent[u]] = t.childs[t.parent[u]]
      BY <1>4
    <3> QED
      BY <3>1, <3>2, <3>3
  <2> QED
    BY <2>1, <2>2, <2>3 DEF Linked
<1>8. BonesFit(r, Z)
  <2> SUFFICES ASSUME NEW q \in Animated
               PROVE  /\ \A c \in Units, b \in Bones : <<c, b>> \in r.idx[q] <=> c \in r.bones[q][b]
                      /\ \A x \in r.idx[q] : x[1] \in r.childs[q] \cup Z
                      /\ \A x, y \in r.idx[q] : x[1] = y[1] => x = y
    BY DEF BonesFit
  <2>1. q \in Objects
    BY UnitsAssumption
  <2>2. CASE q = o
    BY <1>5, <2>2
  <2>3. CASE q # o
    <3>1. /\ r.idx[q] = t.idx[q] /\ r.childs[q] = t.childs[q]
          /\ \A b \in Bones : r.bones[q][b] = t.bones[q][b]
      BY <1>4, <1>5, <2>1, <2>3
    <3> QED
      BY <1>1, <3>1 DEF BonesFit
  <2> QED
    BY <2>2, <2>3
<1> QED
  BY <1>6, <1>7, <1>8 DEF TreeFits

\* All objects are deleted as they are; what hung on one of them is stale.
LEMMA DeleteAllKeeps ==
    ASSUME NEW S \in SUBSET Objects, NEW P, NEW Z, NEW t, TreeFits(t, S, P, Z),
           NEW r, r = Deleted(t, S),
           NEW Y, Z \subseteq Y, \A u \in P \ S : t.parent[u] # NoUnit => u \in Y
    PROVE  TreeFits(r, {}, P \ S, Y)
<1>1. t \in Tree /\ Linked(t, S, P, Z) /\ BonesFit(t, Z) /\ NoUnit \notin Objects
  BY UnitsAssumption DEF TreeFits, Units
<1>2. /\ r.parent = [u \in Units |-> IF u \in S THEN NoUnit ELSE t.parent[u]]
      /\ r.childs = [p \in Objects |-> IF p \in S THEN {} ELSE t.childs[p]]
      /\ r.idx = [p \in Animated |-> IF p \in S THEN {} ELSE t.idx[p]]
      /\ r.bones = [p \in Animated |-> IF p \in S THEN [b \in Bones |-> {}] ELSE t.bones[p]]
      /\ Whole(r)
  BY DEF Deleted, Whole
<1>3. \A p \in Objects : p \notin S => t.childs[p] = {}
  BY <1>1 DEF Linked
<1>4. \A p \in Objects : r.childs[p] = {}
  BY <1>2, <1>3
<1>5. Linked(r, {}, P \ S, Y)
  <2>1. ASSUME NEW u \in Units
        PROVE  /\ r.parent[u] \in Objects \cup {NoUnit}
               /\ r.parent[u] # NoUnit => u \in P \ S /\ u \in Y
    <3>1. r.parent[u] = IF u \in S THEN NoUnit ELSE t.parent[u]
      BY <1>2
    <3>2. t.parent[u] \in Objects \cup {NoUnit} /\ (t.parent[u] # NoUnit => u \in P)
      BY <1>1 DEF Linked
    <3> QED
      BY <3>1, <3>2
  <2> QED
    BY <1>4, <2>1 DEF Linked
<1>6. BonesFit(r, Y)
  <2> SUFFICES ASSUME NEW q \in Animated
               PROVE  /\ \A c \in Units, b \in Bones : <<c, b>> \in r.idx[q] <=> c \in r.bones[q][b]
                      /\ \A x \in r.idx[q] : x[1] \in r.childs[q] \cup Y
                      /\ \A x, y \in r.idx[q] : x[1] = y[1] => x = y
    BY DEF BonesFit
  <2>1. q \in Objects
    BY UnitsAssumption
  <2>2. CASE q \in S
    <3>1. r.idx[q] = {} /\ \A b \in Bones : r.bones[q][b] = {}
      BY <1>2, <2>2
    <3> QED
      BY <3>1
  <2>3. CASE q \notin S
    <3>1. r.idx[q] = t.idx[q] /\ r.bones[q] = t.bones[q] /\ t.childs[q] = {}
      BY <1>2, <1>3, <2>1, <2>3
    <3> QED
      BY <1>1, <3>1 DEF BonesFit
  <2> QED
    BY <2>2, <2>3
<1>7. r \in Tree
  <2>1. /\ r.parent \in [Units -> Units \cup {NoUnit}] /\ r.childs \in [Objects -> SUBSET Units]
        /\ r.idx \in [Animated -> SUBSET (Units \X Bones)]
    BY <1>1, <1>2 DEF Tree
  <2>2. r.bones \in [Animated -> [Bones -> SUBSET Units]]
    BY <1>1, <1>2 DEF Tree
  <2> QED
    BY <1>2, <2>1, <2>2, IsTree
<1> QED
  BY <1>5, <1>6, <1>7 DEF TreeFits

-----------------------------------------------------------------------------
(* The pool of effects.                                                    *)

\* Every effect is in one of the two queues, and once.
Pooled(f, a) ==
    /\ f \in Seq(Effects) /\ a \in Seq(Effects)
    /\ \A i, j \in 1 .. Len(f) : f[i] = f[j] => i = j
    /\ \A i, j \in 1 .. Len(a) : a[i] = a[j] => i = j
    /\ \A i \in 1 .. Len(f), j \in 1 .. Len(a) : f[i] # a[j]
    /\ \A e \in Effects : (\E i \in 1 .. Len(f) : f[i] = e) \/ (\E i \in 1 .. Len(a) : a[i] = e)

LEMMA PooledIsPooled ==
    ASSUME Pooled(free, active)
    PROVE  EffectsArePooled
<1> DEFINE q == free \o active
<1>1. free \in Seq(Effects) /\ active \in Seq(Effects) /\ Len(free) \in Nat /\ Len(active) \in Nat
  BY DEF Pooled
<1>2. /\ q \in Seq(Effects) /\ Len(q) = Len(free) + Len(active) /\ DOMAIN q = 1 .. Len(q)
      /\ \A i \in 1 .. Len(free) : i \in 1 .. Len(q) /\ q[i] = free[i]
      /\ \A i \in 1 .. Len(active) : Len(free) + i \in 1 .. Len(q) /\ q[Len(free) + i] = active[i]
      /\ \A i \in 1 .. Len(q) :
            \/ i \in 1 .. Len(free) /\ q[i] = free[i]
            \/ i - Len(free) \in 1 .. Len(active) /\ q[i] = active[i - Len(free)]
  BY <1>1
<1> HIDE DEF q
<1>3. \A i, j \in 1 .. Len(q) : q[i] = q[j] => i = j
  <2> SUFFICES ASSUME NEW i \in 1 .. Len(q), NEW j \in 1 .. Len(q), q[i] = q[j] PROVE i = j
    OBVIOUS
  <2>1. CASE i \in 1 .. Len(free) /\ j \in 1 .. Len(free)
    BY <1>2, <2>1 DEF Pooled
  <2>2. CASE i \notin 1 .. Len(free) /\ j \notin 1 .. Len(free)
    <3>1. /\ i - Len(free) \in 1 .. Len(active) /\ j - Len(free) \in 1 .. Len(active)
          /\ active[i - Len(free)] = active[j - Len(free)]
      BY <1>2, <2>2
    <3>2. i - Len(free) = j - Len(free)
      BY <3>1 DEF Pooled
    <3> QED
      BY <1>1, <3>2
  <2>3. CASE i \in 1 .. Len(free) /\ j \notin 1 .. Len(free)
    <3>1. /\ q[i] = free[i]
          /\ j - Len(free) \in 1 .. Len(active) /\ q[j] = active[j - Len(free)]
      BY <1>2, <2>3
    <3> QED
      BY <2>3, <3>1 DEF Pooled
  <2>4. CASE i \notin 1 .. Len(free) /\ j \in 1 .. Len(free)
    <3>1. /\ q[j] = free[j]
          /\ i - Len(free) \in 1 .. Len(active) /\ q[i] = active[i - Len(free)]
      BY <1>2, <2>4
    <3> QED
      BY <2>4, <3>1 DEF Pooled
  <2> QED
    BY <2>1, <2>2, <2>3, <2>4
<1>4. ToSet(q) = Effects
  <2>1. \A i \in 1 .. Len(q) : q[i] \in Effects
    BY <1>2
  <2>2. ASSUME NEW e \in Effects PROVE \E i \in 1 .. Len(q) : q[i] = e
    <3>1. CASE \E i \in 1 .. Len(free) : free[i] = e
      <4>1. PICK i \in 1 .. Len(free) : free[i] = e
        BY <3>1
      <4>2. i \in 1 .. Len(q) /\ q[i] = e
        BY <1>2, <4>1
      <4> QED
        BY <4>2
    <3>2. CASE \E i \in 1 .. Len(active) : active[i] = e
      <4>1. PICK i \in 1 .. Len(active) : active[i] = e
        BY <3>2
      <4>2. Len(free) + i \in 1 .. Len(q) /\ q[Len(free) + i] = e
        BY <1>2, <4>1
      <4> QED
        BY <4>2
    <3> QED
      BY <3>1, <3>2 DEF Pooled
  <2> QED
    BY <1>2, <2>1, <2>2 DEF ToSet
<1> QED
  BY <1>2, <1>3, <1>4 DEF EffectsArePooled, IsInjective, q

LEMMA PoolStarts ==
    Pooled(SetToSeq(Effects), <<>>)
<1> DEFINE n == Cardinality(Effects)
           f == SetToSeq(Effects)
<1>1. n \in Nat /\ IsFiniteSet(Effects) /\ ExistsBijection(1 .. n, Effects)
  BY FS_CardinalityType, UnitsAssumption
<1>2. \E g \in [1 .. n -> Effects] : IsInjective(g)
  BY <1>1 DEF ExistsBijection, Bijection, Injection
<1>3. f \in [1 .. n -> Effects] /\ IsInjective(f)
  BY <1>2 DEF SetToSeq
<1> HIDE DEF f
<1>4. f \in Injection(1 .. n, Effects)
  BY <1>3 DEF Injection
<1>5. IsFiniteSet(1 .. n) /\ Cardinality(1 .. n) = n
  <2>1. 0 \in Int /\ 1 \in Int /\ n \in Int
    BY <1>1
  <2> QED
    BY <1>1, <2>1, FS_Interval
<1>6. f \in Surjection(1 .. n, Effects)
  BY <1>1, <1>4, <1>5, FS_Injection
<1>7. \A e \in Effects : \E i \in 1 .. n : f[i] = e
  BY <1>6 DEF Surjection
<1>8. f \in Seq(Effects) /\ Len(f) = n /\ DOMAIN f = 1 .. n
  <2> HIDE DEF n
  <2> QED
    BY <1>1, <1>3
<1>9. <<>> \in Seq(Effects) /\ Len(<<>>) = 0
  OBVIOUS
<1> QED
  BY <1>3, <1>7, <1>8, <1>9 DEF Pooled, IsInjective, f

\* The front of the free effects goes to the end of the active ones.
LEMMA PoolSpawns ==
    ASSUME NEW f, NEW a, Pooled(f, a), f # <<>>
    PROVE  Pooled(Tail(f), Append(a, Head(f)))
<1> DEFINE g == Tail(f)
           e == Head(f)
           b == Append(a, e)
<1>1. f \in Seq(Effects) /\ a \in Seq(Effects) /\ Len(a) \in Nat
  BY SeqFacts DEF Pooled
<1>2. /\ g \in Seq(Effects) /\ Len(g) = Len(f) - 1 /\ Len(f) \in Nat
      /\ \A i \in 1 .. Len(g) : g[i] = f[i + 1] /\ i + 1 \in 1 .. Len(f)
      /\ e = f[1] /\ e \in Effects /\ 1 \in 1 .. Len(f)
  BY <1>1, TailFacts
<1> HIDE DEF g, e
<1>3. /\ b \in Seq(Effects) /\ Len(b) = Len(a) + 1
      /\ \A i \in 1 .. Len(a) : i \in 1 .. Len(b) /\ b[i] = a[i]
      /\ b[Len(a) + 1] = e /\ Len(a) + 1 \in 1 .. Len(b)
      /\ \A i \in 1 .. Len(b) : i \in 1 .. Len(a) \/ i = Len(a) + 1
  BY <1>1, <1>2, AppendFacts
<1> HIDE DEF b
<1>4. \A i, j \in 1 .. Len(g) : g[i] = g[j] => i = j
  <2> SUFFICES ASSUME NEW i \in 1 .. Len(g), NEW j \in 1 .. Len(g), g[i] = g[j] PROVE i = j
    OBVIOUS
  <2>1. f[i + 1] = f[j + 1] /\ i + 1 \in 1 .. Len(f) /\ j + 1 \in 1 .. Len(f)
    BY <1>2
  <2>2. i + 1 = j + 1
    BY <2>1 DEF Pooled
  <2> QED
    BY <2>2
<1>5. \A i \in 1 .. Len(g) : g[i] # e
  <2> SUFFICES ASSUME NEW i \in 1 .. Len(g), g[i] = e PROVE FALSE
    OBVIOUS
  <2>1. f[i + 1] = f[1] /\ i + 1 \in 1 .. Len(f) /\ 1 \in 1 .. Len(f)
    BY <1>2
  <2>2. i + 1 = 1
    BY <2>1 DEF Pooled
  <2> QED
    BY <2>2
<1>6. \A i \in 1 .. Len(a) : a[i] # e
  BY <1>2 DEF Pooled
<1>7. \A i, j \in 1 .. Len(b) : b[i] = b[j] => i = j
  BY <1>3, <1>6 DEF Pooled
<1>8. \A i \in 1 .. Len(g), j \in 1 .. Len(b) : g[i] # b[j]
  <2> SUFFICES ASSUME NEW i \in 1 .. Len(g), NEW j \in 1 .. Len(b) PROVE g[i] # b[j]
    OBVIOUS
  <2>1. CASE j = Len(a) + 1
    BY <1>3, <1>5, <2>1
  <2>2. CASE j \in 1 .. Len(a)
    <3>1. f[i + 1] # a[j] /\ g[i] = f[i + 1] /\ b[j] = a[j]
      BY <1>2, <1>3, <2>2 DEF Pooled
    <3> QED
      BY <3>1
  <2> QED
    BY <1>3, <2>1, <2>2
<1>9. \A x \in Effects : (\E i \in 1 .. Len(g) : g[i] = x) \/ (\E i \in 1 .. Len(b) : b[i] = x)
  <2> SUFFICES ASSUME NEW x \in Effects
               PROVE  (\E i \in 1 .. Len(g) : g[i] = x) \/ (\E i \in 1 .. Len(b) : b[i] = x)
    OBVIOUS
  <2>1. CASE \E i \in 1 .. Len(a) : a[i] = x
    BY <1>3, <2>1
  <2>2. ASSUME NEW i \in 1 .. Len(f), f[i] = x
        PROVE  (\E k \in 1 .. Len(g) : g[k] = x) \/ (\E k \in 1 .. Len(b) : b[k] = x)
    <3>1. CASE i = 1
      BY <1>2, <1>3, <2>2, <3>1
    <3>2. CASE i # 1
      <4>1. i - 1 \in 1 .. Len(g) /\ (i - 1) + 1 = i
        BY <1>2, <3>2
      <4>2. g[i - 1] = x
        BY <1>2, <2>2, <4>1
      <4> QED
        BY <4>1, <4>2
    <3> QED
      BY <3>1, <3>2
  <2> QED
    BY <2>1, <2>2 DEF Pooled
<1> QED
  BY <1>2, <1>3, <1>4, <1>7, <1>8, <1>9 DEF Pooled, g, b, e

LEMMA RemoveFacts ==
    ASSUME NEW S, NEW q \in Seq(S), NEW k \in 1 .. Len(q), NEW r, r = RemoveAt(q, k)
    PROVE  /\ r \in Seq(S) /\ Len(r) = Len(q) - 1
           /\ \A i \in 1 .. Len(r) :
                 LET j == IF i < k THEN i ELSE i + 1 IN j \in 1 .. Len(q) /\ j # k /\ r[i] = q[j]
           /\ \A j \in 1 .. Len(q) : j # k =>
                 LET i == IF j < k THEN j ELSE j - 1 IN i \in 1 .. Len(r) /\ r[i] = q[j]
<1> DEFINE h == SubSeq(q, 1, k - 1)
           l == SubSeq(q, k + 1, Len(q))
<1>1. Len(q) \in Nat /\ k \in Nat /\ k - 1 \in 0 .. Len(q) /\ k >= 1 /\ k <= Len(q)
  OBVIOUS
<1>2. h \in Seq(S) /\ Len(h) = k - 1 /\ \A i \in 1 .. k - 1 : h[i] = q[i]
  BY <1>1, PrefixFacts
<1>3. l \in Seq(S) /\ Len(l) = Len(q) - k /\ \A i \in 1 .. Len(q) - k : l[i] = q[k + i]
  BY <1>1
<1>4. r = h \o l
  BY DEF RemoveAt
<1> HIDE DEF h, l
<1>5. /\ r \in Seq(S) /\ Len(r) = Len(q) - 1
      /\ \A i \in 1 .. Len(q) - 1 : r[i] = IF i <= k - 1 THEN h[i] ELSE l[i - (k - 1)]
  BY <1>1, <1>2, <1>3, <1>4
<1>6. ASSUME NEW i \in 1 .. Len(r)
      PROVE  LET j == IF i < k THEN i ELSE i + 1 IN j \in 1 .. Len(q) /\ j # k /\ r[i] = q[j]
  <2>1. CASE i < k
    BY <1>1, <1>2, <1>5, <2>1
  <2>2. CASE ~(i < k)
    <3>1. i - (k - 1) \in 1 .. Len(q) - k /\ k + (i - (k - 1)) = i + 1 /\ ~(i <= k - 1)
      BY <1>1, <1>5, <2>2
    <3>2. r[i] = l[i - (k - 1)]
      BY <1>5, <3>1
    <3>3. l[i - (k - 1)] = q[i + 1]
      BY <1>3, <3>1
    <3> QED
      BY <1>1, <1>5, <2>2, <3>2, <3>3
  <2> QED
    BY <2>1, <2>2
<1>7. ASSUME NEW j \in 1 .. Len(q), j # k
      PROVE  LET i == IF j < k THEN j ELSE j - 1 IN i \in 1 .. Len(r) /\ r[i] = q[j]
  <2>1. CASE j < k
    BY <1>1, <1>2, <1>5, <2>1
  <2>2. CASE ~(j < k)
    <3>1. j - 1 \in 1 .. Len(r) /\ ~(j - 1 < k) /\ (j - 1) + 1 = j
      BY <1>1, <1>5, <1>7, <2>2
    <3>2. r[j - 1] = q[j]
      BY <1>6, <3>1
    <3> QED
      BY <2>2, <3>1, <3>2
  <2> QED
    BY <2>1, <2>2
<1> QED
  BY <1>5, <1>6, <1>7

\* An effect whose time is over goes to the end of the free ones.
LEMMA PoolTakesBack ==
    ASSUME NEW f, NEW a, Pooled(f, a), NEW k \in 1 .. Len(a)
    PROVE  Pooled(Append(f, a[k]), RemoveAt(a, k))
<1> DEFINE g == Append(f, a[k])
           b == RemoveAt(a, k)
<1>1. f \in Seq(Effects) /\ a \in Seq(Effects) /\ Len(f) \in Nat /\ Len(a) \in Nat /\ a[k] \in Effects
  BY SeqFacts DEF Pooled
<1>2. /\ b \in Seq(Effects) /\ Len(b) = Len(a) - 1
      /\ \A i \in 1 .. Len(b) :
            LET j == IF i < k THEN i ELSE i + 1 IN j \in 1 .. Len(a) /\ j # k /\ b[i] = a[j]
      /\ \A j \in 1 .. Len(a) : j # k =>
            LET i == IF j < k THEN j ELSE j - 1 IN i \in 1 .. Len(b) /\ b[i] = a[j]
  <2>1. b = RemoveAt(a, k) /\ a \in Seq(Effects) /\ k \in 1 .. Len(a)
    BY <1>1
  <2> HIDE DEF b
  <2> QED
    BY <2>1, RemoveFacts
<1>3. /\ g \in Seq(Effects) /\ Len(g) = Len(f) + 1
      /\ \A i \in 1 .. Len(f) : i \in 1 .. Len(g) /\ g[i] = f[i]
      /\ g[Len(f) + 1] = a[k] /\ Len(f) + 1 \in 1 .. Len(g)
      /\ \A i \in 1 .. Len(g) : i \in 1 .. Len(f) \/ i = Len(f) + 1
  BY <1>1, AppendFacts
<1> HIDE DEF g, b
<1>4. \A i, j \in 1 .. Len(g) : g[i] = g[j] => i = j
  <2>1. \A i \in 1 .. Len(f) : f[i] # a[k]
    BY DEF Pooled
  <2> QED
    BY <1>3, <2>1 DEF Pooled
<1>5. \A i, j \in 1 .. Len(b) : b[i] = b[j] => i = j
  <2> SUFFICES ASSUME NEW i \in 1 .. Len(b), NEW j \in 1 .. Len(b), b[i] = b[j] PROVE i = j
    OBVIOUS
  <2> DEFINE m == IF i < k THEN i ELSE i + 1
             n == IF j < k THEN j ELSE j + 1
  <2>1. m \in 1 .. Len(a) /\ n \in 1 .. Len(a) /\ m # k /\ n # k /\ a[m] = a[n]
    BY <1>2
  <2>2. m = n
    BY <2>1 DEF Pooled
  <2> QED
    BY <1>1, <1>2, <2>1, <2>2
<1>6. \A i \in 1 .. Len(g), j \in 1 .. Len(b) : g[i] # b[j]
  <2> SUFFICES ASSUME NEW i \in 1 .. Len(g), NEW j \in 1 .. Len(b) PROVE g[i] # b[j]
    OBVIOUS
  <2> DEFINE n == IF j < k THEN j ELSE j + 1
  <2>1. n \in 1 .. Len(a) /\ n # k /\ b[j] = a[n]
    BY <1>2
  <2> HIDE DEF n
  <2>2. a[n] # a[k]
    BY <2>1 DEF Pooled
  <2>3. CASE i = Len(f) + 1
    BY <1>3, <2>1, <2>2, <2>3
  <2>4. CASE i \in 1 .. Len(f)
    BY <1>3, <2>1, <2>4 DEF Pooled
  <2> QED
    BY <1>3, <2>3, <2>4
<1>7. \A x \in Effects : (\E i \in 1 .. Len(g) : g[i] = x) \/ (\E i \in 1 .. Len(b) : b[i] = x)
  <2> SUFFICES ASSUME NEW x \in Effects
               PROVE  (\E i \in 1 .. Len(g) : g[i] = x) \/ (\E i \in 1 .. Len(b) : b[i] = x)
    OBVIOUS
  <2>1. CASE \E i \in 1 .. Len(f) : f[i] = x
    BY <1>3, <2>1
  <2>2. ASSUME NEW j \in 1 .. Len(a), a[j] = x
        PROVE  (\E i \in 1 .. Len(g) : g[i] = x) \/ (\E i \in 1 .. Len(b) : b[i] = x)
    <3>1. CASE j = k
      BY <1>3, <2>2, <3>1
    <3>2. CASE j # k
      BY <1>2, <2>2, <3>2
    <3> QED
      BY <3>1, <3>2
  <2> QED
    BY <2>1, <2>2 DEF Pooled
<1> QED
  BY <1>2, <1>3, <1>4, <1>5, <1>6, <1>7 DEF Pooled, g, b

-----------------------------------------------------------------------------
(* Tree and pool together.                                                 *)

\* The pointers to parents lead to objects there are, and the lists of children
\* agree with them, but for the units in stale; two units in play that have an
\* id in common are both there.
TreeInv ==
    /\ TreeTypeOK
    /\ Pooled(free, active)
    /\ Met(InPlay, stale)
    /\ TreeFits(tree, objs, InPlay, stale)

LEMMA TreeInvStarts == TreeInit => TreeInv
<1> SUFFICES ASSUME TreeInit PROVE TreeInv
  OBVIOUS
<1>1. Pooled(free, active)
  BY PoolStarts DEF TreeInit
<1>2. tree \in Tree
  <2> DEFINE P == [u \in Units |-> NoUnit]
             C == [p \in Objects |-> {}]
             I == [p \in Animated |-> {}]
             B == [p \in Animated |-> [b \in Bones |-> {}]]
  <2>1. P \in [Units -> Units \cup {NoUnit}] /\ C \in [Objects -> SUBSET Units]
        /\ I \in [Animated -> SUBSET (Units \X Bones)] /\ B \in [Animated -> [Bones -> SUBSET Units]]
    OBVIOUS
  <2>2. tree = [parent |-> P, childs |-> C, idx |-> I, bones |-> B]
    BY DEF TreeInit
  <2> HIDE DEF P, C, I, B
  <2> QED
    BY <2>1, <2>2 DEF Tree
<1>3. TreeTypeOK
  BY <1>1, <1>2 DEF TreeInit, TreeTypeOK, Pooled
<1>4. /\ \A u \in Units : tree.parent[u] = NoUnit
      /\ \A p \in Objects : tree.childs[p] = {}
      /\ \A p \in Animated : tree.idx[p] = {} /\ \A b \in Bones : tree.bones[p][b] = {}
  BY DEF TreeInit
<1>5. BonesFit(tree, stale) /\ Linked(tree, objs, InPlay, stale)
  BY <1>4 DEF BonesFit, Linked
<1>6. InPlay = {}
  BY DEF InPlay, TreeInit, ToSet
<1> QED
  BY <1>1, <1>2, <1>3, <1>5, <1>6 DEF TreeInv, TreeFits, Met

\* Who is in play, and that a free effect is not.
LEMMA InPlayFacts ==
    ASSUME TreeInv
    PROVE  /\ InPlay \subseteq Units /\ ToSet(active) \subseteq Effects /\ objs \subseteq InPlay
           /\ InPlay \ objs = ToSet(active)
           /\ \A e \in ToSet(free) : e \in Effects /\ e \notin InPlay
<1>1. /\ free \in Seq(Effects) /\ active \in Seq(Effects) /\ objs \subseteq Objects
      /\ DOMAIN free = 1 .. Len(free) /\ \A i \in 1 .. Len(free) : free[i] \in Effects
      /\ DOMAIN active = 1 .. Len(active) /\ \A i \in 1 .. Len(active) : active[i] \in Effects
  BY SeqFacts DEF TreeInv, TreeTypeOK
<1>2. ToSet(active) \subseteq Effects /\ ToSet(free) \subseteq Effects
  BY <1>1 DEF ToSet
<1>3. \A e \in ToSet(free) : e \notin ToSet(active)
  BY <1>1 DEF ToSet, TreeInv, Pooled
<1> QED
  BY <1>1, <1>2, <1>3, UnitsAssumption DEF InPlay, Units

\* What every operation on the tree alone has to show.
LEMMA TreeMoves ==
    ASSUME TreeInv, UNCHANGED <<objs, ended, poolVars, over, stale>>,
           TreeFits(tree', objs, InPlay, stale)
    PROVE  TreeInv'
<1>1. UNCHANGED <<objs, ended, free, active, over, stale>>
  BY DEF poolVars
<1>2. TreeTypeOK'
  BY <1>1 DEF TreeInv, TreeTypeOK, TreeFits
<1>3. InPlay' = InPlay
  BY <1>1 DEF InPlay
<1>4. Pooled(free', active') /\ Met(InPlay', stale') /\ TreeFits(tree', objs', InPlay', stale')
  BY <1>1, <1>3 DEF TreeInv
<1> QED
  BY <1>2, <1>4 DEF TreeInv

\* Two of the units S with an id in common are among the clashing ones.
LEMMA ClashingMet ==
    ASSUME NEW P, NEW Z, NEW S, Clashing(S) \subseteq Z, P \subseteq S
    PROVE  Met(P, Z)
  BY DEF Met, Clashing

\* Nothing in play hangs on the objects once they are cleared but what is then
\* stale.
LEMMA ClearKeeps ==
    ASSUME TreeInv, Clear, NEW Y, stale \subseteq Y, Orphans \subseteq Y
    PROVE  TreeFits(tree', {}, ToSet(active), Y)
<1>1. tree' = Deleted(tree, objs) /\ TreeFits(tree, objs, InPlay, stale) /\ objs \in SUBSET Objects
  BY DEF Clear, TreeInv, TreeTypeOK
<1>2. InPlay \ objs = ToSet(active)
  BY InPlayFacts
<1>3. \A u \in InPlay \ objs : tree.parent[u] # NoUnit => u \in Y
  BY <1>2 DEF Orphans
<1> QED
  BY <1>1, <1>2, <1>3, DeleteAllKeeps

\* An effect that goes back is not in play any more, and no other effect comes.
LEMMA EndsLeaves ==
    ASSUME NEW q \in Seq(Effects), NEW k \in 1 .. Len(q), NEW r, r = RemoveAt(q, k)
    PROVE  ToSet(r) \subseteq ToSet(q) /\ ToSet(q) \subseteq ToSet(r) \cup {q[k]}
<1>1. /\ r \in Seq(Effects)
      /\ \A i \in 1 .. Len(r) :
            LET j == IF i < k THEN i ELSE i + 1 IN j \in 1 .. Len(q) /\ j # k /\ r[i] = q[j]
      /\ \A j \in 1 .. Len(q) : j # k =>
            LET i == IF j < k THEN j ELSE j - 1 IN i \in 1 .. Len(r) /\ r[i] = q[j]
  BY RemoveFacts
<1>2. DOMAIN q = 1 .. Len(q) /\ DOMAIN r = 1 .. Len(r)
  BY <1>1
<1>3. \A i \in 1 .. Len(r) : \E j \in 1 .. Len(q) : r[i] = q[j]
  BY <1>1
<1>4. \A j \in 1 .. Len(q) : j # k => \E i \in 1 .. Len(r) : r[i] = q[j]
  BY <1>1
<1>5. ToSet(r) = {r[i] : i \in 1 .. Len(r)} /\ ToSet(q) = {q[j] : j \in 1 .. Len(q)}
  BY <1>2 DEF ToSet
<1>6. ToSet(r) \subseteq ToSet(q)
  BY <1>3, <1>5
<1>7. ToSet(q) \subseteq ToSet(r) \cup {q[k]}
  BY <1>4, <1>5
<1> QED
  BY <1>6, <1>7

LEMMA TreeInvKept ==
    ASSUME TreeInv, [TreeNext]_treeVars
    PROVE  TreeInv'
<1>1. CASE UNCHANGED treeVars
  <2>1. UNCHANGED <<objs, ended, poolVars, over, tree, stale>>
    BY <1>1 DEF treeVars
  <2>2. TreeFits(tree', objs, InPlay, stale)
    BY <2>1 DEF TreeInv
  <2> QED
    BY <2>1, <2>2, TreeMoves
<1> SUFFICES ASSUME TreeNext PROVE TreeInv'
  BY <1>1
<1>2. /\ TreeFits(tree, objs, InPlay, stale) /\ tree \in Tree /\ objs \in SUBSET Objects
      /\ Met(InPlay, stale) /\ Pooled(free, active) /\ stale \subseteq Units
      /\ InPlay \subseteq Units /\ objs \subseteq InPlay /\ ToSet(active) \subseteq Effects
      /\ InPlay \ objs = ToSet(active)
  BY InPlayFacts DEF TreeInv, TreeTypeOK
<1>3. CASE CreateObject
  <2>1. PICK o \in Objects \ (objs \cup ended) : objs' = objs \cup {o}
                                                 /\ stale' = stale \cup Clashing(InPlay \cup {o})
    BY <1>3 DEF CreateObject
  <2>2. UNCHANGED <<ended, free, active, tree, over>>
    BY <1>3 DEF CreateObject, poolVars
  <2>3. InPlay' = InPlay \cup {o}
    BY <2>1, <2>2 DEF InPlay
  <2>4. Met(InPlay', stale')
    BY <2>1, <2>3, ClashingMet
  <2>5. TreeFits(tree', objs', InPlay', stale')
    BY <1>2, <2>1, <2>2, <2>3, MoreFits
  <2>6. TreeTypeOK'
    <3>1. Clashing(InPlay \cup {o}) \subseteq Units
      BY <1>2 DEF Clashing, Units
    <3> QED
      BY <1>2, <2>1, <2>2, <3>1 DEF TreeInv, TreeTypeOK
  <2> QED
    BY <1>2, <2>2, <2>4, <2>5, <2>6 DEF TreeInv
<1>4. CASE AttachUnit
  <2>1. PICK p \in objs : \E c \in InPlay \ {p} : tree' = Attach(tree, p, c)
    BY <1>4 DEF AttachUnit
  <2>2. PICK c \in InPlay \ {p} : tree' = Attach(tree, p, c)
    BY <2>1
  <2>3. TreeFits(tree', objs, InPlay, stale)
    BY <1>2, <2>2, AttachKeeps
  <2> QED
    BY <1>4, <2>3, TreeMoves DEF AttachUnit
<1>5. CASE AttachUnitToBone
  <2>1. PICK p \in objs \cap Animated, b \in Bones : \E c \in InPlay \ {p} : tree' = AttachChildBone(tree, p, c, b)
    BY <1>5 DEF AttachUnitToBone
  <2>2. PICK c \in InPlay \ {p} : tree' = AttachChildBone(tree, p, c, b)
    BY <2>1
  <2>3. TreeFits(tree', objs, InPlay, stale)
    BY <1>2, <2>2, AttachBoneKeeps
  <2> QED
    BY <1>5, <2>3, TreeMoves DEF AttachUnitToBone
<1>6. CASE DettachUnit
  <2>1. PICK c \in InPlay : tree' = DettachParent(tree, c)
    BY <1>6 DEF DettachUnit
  <2>2. TreeFits(tree', objs, InPlay, stale)
    BY <1>2, <2>1, DettachKeeps
  <2> QED
    BY <1>6, <2>2, TreeMoves DEF DettachUnit
<1>7. CASE ProcessPending
  <2>1. PICK o \in objs : /\ objs' = objs \ {o} /\ ended' = ended \cup {o}
                          /\ tree' = Deleted(ClearChild(DettachParent(tree, o), o), {o})
    BY <1>7 DEF ProcessPending
  <2>2. UNCHANGED <<free, active, over, stale>>
    BY <1>7 DEF ProcessPending, poolVars
  <2> DEFINE d == DettachParent(tree, o)
  <2>3. TreeFits(d, objs, InPlay, stale) /\ d.parent[o] = NoUnit
    BY <1>2, DettachKeeps
  <2>4. tree' = Deleted(ClearChild(d, o), {o})
    BY <2>1
  <2> HIDE DEF d
  <2>5. TreeFits(tree', objs \ {o}, InPlay \ {o}, stale)
    BY <1>2, <2>3, <2>4, DeleteOneKeeps
  <2>6. InPlay' = InPlay \ {o}
    BY <1>2, <2>1, <2>2, UnitsAssumption DEF InPlay
  <2>7. Met(InPlay', stale') /\ TreeFits(tree', objs', InPlay', stale')
    BY <1>2, <2>1, <2>2, <2>5, <2>6 DEF Met
  <2>8. TreeTypeOK'
    BY <1>2, <2>1, <2>2, <2>5 DEF TreeInv, TreeTypeOK, TreeFits
  <2> QED
    BY <1>2, <2>2, <2>7, <2>8 DEF TreeInv
<1>8. CASE OverlaySceneFromFile
  <2>1. /\ Clear /\ objs' \in SUBSET (Objects \ (objs \cup ended))
        /\ stale' = stale \cup Orphans \cup Clashing(objs' \cup ToSet(active)) /\ over' = over
    BY <1>8 DEF OverlaySceneFromFile
  <2>2. ended' = ended \cup objs /\ UNCHANGED <<free, active>>
    BY <2>1 DEF Clear, poolVars
  <2>3. InPlay' = objs' \cup ToSet(active)
    BY <2>2 DEF InPlay
  <2>4. TreeFits(tree', {}, ToSet(active), stale')
    BY <2>1, ClearKeeps
  <2>5. TreeFits(tree', objs', InPlay', stale')
    BY <2>3, <2>4, MoreFits
  <2>6. Met(InPlay', stale')
    BY <2>1, <2>3, ClashingMet
  <2>7. TreeTypeOK'
    <3>1. Orphans \cup Clashing(objs' \cup ToSet(active)) \subseteq Units
      BY <1>2, <2>1 DEF Orphans, Clashing, Units
    <3> QED
      BY <1>2, <2>1, <2>2, <2>4, <3>1 DEF TreeInv, TreeTypeOK, TreeFits
  <2> QED
    BY <1>2, <2>2, <2>5, <2>6, <2>7 DEF TreeInv
<1>9. CASE SceneEnds
  <2>1. Clear /\ objs' = {} /\ over' = TRUE /\ stale' = stale \cup Orphans
    BY <1>9 DEF SceneEnds
  <2>2. ended' = ended \cup objs /\ UNCHANGED <<free, active>>
    BY <2>1 DEF Clear, poolVars
  <2>3. InPlay' = ToSet(active)
    BY <2>1, <2>2 DEF InPlay
  <2>4. TreeFits(tree', objs', InPlay', stale')
    <3>1. TreeFits(tree', {}, ToSet(active), stale')
      BY <2>1, ClearKeeps
    <3> QED
      BY <2>1, <2>3, <3>1
  <2>5. Met(InPlay', stale')
    BY <1>2, <2>1, <2>3 DEF Met
  <2>6. TreeTypeOK'
    <3>1. Orphans \subseteq Units
      BY <1>2 DEF Orphans, Units
    <3> QED
      BY <1>2, <2>1, <2>2, <2>4, <3>1 DEF TreeInv, TreeTypeOK, TreeFits
  <2> QED
    BY <1>2, <2>2, <2>4, <2>5, <2>6 DEF TreeInv
<1>10. CASE Spawn
  <2>1. /\ free # <<>> /\ free' = Tail(free) /\ active' = Append(active, Head(free))
        /\ stale' = stale \cup Clashing(InPlay \cup {Head(free)})
        /\ UNCHANGED <<objs, ended, tree, over>>
    BY <1>10 DEF Spawn
  <2>2. Pooled(free', active')
    BY <1>2, <2>1, PoolSpawns
  <2>3. Head(free) \in Effects /\ active \in Seq(Effects)
    BY <2>1, TailFacts DEF TreeInv, TreeTypeOK
  <2>4. InPlay' = InPlay \cup {Head(free)}
    <3>1. ToSet(active') = ToSet(active) \cup {Head(free)}
      <4> DEFINE e == Head(free)
      <4>1. e \in Effects /\ active' = Append(active, e)
        BY <2>1, <2>3
      <4> HIDE DEF e
      <4>2. /\ Len(active') = Len(active) + 1 /\ active' \in Seq(Effects)
            /\ \A i \in 1 .. Len(active) : i \in 1 .. Len(active') /\ active'[i] = active[i]
            /\ active'[Len(active) + 1] = e /\ Len(active) + 1 \in 1 .. Len(active')
            /\ \A i \in 1 .. Len(active') : i \in 1 .. Len(active) \/ i = Len(active) + 1
        BY <2>3, <4>1, AppendFacts
      <4>3. DOMAIN active = 1 .. Len(active) /\ DOMAIN active' = 1 .. Len(active')
        BY <2>3, <4>2
      <4>4. ToSet(active') = ToSet(active) \cup {e}
        BY <4>2, <4>3 DEF ToSet
      <4> QED
        BY <4>4 DEF e
    <3> QED
      BY <2>1, <3>1 DEF InPlay
  <2>5. Met(InPlay', stale')
    BY <2>1, <2>4, ClashingMet
  <2>6. TreeFits(tree', objs', InPlay', stale')
    BY <1>2, <2>1, <2>4, MoreFits
  <2>7. TreeTypeOK'
    <3>1. Clashing(InPlay \cup {Head(free)}) \subseteq Units
      BY <1>2, <2>3 DEF Clashing, Units
    <3> QED
      BY <1>2, <2>1, <2>2, <3>1 DEF TreeInv, TreeTypeOK, Pooled
  <2> QED
    BY <2>2, <2>5, <2>6, <2>7 DEF TreeInv
<1>11. CASE EffectEnds
  <2>1. PICK k \in DOMAIN active : /\ free' = Append(free, active[k])
                                   /\ active' = RemoveAt(active, k)
                                   /\ tree' = DettachParent(tree, active[k])
    BY <1>11 DEF EffectEnds, BackInPool
  <2>2. UNCHANGED <<objs, ended, over, stale>>
    BY <1>11 DEF EffectEnds
  <2>3. active \in Seq(Effects) /\ k \in 1 .. Len(active)
    <3>1. active \in Seq(Effects)
      BY DEF TreeInv, TreeTypeOK
    <3> QED
      BY <2>1, <3>1
  <2>4. active[k] \in Units /\ active[k] \in InPlay
    BY <1>2, <2>1 DEF InPlay, ToSet
  <2>5. Pooled(free', active')
    BY <1>2, <2>1, <2>3, PoolTakesBack
  <2>6. TreeFits(tree', objs, InPlay, stale) /\ tree'.parent[active[k]] = NoUnit
    BY <1>2, <2>1, <2>4, DettachKeeps
  <2>7. ToSet(active') \subseteq ToSet(active) /\ ToSet(active) \subseteq ToSet(active') \cup {active[k]}
    BY <2>1, <2>3, EndsLeaves
  <2>8. InPlay' \subseteq InPlay /\ InPlay \subseteq InPlay' \cup {active[k]}
    BY <2>2, <2>7 DEF InPlay
  <2>9. \A u \in InPlay : u \notin InPlay' => tree'.parent[u] = NoUnit
    BY <2>6, <2>8
  <2>10. TreeFits(tree', objs', InPlay', stale')
    <3>1. TreeFits(tree', objs, InPlay', stale)
      BY <2>6, <2>9, FewerFit
    <3> QED
      BY <2>2, <3>1
  <2>11. Met(InPlay', stale')
    BY <1>2, <2>2, <2>8 DEF Met
  <2>12. TreeTypeOK'
    BY <2>2, <2>5, <2>6 DEF TreeInv, TreeTypeOK, Pooled, TreeFits
  <2> QED
    BY <2>5, <2>10, <2>11, <2>12 DEF TreeInv
<1> QED
  BY <1>3, <1>4, <1>5, <1>6, <1>7, <1>8, <1>9, <1>10, <1>11 DEF TreeNext, Steps

\* The inductive invariant of units and effects, whoever is attached, moved,
\* destroyed, replaced or spawned in whatever order, and whatever ids the units
\* have (Unit.cpp, AnimationUnit.cpp, EffectManager.cpp:83-139,
\* SceneBase.cpp:168-177).
THEOREM TreeInvAlways == TreeSpec => []TreeInv
  BY TreeInvStarts, TreeInvKept, PTL DEF TreeSpec

LEMMA SoundWhenTreeFits == TreeInv => TreeIsSound
<1> SUFFICES ASSUME TreeInv PROVE TreeIsSound
  OBVIOUS
<1>1. /\ TreeTypeOK /\ Linked(tree, objs, InPlay, stale) /\ BonesFit(tree, stale)
      /\ InPlay \subseteq Units /\ NoUnit \notin Objects
      /\ \A e \in ToSet(free) : e \in Units /\ e \notin InPlay
  BY InPlayFacts, UnitsAssumption DEF TreeInv, TreeFits, Units
<1>2. ParentIsThere
  BY <1>1 DEF Linked, ParentIsThere
<1>3. ParentKnowsChild
  BY <1>1 DEF Linked, ParentKnowsChild
<1>4. BonesAgree
  BY <1>1 DEF BonesFit, BonesAgree
<1>5. EffectsArePooled
  BY PooledIsPooled DEF TreeInv
<1>6. FreeIsUnattached
  <2> SUFFICES ASSUME NEW e \in ToSet(free)
               PROVE  tree.parent[e] = NoUnit /\ \A p \in Objects : e \notin tree.childs[p]
    BY DEF FreeIsUnattached
  <2>1. tree.parent[e] = NoUnit
    BY <1>1 DEF Linked
  <2>2. \A p \in Objects : e \notin tree.childs[p]
    BY <1>1, <2>1 DEF Linked
  <2> QED
    BY <2>1, <2>2
<1> QED
  BY <1>1, <1>2, <1>3, <1>4, <1>5, <1>6 DEF TreeIsSound

\* For any number of objects, effects and bones and whatever ids they have, the
\* pointers from child to parent, the lists of children, the maps of bones and
\* the pool of effects agree and nothing points to a deleted object, but for
\* the units that met their own id or that the clearing of a scene left behind
\* (Unit.cpp:119, :225-289, AnimationUnit.cpp:64-155, EffectManager.cpp:83-139,
\* SceneBase.cpp:168-177).
THEOREM TreeAlwaysSound == TreeSpec => []TreeIsSound
  BY SoundWhenTreeFits, TreeInvAlways, PTL
=============================================================================
