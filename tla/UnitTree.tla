------------------------------ MODULE UnitTree ------------------------------
(***************************************************************************)
(* Unit, AnimationUnit and EffectManager: which unit hangs on which, and   *)
(* the pool of effects.  A child knows its parent by a bare pointer and a  *)
(* parent its children by their ids; the objects belong to ObjectManager,  *)
(* the effects to the pool.  An animated object also keeps the bone each   *)
(* child is attached to, in two maps.                                      *)
(*                                                                         *)
(* The units that get children are objects.                                *)
(***************************************************************************)
EXTENDS Naturals, Sequences, SequencesExt

CONSTANTS
    Objects,    \* the objects a scene creates
    Animated,   \* those that are AnimationUnits
    Effects,    \* the pool
    Bones,      \* bone indices
    Id,         \* m_id of each unit; objects count from 1, the pool from 100
    NoUnit      \* the null pointer

Units == Objects \cup Effects

ASSUME UnitsAssumption ==
    /\ Animated \subseteq Objects
    /\ Objects \cap Effects = {}
    /\ NoUnit \notin Units
    /\ Id \in [Units -> Nat]
    /\ IsFiniteSet(Effects)

VARIABLES
    objs,     \* m_objs: the objects there are
    ended,    \* objects that were deleted
    free,     \* EffectManager::m_free
    active,   \* EffectManager::m_active
    over,     \* SceneBase::OnDestroy was called: nobody looks at the effects again
    tree,     \* parent: m_Parent, childs: m_Childs, idx: m_ChildToIdx, bones: m_BoneChilds
    stale     \* history: the units the code may leave with a stale pointer

poolVars == <<free, active>>
treeVars == <<objs, ended, poolVars, over, tree, stale>>

Tree ==
    [parent : [Units -> Units \cup {NoUnit}],
     childs : [Objects -> SUBSET Units],
     idx : [Animated -> SUBSET (Units \X Bones)],
     bones : [Animated -> [Bones -> SUBSET Units]]]

TreeTypeOK ==
    /\ objs \subseteq Objects /\ ended \subseteq Objects \ objs
    /\ free \in Seq(Effects) /\ active \in Seq(Effects)
    /\ over \in BOOLEAN
    /\ tree \in Tree
    /\ stale \subseteq Units

TreeInit ==
    /\ objs = {} /\ ended = {}
    /\ free = SetToSeq(Effects) /\ active = <<>> /\ over = FALSE /\ stale = {}
    /\ tree = [parent |-> [u \in Units |-> NoUnit],
               childs |-> [p \in Objects |-> {}],
               idx |-> [p \in Animated |-> {}],
               bones |-> [p \in Animated |-> [b \in Bones |-> {}]]]

-----------------------------------------------------------------------------
(* Operations on the tree.                                                 *)

\* The children p finds under an id: at most one, for m_Childs is a map.
Under(t, p, id) == {c \in t.childs[p] : Id[c] = id}

\* AnimationUnit::DettachChild takes the child off its bone.
OffBone(t, p, cs) ==
    [t EXCEPT !.idx[p] = {x \in @ : x[1] \notin cs},
              !.bones[p] = [b \in Bones |-> {c \in @[b] : <<c, b>> \notin t.idx[p] \/ c \notin cs}]]

\* AnimationUnit's version leaves the child's m_Parent to its caller.
DettachChild(t, p, id) ==
    LET cs == Under(t, p, id)
        t2 == IF p \in Animated THEN OffBone(t, p, cs)
              ELSE [t EXCEPT !.parent = [u \in Units |-> IF u \in cs THEN NoUnit ELSE @[u]]]
    IN  [t2 EXCEPT !.childs[p] = @ \ cs]

DettachParent(t, c) ==
    IF t.parent[c] = NoUnit THEN t
    ELSE [DettachChild(t, t.parent[c], Id[c]) EXCEPT !.parent[c] = NoUnit]

\* insert leaves a child with the same id in its place.
Attach(t, p, c) ==
    LET t2 == DettachParent(t, c)
    IN  [t2 EXCEPT !.parent[c] = p,
                   !.childs[p] = IF Under(t2, p, Id[c]) = {} THEN @ \cup {c} ELSE @]

AttachChildBone(t, p, c, b) ==
    LET t2 == Attach(t, p, c)
        before == {x \in t2.idx[p] : x[1] = c}
    IN  [t2 EXCEPT !.idx[p] = (@ \ before) \cup {<<c, b>>},
                   !.bones[p] = [a \in Bones |-> IF a = b THEN @[a] \cup {c}
                                                 ELSE IF <<c, a>> \in before THEN @[a] \ {c}
                                                 ELSE @[a]]]

\* Each child calls its DettachParent.
ClearChild(t, p) ==
    LET t2 == [t EXCEPT !.parent = [u \in Units |-> IF u \in t.childs[p] THEN NoUnit ELSE @[u]],
                        !.childs[p] = {}]
    IN  IF p \in Animated
        THEN [t2 EXCEPT !.idx[p] = {}, !.bones[p] = [b \in Bones |-> {}]]
        ELSE t2

\* What belonged to deleted objects is gone with them.
Deleted(t, S) ==
    [parent |-> [u \in Units |-> IF u \in S THEN NoUnit ELSE t.parent[u]],
     childs |-> [p \in Objects |-> IF p \in S THEN {} ELSE t.childs[p]],
     idx |-> [p \in Animated |-> IF p \in S THEN {} ELSE t.idx[p]],
     bones |-> [p \in Animated |-> IF p \in S THEN [b \in Bones |-> {}] ELSE t.bones[p]]]

-----------------------------------------------------------------------------
(* The scene.  An id is unique neither among objects and effects, from the *)
(* hundredth object of a scene on, nor does Clear tell the effects that    *)
(* hang on an object.  The units concerned are in stale from then on.      *)

InPlay == objs \cup ToSet(active)

\* Those of the units S that have met another with their id.
Clashing(S) == {u \in S : \E w \in S \ {u} : Id[w] = Id[u]}

\* m_Parent of u may be followed.  What the code does with a pointer to a
\* deleted parent is undefined: there is no next state.
MayFollow(u) == tree.parent[u] \in objs \cup {NoUnit}

CreateObject ==
    /\ \E o \in Objects \ (objs \cup ended) :
           /\ objs' = objs \cup {o}
           /\ stale' = stale \cup Clashing(InPlay \cup {o})
    /\ UNCHANGED <<ended, poolVars, tree, over>>

\* Game code puts one unit under another.
AttachUnit ==
    /\ \E p \in objs : \E c \in InPlay \ {p} :
           MayFollow(c) /\ tree' = Attach(tree, p, c)
    /\ UNCHANGED <<objs, ended, poolVars, over, stale>>

AttachUnitToBone ==
    /\ \E p \in objs \cap Animated, b \in Bones : \E c \in InPlay \ {p} :
           MayFollow(c) /\ tree' = AttachChildBone(tree, p, c, b)
    /\ UNCHANGED <<objs, ended, poolVars, over, stale>>

DettachUnit ==
    /\ \E c \in InPlay : MayFollow(c) /\ tree' = DettachParent(tree, c)
    /\ UNCHANGED <<objs, ended, poolVars, over, stale>>

\* One object of m_pendingDestoryQ.
ProcessPending ==
    /\ \E o \in objs :
           /\ MayFollow(o)
           /\ objs' = objs \ {o} /\ ended' = ended \cup {o}
           /\ tree' = Deleted(ClearChild(DettachParent(tree, o), o), {o})
    /\ UNCHANGED <<poolVars, over, stale>>

Orphans == {e \in ToSet(active) : tree.parent[e] # NoUnit}

\* ObjectManager::Clear deletes the objects as they are; an effect that hangs
\* on one keeps its pointer.
Clear ==
    /\ ended' = ended \cup objs
    /\ tree' = Deleted(tree, objs)
    /\ UNCHANGED poolVars

SceneEnds ==
    /\ Clear
    /\ objs' = {} /\ over' = TRUE
    /\ stale' = stale \cup Orphans

\* With replaceObjects: the objects of the file take the place of those there
\* were, and the scene, its effects among it, goes on.  The search for a free
\* name reads the names of deleted objects in m_objMap; this is the outcome in
\* which it comes through.
OverlaySceneFromFile ==
    /\ Clear
    /\ objs' \in SUBSET (Objects \ (objs \cup ended))
    /\ stale' = stale \cup Orphans \cup Clashing(objs' \cup ToSet(active))
    /\ UNCHANGED over

Spawn ==
    /\ free # <<>>
    /\ free' = Tail(free) /\ active' = Append(active, Head(free))
    /\ stale' = stale \cup Clashing(InPlay \cup {Head(free)})
    /\ UNCHANGED <<objs, ended, tree, over>>

\* Variant (TreeIsSound): the effect goes back as it is.
BackAsItIs(e) == tree

BackInPool(e) == DettachParent(tree, e)

\* One effect of EffectManager::Update whose time is over.
EffectEnds ==
    /\ \E i \in DOMAIN active :
           /\ MayFollow(active[i])
           /\ free' = Append(free, active[i])
           /\ active' = RemoveAt(active, i)
           /\ tree' = BackInPool(active[i])
    /\ UNCHANGED <<objs, ended, over, stale>>

Steps ==
    \/ CreateObject \/ AttachUnit \/ AttachUnitToBone \/ DettachUnit
    \/ ProcessPending \/ OverlaySceneFromFile \/ Spawn \/ EffectEnds

TreeNext == ~over /\ (Steps \/ SceneEnds)

TreeSpec == TreeInit /\ [][TreeNext]_treeVars

-----------------------------------------------------------------------------
(* Properties.                                                             *)

\* A unit in play computes its place from a parent that is there ...
ParentIsThere == \A u \in InPlay \ stale : tree.parent[u] \in objs \cup {NoUnit}

\* ... and that knows of it, as every child does of its parent.
ParentKnowsChild ==
    /\ \A p \in Objects : \A u \in tree.childs[p] : tree.parent[u] = p
    /\ \A u \in Units \ stale :
           tree.parent[u] # NoUnit => u \in tree.childs[tree.parent[u]]

\* The two maps of an animated object agree, and only its children are on its
\* bones.
BonesAgree ==
    \A p \in Animated :
        /\ \A c \in Units, b \in Bones : <<c, b>> \in tree.idx[p] <=> c \in tree.bones[p][b]
        /\ \A x \in tree.idx[p] : x[1] \in tree.childs[p] \cup stale
        /\ \A x, y \in tree.idx[p] : x[1] = y[1] => x = y

\* Every effect is either free or active, and once.
EffectsArePooled ==
    /\ IsInjective(free \o active)
    /\ ToSet(free \o active) = Effects

\* An effect is handed out without a parent: nothing of its last use shows.
FreeIsUnattached ==
    \A e \in ToSet(free) :
        tree.parent[e] = NoUnit /\ \A p \in Objects : e \notin tree.childs[p]

\* The bare pointers from child to parent, the lists of children and the two
\* maps of bones agree wherever units are moved and in whatever order they are
\* destroyed, and no pointer leads to a deleted parent or from a pooled effect.
\* It does so for every unit but two kinds: one that met another with its own
\* id, and an effect whose parent OverlaySceneFromFile or OnDestroy cleared
\* (Unit.cpp:119, :225-289, AnimationUnit.cpp:64-155, EffectManager.cpp:22,
\* :83-139, SceneBase.cpp:168-177).
TreeIsSound ==
    /\ TreeTypeOK
    /\ ParentIsThere
    /\ ParentKnowsChild
    /\ BonesAgree
    /\ EffectsArePooled
    /\ FreeIsUnattached
=============================================================================
