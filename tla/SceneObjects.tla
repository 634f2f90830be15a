----------------------------- MODULE SceneObjects -----------------------------
(***************************************************************************)
(* TestScene on top of ObjectManager: a unit for every player of the last  *)
(* snapshot, and the terrain.  The scene looks a player's unit up in a map *)
(* of its own and keeps a bare pointer to it.  Update consumes a snapshot  *)
(* and SubmitObj lets the manager process its queues; the main loop calls  *)
(* them in turn.                                                           *)
(***************************************************************************)
EXTENDS ObjectManager

CONSTANTS
    Entities,    \* the digits of entity ids
    MaxPlayers,  \* options.maxSessions of the server (YunoServerNetwork.cpp:116)
    Frames       \* bound: snapshots the scene consumes

ASSUME EntitiesAssumption ==
    /\ \A e \in Entities : e \in Seq(0 .. 9) /\ e # <<>> /\ e[1] # 0
    /\ IsFiniteSet(Entities)

\* With the server's 2048 no number after a name gets a fifth digit.
ASSUME PlayersAssumption == MaxPlayers \in Nat /\ 2 * MaxPlayers + 1 < 10000
ASSUME FramesAssumption == Frames \in Nat

VARIABLES
    phase,       \* where the frame is: before Update, in it, or before SubmitObj
    snapshot,    \* the entities of the snapshot Update works on
    todo,        \* those it has not come to
    visuals,     \* m_playerVisuals: [entity, unit]
    frames       \* snapshots consumed

sceneVars == <<phase, snapshot, todo, visuals, frames>>
objectVars == <<managerVars, sceneVars>>

\* Its name contains no player's and is contained in none.
Terrain == [id |-> 1, name |-> <<0>>]

SceneTypeOK ==
    /\ ManagerTypeOK
    /\ phase \in {"idle", "update", "submit", "off"}
    /\ snapshot \subseteq Entities /\ todo \subseteq snapshot
    /\ visuals \subseteq [entity : Entities, unit : Unit]
    /\ frames \in 0 .. Frames

\* OnCreateScene has run; the terrain waits for the first SubmitObj, or has
\* been created if there is a scene file.
SceneInit ==
    /\ nextID = 2 /\ destroyQ = {}
    /\ \/ objs = {} /\ objMap = {} /\ nameToID = {} /\ createQ = <<Terrain>>
       \/ /\ objs = {Terrain} /\ objMap = {Terrain}
          /\ nameToID = {[name |-> Terrain.name, id |-> Terrain.id]}
          /\ createQ = <<>>
    /\ phase = "idle" /\ snapshot = {} /\ todo = {} /\ visuals = {}
    /\ frames = 0

Shown == {v.entity : v \in visuals}

-----------------------------------------------------------------------------

\* The network thread has published a snapshot since the last frame, ...
ConsumeWorldSnapshot ==
    /\ phase = "idle" /\ frames < Frames
    /\ \E S \in SUBSET Entities :
           /\ Cardinality(S) <= MaxPlayers
           /\ nextID + Cardinality(S) <= MaxID + 1
           /\ snapshot' = S /\ todo' = S
    /\ phase' = "update"
    /\ frames' = frames + 1
    /\ UNCHANGED <<managerVars, visuals>>

\* ... or not.
UpdateWithoutSnapshot ==
    /\ phase = "idle"
    /\ phase' = "submit"
    /\ UNCHANGED <<managerVars, snapshot, todo, visuals, frames>>

NotShown(entity) == entity \notin Shown

\* The entities of a snapshot come in any order.
EnsurePlayerVisual ==
    /\ phase = "update"
    /\ \E entity \in todo :
           /\ todo' = todo \ {entity}
           /\ IF NotShown(entity)
              THEN /\ CreateObject(entity)
                   /\ visuals' = visuals \cup {[entity |-> entity, unit |-> NewUnit(entity)]}
              ELSE UNCHANGED <<managerVars, visuals>>
    /\ UNCHANGED <<phase, snapshot, frames>>

\* Variant (SceneIsSound): the scene keeps a pointer to a unit it destroys.
VisualsKept(missing) == visuals

VisualsWithout(missing) == visuals \ missing

\* The units of players that are not in the snapshot are destroyed.
RemoveMissing ==
    /\ phase = "update" /\ todo = {}
    /\ LET missing == {v \in visuals : v.entity \notin snapshot}
       IN  /\ destroyQ' = destroyQ \cup Destroyed({v.unit.id : v \in missing})
           /\ visuals' = VisualsWithout(missing)
    /\ phase' = "submit"
    /\ UNCHANGED <<mapVars, createQ, nextID, snapshot, todo, frames>>

SubmitObj ==
    /\ phase = "submit"
    /\ ProcessPending
    /\ phase' = "idle"
    /\ UNCHANGED <<snapshot, todo, visuals, frames>>

\* Variant (ScreenMatchesSnapshot): a scene that is covered is not drawn.
SubmitOrNot ==
    \/ SubmitObj
    \/ phase = "submit" /\ phase' = "idle" /\ UNCHANGED <<managerVars, snapshot, todo, visuals, frames>>

\* The one scene of the game is always drawn.
DrawFrame == SubmitObj

OnDestroy ==
    /\ phase = "idle"
    /\ Clear
    /\ visuals' = {}
    /\ phase' = "off"
    /\ UNCHANGED <<snapshot, todo, frames>>

SceneNext ==
    \/ ConsumeWorldSnapshot \/ UpdateWithoutSnapshot
    \/ EnsurePlayerVisual \/ RemoveMissing \/ DrawFrame
    \/ OnDestroy

SceneSpec == SceneInit /\ [][SceneNext]_objectVars

-----------------------------------------------------------------------------
(* Properties.                                                             *)

\* A pointer the scene keeps leads to a unit that is there or about to be, and
\* that nobody destroys.
VisualsAreThere ==
    \A v \in visuals : v.unit \in objs \cup Pending /\ v.unit.id \notin destroyQ

\* A player has one unit and a unit is one player's, whatever name it got.
OneUnitEach ==
    /\ \A v, w \in visuals : v.entity = w.entity \/ v.unit = w.unit => v = w
    /\ \A u \in objs \cup Pending :
         u # Terrain /\ u.id \notin destroyQ => \E v \in visuals : v.unit = u

\* Scene and manager agree in the middle of a frame, too, while creations and
\* destructions wait in its queues: ids and maps are exact, destructions find
\* their units, and none of the bare pointers the scene keeps from frame to
\* frame is left dangling (TestScene.cpp:86-94, :142, ObjectManager.cpp:179-256,
\* :370-401).
SceneIsSound ==
    /\ SceneTypeOK
    /\ IdsUnique
    /\ MapIsExact \/ phase = "off"
    /\ NamesAreLive
    /\ DestructionsFindTheirs
    /\ VisualsAreThere
    /\ OneUnitEach

\* Between frames the scene shows who was in the last snapshot and nobody else.
\* The manager ignores the destruction of a unit that still waits to be created:
\* a player that came and went between two calls of SubmitObj would leave its
\* unit behind (TestScene.cpp:58-98, ObjectManager.cpp:246).
ScreenMatchesSnapshot ==
    phase = "idle" => /\ Shown = snapshot
                      /\ objs \cup Pending = {Terrain} \cup {v.unit : v \in visuals}
=============================================================================
