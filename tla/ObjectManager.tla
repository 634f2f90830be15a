---------------------------- MODULE ObjectManager ----------------------------
(***************************************************************************)
(* ObjectManager: the units of a scene, the two maps they are found with,  *)
(* and the queues in which creations and destructions wait for the end of  *)
(* the frame.  A unit is known by its id and its name.                     *)
(*                                                                         *)
(* A name is a sequence of digits, those that follow "Player_", say.       *)
(* Another name contains it if it begins with it.                          *)
(*                                                                         *)
(* Only what a scene of the game calls: no unit asks for an id of its own  *)
(* and none is destroyed by name.  Overlays and scene files are left out.  *)
(***************************************************************************)
EXTENDS Naturals, Sequences, SequencesExt, FiniteSets

CONSTANTS
    MaxID      \* bound: no id above it is given out

ASSUME MaxIDAssumption == MaxID \in Nat \ {0}

VARIABLES
    objs,        \* m_objs
    objMap,      \* m_objMap: the units in it
    nameToID,    \* m_nameToID: [name, id]
    createQ,     \* m_pendingCreateQ
    destroyQ,    \* m_pendingDestoryQ: ids, in no order, for none depends on another
    nextID       \* m_objectIDs

mapVars == <<objs, objMap, nameToID>>
managerVars == <<mapVars, createQ, destroyQ, nextID>>

Unit == [id : Nat \ {0}, name : Seq(0 .. 9)]

ManagerTypeOK ==
    /\ objs \subseteq Unit /\ objMap \subseteq Unit
    /\ nameToID \subseteq [name : Seq(0 .. 9), id : Nat \ {0}]
    /\ createQ \in Seq(Unit)
    /\ destroyQ \subseteq 1 .. MaxID
    /\ nextID \in 1 .. MaxID + 1

Pending == ToSet(createQ)
Ids(S) == {u.id : u \in S}

-----------------------------------------------------------------------------

IsObjectIDTaken(id) == id = 0 \/ id \in Ids(objMap) \/ id \in Ids(Pending)

\* The next id nobody has.
FreeID == CHOOSE id \in nextID .. MaxID + 1 :
              ~IsObjectIDTaken(id) /\ \A n \in nextID .. id - 1 : IsObjectIDTaken(n)

\* std::to_wstring, of a number below 10000.
Digits(n) ==
    LET all == <<n \div 1000, (n \div 100) % 10, (n \div 10) % 10, n % 10>>
        first == CHOOSE i \in 1 .. 4 : (i = 4 \/ all[i] # 0) /\ \A j \in 1 .. i - 1 : all[j] = 0
    IN  SubSeq(all, first, 4)

CheckDedicateObjectName(name) ==
    LET inQueue == {i \in DOMAIN createQ : IsPrefix(name, createQ[i].name)}
        inMap == {u \in objMap : IsPrefix(name, u.name)}
        count == Cardinality(inQueue) + Cardinality(inMap)
    IN  IF count = 0 THEN name ELSE name \o Digits(count)

NewUnit(name) == [id |-> FreeID, name |-> CheckDedicateObjectName(name)]

CreateObject(name) ==
    /\ createQ' = Append(createQ, NewUnit(name))
    /\ nextID' = FreeID + 1
    /\ UNCHANGED <<mapVars, destroyQ>>

\* What DestroyObject lets into its queue: not what still waits to be created.
Destroyed(ids) == ids \cap Ids(objMap)

\* emplace leaves what is there, under the name and in the map.
NewNames ==
    {i \in DOMAIN createQ :
        /\ \A n \in nameToID : n.name # createQ[i].name
        /\ \A j \in 1 .. i - 1 : createQ[j].name # createQ[i].name}

NamesWithNew == nameToID \cup {[name |-> createQ[i].name, id |-> createQ[i].id] : i \in NewNames}

NamesWithout(gone) == {n \in NamesWithNew : \A u \in gone : u.name # n.name}

MapWithout(gone) == (objMap \cup Pending) \ gone

ProcessPending ==
    LET gone == {u \in objs \cup Pending : u.id \in destroyQ}
    IN  /\ objs' = (objs \cup Pending) \ gone
        /\ objMap' = MapWithout(gone)
        /\ nameToID' = NamesWithout(gone)
        /\ createQ' = <<>> /\ destroyQ' = {}
        /\ UNCHANGED nextID

\* The map itself is left as it is: it leads to units that are deleted.
Clear ==
    /\ objs' = {} /\ nameToID' = {}
    /\ createQ' = <<>> /\ destroyQ' = {}
    /\ nextID' = 1
    /\ UNCHANGED objMap

-----------------------------------------------------------------------------
(* What a scene may rely on.                                               *)

\* No two units share an id, though others wait to be created.
IdsUnique ==
    /\ \A u, v \in objs \cup Pending : u.id = v.id => u = v
    /\ \A i, j \in DOMAIN createQ : createQ[i].id = createQ[j].id => i = j
    /\ objs \cap Pending = {}

\* What is found under an id is a unit of the scene, and every unit is found.
MapIsExact == objMap = objs

\* What is found under a name is a unit of that name.
NamesAreLive == \A n \in nameToID : \E u \in objs : u.id = n.id /\ u.name = n.name

\* Each destruction finds its unit in the map: the code reads the name through
\* the map before it looks.
DestructionsFindTheirs == destroyQ \subseteq Ids(objMap)
=============================================================================
