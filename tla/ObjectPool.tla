----------------------------- MODULE ObjectPool -----------------------------
(***************************************************************************)
(* The server's object pool (server/objectpool.cpp, objectpool.h), the     *)
(* natives that drive it (server/scrcustom.cpp) and the calls CPlayerPool  *)
(* and CNetGame make into it.                                              *)
(*                                                                         *)
(* One array of slots is shared by two kinds of objects: GLOBAL ones, seen *)
(* by everybody, and PERSONAL ones, of which each player may own one per   *)
(* slot.  The same small integer names the object on the wire, so a slot   *)
(* used for both kinds at once would make a client confuse two objects.    *)
(*                                                                         *)
(* A slot-state flag and the pointer beside it are always written          *)
(* together, so each pair is one set of occupied slots here.  Models,      *)
(* positions and motion are left out.                                      *)
(***************************************************************************)
EXTENDS Integers, PlayerIds

CONSTANTS MaxObjects,  \* MAX_OBJECTS, the number of object slots
          SlotBound,   \* the bound GetSlotState tests an object id against
          NoPlayer     \* nobody

ASSUME ObjectPoolAssumption ==
    /\ MaxObjects \in Nat
    /\ SlotBound \in Nat
    /\ NoPlayer \notin Players

\* Slot 0 exists but New never hands it out.
ObjectIds == 1 .. (MaxObjects - 1)

VARIABLES objects,        \* m_pObjects: slots that hold a global object
          playerObjects,  \* m_pPlayerObjects[p]: slots that hold p's object
          playersObject,  \* m_bPlayersObject: slots flagged as personal
          connected,      \* occupied slots of the player pool
          joining,        \* the player inside CPlayerPool::New's callbacks
          known           \* known[p]: the objects p's client was told of

objectVars == <<objects, playerObjects, playersObject, connected, joining, known>>

ObjectsTypeOK ==
    /\ objects \in SUBSET ObjectIds
    /\ playerObjects \in [Players -> SUBSET ObjectIds]
    /\ playersObject \in SUBSET ObjectIds
    /\ connected \in SUBSET Players
    /\ joining \in Players \cup {NoPlayer}
    /\ known \in [Players -> SUBSET ObjectIds]

ObjectsInit ==
    /\ objects = {}
    /\ playerObjects = [p \in Players |-> {}]
    /\ playersObject = {}
    /\ connected = {}
    /\ joining = NoPlayer
    /\ known = [p \in Players |-> {}]

-----------------------------------------------------------------------------
(* Helpers of the class. *)

\* A mutant: a bound off by one.
GetSlotState_OffByOne(j) == j < SlotBound - 1 /\ j \in objects

\* GetSlotState compares the object id with MAX_PLAYERS, not MAX_OBJECTS.
GetSlotState(j) == j < SlotBound /\ j \in objects

\* A mutant: the scan runs one too far.
FreeForAll_PastTheEnd == (1 .. MaxObjects) \ (objects \cup playersObject)

\* New takes the first slot that is free of global and of personal objects.
FreeForAll == ObjectIds \ (objects \cup playersObject)

\* New(iPlayer, ...) takes the first slot free of global objects that this
\* player does not use; other players may use it.
FreeForPlayer(p) == ObjectIds \ (objects \cup playerObjects[p])

\* j is the slot a scan from the front finds first in S.
FirstOf(S, j) == j \in S /\ \A k \in S : j =< k

\* A mutant: the flag is cleared although others hold the slot.
FlagsWithout_Eager(p, S) == playersObject \ (S \cap playerObjects[p])

\* The flags left once p no longer holds the slots of S: DeleteForPlayer
\* clears a slot's flag when nobody holds it any more.
FlagsWithout(p, S) ==
    {j \in playersObject :
        j \in S \cap playerObjects[p] =>
            \E q \in Players \ {p} : j \in playerObjects[q]}

-----------------------------------------------------------------------------
(* Natives, callable from any script callback. *)

\* CreateObject: the new object is sent to every occupied player slot.  A full
\* pool answers 0xFF and changes nothing.
CreateObject ==
    /\ \E j \in FreeForAll :
          /\ FirstOf(FreeForAll, j)
          /\ objects' = objects \cup {j}
          /\ playersObject' = playersObject \ {j}
          /\ known' = [p \in Players |->
                          IF p \in connected THEN known[p] \cup {j} ELSE known[p]]
    /\ UNCHANGED <<playerObjects, connected, joining>>

\* DestroyObject: the pointer is tested, Delete tests GetSlotState again and
\* its answer is ignored; every client is told that the object is gone.
DestroyObject(j) ==
    /\ j \in objects
    /\ objects' = IF GetSlotState(j) THEN objects \ {j} ELSE objects
    /\ known' = [p \in Players |-> known[p] \ {j}]
    /\ UNCHANGED <<playerObjects, playersObject, connected, joining>>

CreatePlayerObject(p, j) ==
    /\ p \in connected
    /\ FirstOf(FreeForPlayer(p), j)
    /\ playerObjects' = [playerObjects EXCEPT ![p] = @ \cup {j}]
    /\ playersObject' = playersObject \cup {j}
    /\ known' = [known EXCEPT ![p] = @ \cup {j}]
    /\ UNCHANGED <<objects, connected, joining>>

DestroyPlayerObject(p, j) ==
    /\ p \in connected
    /\ j \in playerObjects[p] /\ j \in playersObject
    /\ playerObjects' = [playerObjects EXCEPT ![p] = @ \ {j}]
    /\ playersObject' = FlagsWithout(p, {j})
    /\ known' = [known EXCEPT ![p] = @ \ {j}]
    /\ UNCHANGED <<objects, connected, joining>>

-----------------------------------------------------------------------------
(* The player pool and the game. *)

\* CPlayerPool::New marks the slot and runs the scripts' OnPlayerConnect,
\* which may call any native before ...
Connect(p) ==
    /\ joining = NoPlayer /\ p \notin connected
    /\ connected' = connected \cup {p}
    /\ joining' = p
    /\ UNCHANGED <<objects, playerObjects, playersObject, known>>

\* ... ProcessClientJoin calls InitForPlayer, which sends the global objects
\* GetSlotState admits.
InitForPlayer ==
    /\ joining # NoPlayer
    /\ known' = [known EXCEPT
                    ![joining] = @ \cup {j \in objects : GetSlotState(j)}]
    /\ joining' = NoPlayer
    /\ UNCHANGED <<objects, playerObjects, playersObject, connected>>

\* CPlayerPool::Delete: the slot is freed, then every personal object of the
\* player goes through DeleteForPlayer.
ObjectsDisconnect(p) ==
    /\ joining = NoPlayer /\ p \in connected
    /\ connected' = connected \ {p}
    /\ playerObjects' = [playerObjects EXCEPT ![p] = @ \ playersObject]
    /\ playersObject' = FlagsWithout(p, playersObject)
    /\ known' = [known EXCEPT ![p] = {}]
    /\ UNCHANGED <<objects, joining>>

\* ShutdownForGameModeRestart deletes the pool and the clients drop theirs;
\* ReInitWhenRestarting makes an empty one.  What happens in between is the
\* subject of module NetGame.
ObjectsRestart ==
    /\ joining = NoPlayer
    /\ objects' = {} /\ playersObject' = {}
    /\ playerObjects' = [p \in Players |-> {}]
    /\ known' = [p \in Players |-> {}]
    /\ UNCHANGED <<connected, joining>>

ObjectsNext ==
    \/ CreateObject
    \/ \E j \in ObjectIds : DestroyObject(j)
    \/ \E p \in Players, j \in ObjectIds : CreatePlayerObject(p, j)
    \/ \E p \in Players, j \in ObjectIds : DestroyPlayerObject(p, j)
    \/ \E p \in Players : Connect(p)
    \/ InitForPlayer
    \/ \E p \in Players : ObjectsDisconnect(p)
    \/ ObjectsRestart

ObjectsSpec == ObjectsInit /\ [][ObjectsNext]_objectVars

-----------------------------------------------------------------------------
(* Properties. *)

\* A slot is flagged as personal exactly while some player holds it: the flag
\* is what keeps New from handing the slot out as a global object, and what
\* DeleteForPlayer needs in order to free anything (objectpool.cpp 51-54, 165,
\* 175-179).
FlagMeansHeld ==
    \A j \in ObjectIds :
        j \in playersObject <=> \E p \in Players : j \in playerObjects[p]

\* No id names a global and a personal object at once, whatever the order in
\* which scripts create and destroy both kinds while players come and go.
NeverBothKinds ==
    \A p \in Players : objects \cap playerObjects[p] = {}

\* Personal objects do not outlive their owner's connection: the next player
\* in that slot starts with none (CPlayerPool::Delete, playerpool.cpp 141-146).
NoOrphans ==
    \A p \in Players : playerObjects[p] # {} => p \in connected

\* An object has one owner, a player who is there or everybody, however creations,
\* destructions, joins and departures are mixed.
SlotsHaveOneOwner == NeverBothKinds /\ NoOrphans

\* What a fully joined client was told agrees with the pool, for the ids below
\* the bound that GetSlotState uses.
ClientsMirrorBelowBound ==
    \A p \in connected \ {joining}, j \in ObjectIds :
        j < SlotBound =>
            (j \in known[p] <=> j \in objects \cup playerObjects[p])

=============================================================================
