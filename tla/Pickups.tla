------------------------------- MODULE Pickups -------------------------------
(***************************************************************************)
(* The server's pickups (server/pickuppool.cpp, server/scrcustom.cpp) and  *)
(* the pool that shows them at each client (client/net/pickuppool.cpp).    *)
(*                                                                         *)
(* The client counts the pickups it was sent.  A pickup sent to it twice   *)
(* takes the place of the first but is counted again, and a client that    *)
(* counts a full pool refuses more.  Everything is sent twice to a player  *)
(* who is there when a game mode starts, or for whom scripts make pickups  *)
(* before his handler sends him the pool.  A Destroy that overtakes the    *)
(* New is ignored, and the pickup stays.  Models and places are left out.  *)
(***************************************************************************)
EXTENDS Arrivals

CONSTANTS MaxPickups,    \* MAX_PICKUPS
          ScriptIds      \* the ids scripts use for pickups of single players

ASSUME PickupsAssumption ==
    /\ MaxPickups \in Nat
    /\ ScriptIds \subseteq 0 .. (MaxPickups - 1)

Ids == 0 .. (MaxPickups - 1)

VARIABLES pickups,       \* m_bActive, where it is 1: DestroyPickup may remove them
          static,        \* m_bActive, where New stored -1
          handles,       \* client: the slots with a pickup of the game (m_dwHnd)
          count          \* client: m_iPickupCount

pickupVars == <<pickups, static, handles, count>>

PickupsTypeOK ==
    /\ pickups \subseteq Ids /\ static \subseteq Ids
    /\ handles \in [Players -> SUBSET Ids]
    /\ count \in [Players -> 0 .. MaxPickups]

PickupsInit ==
    /\ pickups = {} /\ static = {}
    /\ handles = [p \in Players |-> {}]
    /\ count = [p \in Players |-> 0]

Active == pickups \cup static

\* RPC_Pickup and RPC_DestroyPickup.
ShowPickup(i) == [pool |-> "pickups", id |-> i, say |-> "show"]
HidePickup(i) == [pool |-> "pickups", id |-> i, say |-> "hide"]
PickupMessages == {ShowPickup(i) : i \in Ids} \cup {HidePickup(i) : i \in Ids}

-----------------------------------------------------------------------------
(* The client's pool. *)

\* A mutant: one too many before the pool counts as full.
NewPickup_OneMore(p, i) ==
    IF count[p] =< MaxPickups
    THEN /\ handles' = [handles EXCEPT ![p] = @ \cup {i}]
         /\ count' = [count EXCEPT ![p] = @ + 1]
    ELSE UNCHANGED <<handles, count>>

\* CPickupPool::New takes a pickup unless it counts as many as it has slots.
NewPickup(p, i) ==
    IF count[p] < MaxPickups
    THEN /\ handles' = [handles EXCEPT ![p] = @ \cup {i}]
         /\ count' = [count EXCEPT ![p] = @ + 1]
    ELSE UNCHANGED <<handles, count>>

\* CPickupPool::Destroy removes a pickup that is there unless it counts none.
RemovePickup(p, i) ==
    IF count[p] > 0 /\ i \in handles[p]
    THEN /\ handles' = [handles EXCEPT ![p] = @ \ {i}]
         /\ count' = [count EXCEPT ![p] = @ - 1]
    ELSE UNCHANGED <<handles, count>>

\* RPC_Pickup or RPC_DestroyPickup arrives.
ReceivePickup(p, m) ==
    /\ \E i \in Ids : \/ m = ShowPickup(i) /\ NewPickup(p, i)
                      \/ m = HidePickup(i) /\ RemovePickup(p, i)
    /\ UNCHANGED <<pickups, static>>

\* The client makes a new pool when RPC_GameModeRestart arrives, or its connection ends.
ResetPickupPool(p) ==
    /\ handles' = [handles EXCEPT ![p] = {}]
    /\ count' = [count EXCEPT ![p] = 0]
    /\ UNCHANGED <<pickups, static>>

-----------------------------------------------------------------------------
(* Natives. *)

\* CPickupPool::New takes the first free slot and tells every client.  Scripts keep the
\* ids of their own pickups out of the pool's reach.
CreatePickup(i) ==
    /\ up
    /\ i \in Ids \ (Active \cup ScriptIds) /\ \A j \in 0 .. (i - 1) : j \in Active
    /\ \/ pickups' = pickups \cup {i} /\ UNCHANGED static
       \/ static' = static \cup {i} /\ UNCHANGED pickups
    /\ Send(online, {ShowPickup(i)})
    /\ UNCHANGED <<handles, count>>

\* CPickupPool::Destroy; static pickups, whose m_bActive is not 1, stay.
DestroyPickup(i) ==
    /\ up /\ i \in pickups
    /\ pickups' = pickups \ {i}
    /\ Send(online, {HidePickup(i)})
    /\ UNCHANGED <<static, handles, count>>

\* Destroy is called for every slot.
DestroyAllPickups ==
    /\ up /\ pickups # {}
    /\ pickups' = {}
    /\ Send(online, {HidePickup(i) : i \in pickups})
    /\ UNCHANGED <<static, handles, count>>

\* The script chooses the id, and the pool does not hear of it.
CreatePlayerPickup(p, i) ==
    /\ p \in slots /\ i \in ScriptIds
    /\ Send({p}, {ShowPickup(i)})
    /\ UNCHANGED pickupVars

DestroyPlayerPickup(p, i) ==
    /\ p \in slots /\ i \in ScriptIds
    /\ Send({p}, {HidePickup(i)})
    /\ UNCHANGED pickupVars

PickupNative ==
    \/ \E i \in Ids : CreatePickup(i) \/ DestroyPickup(i)
    \/ DestroyAllPickups
    \/ \E p \in Players, i \in ScriptIds : CreatePlayerPickup(p, i) \/ DestroyPlayerPickup(p, i)

-----------------------------------------------------------------------------
(* What the steps of Arrivals do to the pickups. *)

\* The pool is deleted.
PickupsShutDown == pickups' = {} /\ static' = {} /\ UNCHANGED <<handles, count>>

\* A mutant: what cannot be destroyed is not sent.
PickupsInitForPlayer_Dynamic(p) ==
    Send({p}, {ShowPickup(i) : i \in pickups}) /\ UNCHANGED pickupVars

\* CPickupPool::InitForPlayer sends everything.
PickupsInitForPlayer(p) ==
    Send({p}, {ShowPickup(i) : i \in Active}) /\ UNCHANGED pickupVars

-----------------------------------------------------------------------------
(* Properties. *)

\* When all that was sent to a client about an id of the pool has arrived, and nothing of
\* it could be overtaken, the client shows no pickup there that is gone, whatever was
\* refused, sent twice, destroyed or restarted; and if it counts what it shows, it shows
\* the pickup that is there.  A client that counts more was sent pickups twice, and may
\* miss some; one at which a Destroy or a restart overtook a New shows for ever, or
\* misses, a pickup: "give them all the existing pickups" (server/netgame.cpp 1205) holds
\* for the others only.  The next message about the id that travels alone repairs it.
ClientsShowPickups ==
    \A p \in online, i \in Ids \ ScriptIds :
        Settled(p, <<"pickups", i>>) =>
            /\ i \in handles[p] => i \in Active
            /\ (/\ p \in slots \ pending /\ i \in Active
                /\ count[p] = Cardinality(handles[p])) => i \in handles[p]
=============================================================================
