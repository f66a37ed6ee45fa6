---------------------------- MODULE PlayerSlots ----------------------------
(***************************************************************************)
(* What the scripts of the server are told of who is there: OnPlayerConnect*)
(* and OnPlayerDisconnect with a player id, from CPlayerPool::New and      *)
(* CPlayerPool::Delete (server/playerpool.cpp).  An id is given to one     *)
(* client at a time, a client gets one id once, and a client that went     *)
(* away does not keep its id.  RakPeer implements it.                      *)
(***************************************************************************)
CONSTANTS Index,         \* player ids
          Addr,          \* clients; every connection attempt is a new one
          Nobody         \* not a client

VARIABLES occupant,      \* who has which id
          been,          \* the clients that have had an id
          away           \* the clients that went away

vars == <<occupant, been, away>>

Init == occupant = [i \in Index |-> Nobody] /\ been = {} /\ away = {}

Connect(i, a) ==
    /\ occupant[i] = Nobody
    /\ a \notin been
    /\ occupant' = [occupant EXCEPT ![i] = a]
    /\ been' = been \cup {a}
    /\ UNCHANGED away

Disconnect(i) ==
    /\ occupant[i] # Nobody
    /\ occupant' = [occupant EXCEPT ![i] = Nobody]
    /\ UNCHANGED <<been, away>>

GoAway(a) == away' = away \cup {a} /\ UNCHANGED <<occupant, been>>

Next == \/ \E i \in Index : Disconnect(i) \/ \E a \in Addr : Connect(i, a)
        \/ \E a \in Addr : GoAway(a)

Spec ==
    /\ Init /\ [][Next]_vars
    /\ \A i \in Index : WF_vars(occupant[i] \in away /\ Disconnect(i))
=============================================================================
