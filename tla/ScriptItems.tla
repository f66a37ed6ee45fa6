----------------------------- MODULE ScriptItems -----------------------------
(***************************************************************************)
(* Pickups and text draws together: the same joins, departures and         *)
(* restarts (server/netgame.cpp, server/playerpool.cpp) act on both pools, *)
(* at the server and at every client.  Scripts call natives between the    *)
(* packets and in the callbacks of the handlers.                           *)
(***************************************************************************)
EXTENDS Pickups, TextDraws

vars == <<arrivalVars, pickupVars, textVars>>

TypeOK ==
    /\ ArrivalsTypeOK /\ PickupsTypeOK /\ TextDrawsTypeOK
    /\ \A p \in Players : OnWay(p) \subseteq PickupMessages \cup TextMessages \cup {Restart}

Init == ArrivalsInit /\ PickupsInit /\ TextDrawsInit

\* ProcessClientJoin or ReInitWhenRestarting sends player p what the pools hold for
\* everybody; text draws are not among it.
InitForPlayer(p) ==
    up /\ Initialise(p) /\ PickupsInitForPlayer(p) /\ UNCHANGED textVars

\* While a game mode restarts, ProcessClientJoin tells p so.
TellOfRestart(p) ==
    ~up /\ Initialise(p) /\ SendRestart({p}) /\ UNCHANGED <<pickupVars, textVars>>

Departure(p) == Leave(p) /\ ResetPickupPool(p) /\ ResetTextDrawPool(p)

RestartBegins == ShutDown /\ PickupsShutDown /\ TextDrawsShutDown

\* A message arrives at a client.
Receive(p, m) ==
    /\ Arrive(p, m)
    /\ \/ ReceivePickup(p, m) /\ UNCHANGED textVars
       \/ ReceiveText(p, m) /\ UNCHANGED pickupVars
       \/ m = Restart /\ ResetPickupPool(p) /\ ResetTextDrawPool(p)

Next ==
    \/ PickupNative /\ UNCHANGED <<peopleVars, textVars>>
    \/ TextDrawNative /\ UNCHANGED <<peopleVars, pickupVars>>
    \/ \E p \in Players : (Accept(p) \/ Join(p)) /\ UNCHANGED <<pickupVars, textVars>>
    \/ \E p \in Players : InitForPlayer(p) \/ TellOfRestart(p) \/ Departure(p)
    \/ \E p \in Players : \E m \in OnWay(p) : Receive(p, m)
    \/ RestartBegins
    \/ ReInit /\ UNCHANGED <<pickupVars, textVars>>

Spec == Init /\ [][Next]_vars
=============================================================================
