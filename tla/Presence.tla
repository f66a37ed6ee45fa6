------------------------------ MODULE Presence ------------------------------
(***************************************************************************)
(* How a player enters the world and who sees him there: class selection,  *)
(* spawning, dying, spectating and leaving (server/netrpc.cpp,             *)
(* server/player.cpp, server/playerpool.cpp), with the client that asks    *)
(* (client/net/localplayer.cpp) and the clients that show him              *)
(* (client/net/playerpool.cpp, client/net/remoteplayer.cpp), while game    *)
(* modes restart and scripts put players among the spectators and back.    *)
(*                                                                         *)
(* What a client sends takes time: its calls travel in up, in order.  What *)
(* the server sends is handled by the client in the same step.  As long as *)
(* calls arrive in order this loses nothing: a client that acts before it  *)
(* hears of a step of the server is, for everybody else, one that acted    *)
(* before that step and whose call was slow.  Position packets, which are  *)
(* not reliable, are taken to arrive between the calls or not at all.      *)
(***************************************************************************)
EXTENDS Naturals, FiniteSets, Sequences

CONSTANTS Players,           \* player slots, each with the client behind it
          MaxCalls,          \* calls of one client that are on their way
          ScriptsInRestart   \* do filter scripts use players in a restart?

ASSUME PresenceAssumption ==
    /\ MaxCalls \in Nat \ {0}
    /\ ScriptsInRestart \in BOOLEAN

VARIABLES
    gameState,   \* server: m_iGameState
    slots,       \* server: m_bPlayerSlotState
    state,       \* server: m_byteState; all that IsActive() accepts is "active"
    known,       \* server: players with m_bHasSpawnInfo
    link,        \* client: m_iGameState, "off" without a connection
    active,      \* clients with m_bIsActive
    wasted,      \* clients with m_bIsWasted
    spectating,  \* clients with m_bIsSpectating
    informed,    \* clients with m_bHasSpawnInfo
    cleared,     \* clients with m_bClearedToSpawn
    waiting,     \* clients with m_bWaitingForSpawnRequestReply
    listed,      \* listed[c]: the remote players that client c knows
    shown,       \* shown[c]: those of them it has a ped of
    up           \* up[c]: the calls of client c that are on their way

serverVars == <<gameState, slots, state, known>>
localVars  == <<active, wasted, spectating, informed, cleared, waiting>>
viewVars   == <<listed, shown>>
vars == <<serverVars, link, localVars, viewVars, up>>

Calls == {"ClientJoin", "RequestClass", "RequestSpawn", "Spawn", "Death"}

Linked == {p \in Players : link[p] # "off"}

TypeOK ==
    /\ gameState \in {"running", "restarting"}
    /\ slots \subseteq Linked /\ known \subseteq slots
    /\ state \in [Players -> {"none", "active", "spectating"}]
    /\ link \in [Players -> {"off", "await", "connected", "restarting"}]
    /\ active \cup wasted \cup spectating \cup informed \cup cleared \cup waiting
         \subseteq Linked
    /\ active \cap wasted = {}
    /\ listed \in [Players -> SUBSET Players]
    /\ shown \in [Players -> SUBSET Players] /\ \A c \in Players : shown[c] \subseteq listed[c]
    /\ up \in [Players -> Seq(Calls)] /\ \A p \in Players : Len(up[p]) =< MaxCalls

Init ==
    /\ gameState = "running" /\ slots = {} /\ known = {}
    /\ state = [p \in Players |-> "none"]
    /\ link = [p \in Players |-> "off"]
    /\ active = {} /\ wasted = {} /\ spectating = {}
    /\ informed = {} /\ cleared = {} /\ waiting = {}
    /\ listed = [p \in Players |-> {}] /\ shown = [p \in Players |-> {}]
    /\ up = [p \in Players |-> <<>>]

-----------------------------------------------------------------------------
(* The local player of a client (client/net/localplayer.cpp). *)

\* The queues after each client in S made the call, with room for it.
Called(queues, S, call) ==
    [p \in Players |-> IF p \in S THEN Append(queues[p], call) ELSE queues[p]]

Room == \A p \in Players : Len(up'[p]) =< MaxCalls

\* A mutant: a player who spawns stays wasted.
SpawnAndEnd_Wasted(S, gone, queues) ==
    LET spawned == S \cap informed IN
    /\ active' = (active \cup spawned) \ gone
    /\ wasted' = wasted \ gone
    /\ waiting' = waiting \ (spawned \cup gone)
    /\ up' = Called(queues, spawned, "Spawn") /\ Room

\* CLocalPlayer::Spawn in each client of S: refused without spawn info,
\* otherwise the player is in the game at once and the server hears of it.
\* The clients in gone end.
SpawnAndEnd(S, gone, queues) ==
    LET spawned == S \cap informed IN
    /\ active' = (active \cup spawned) \ gone
    /\ wasted' = wasted \ (spawned \cup gone)
    /\ waiting' = waiting \ (spawned \cup gone)
    /\ up' = Called(queues, spawned, "Spawn") /\ Room

SpawnLocally(S, queues) == SpawnAndEnd(S, {}, queues)

\* ToggleSpectating(false): who spectated spawns.
StopSpectating(S, queues) ==
    /\ SpawnLocally(S \cap spectating, queues)
    /\ spectating' = spectating \ S

\* ProcessClassSelection, reached by a client in the game whose player is
\* neither active nor waiting to respawn nor spectating.
Selecting(p) ==
    /\ link[p] = "connected"
    /\ p \notin active \cup wasted \cup spectating

\* SHIFT in the class selection.
PressSpawn(p) ==
    /\ Selecting(p) /\ p \in cleared \ waiting
    /\ waiting' = waiting \cup {p}
    /\ up' = Called(up, {p}, "RequestSpawn") /\ Room
    /\ UNCHANGED <<serverVars, link, active, wasted, spectating, informed, cleared, viewVars>>

\* An arrow key in the class selection.
PressArrow(p) ==
    /\ Selecting(p) /\ p \in cleared
    /\ cleared' = cleared \ {p}
    /\ up' = Called(up, {p}, "RequestClass") /\ Room
    /\ UNCHANGED <<serverVars, link, active, wasted, spectating, informed, waiting, viewVars>>

\* The local ped is dead: a spectator is first made a player again, which
\* spawns him, and then the death is sent.
Die(p) ==
    /\ link[p] = "connected" /\ p \in active
    /\ LET queues == IF p \in spectating \cap informed
                     THEN Called(up, {p}, "Spawn") ELSE up
       IN  up' = Called(queues, {p}, "Death") /\ Room
    /\ waiting' = waiting \ (spectating \cap informed \cap {p})
    /\ spectating' = spectating \ {p}
    /\ active' = active \ {p} /\ wasted' = wasted \cup {p}
    /\ UNCHANGED <<serverVars, link, informed, cleared, viewVars>>

\* The dead ped is gone: spawn again, or go back to the class selection if
\* not cleared to spawn, if there is no game, or if the player or a script
\* asked for it.
Respawn(p) ==
    /\ link[p] \in {"connected", "restarting"} /\ p \in wasted \ spectating
    /\ \/ /\ link[p] = "connected" /\ p \in cleared
          /\ SpawnLocally({p}, up)
          /\ UNCHANGED cleared
       \/ /\ wasted' = wasted \ {p} /\ cleared' = cleared \ {p}
          /\ up' = Called(up, {p}, "RequestClass") /\ Room
          /\ UNCHANGED <<active, waiting>>
    /\ UNCHANGED <<serverVars, link, spectating, informed, viewVars>>

-----------------------------------------------------------------------------
(* The remote players of a client, as the server's broadcasts change them. *)

\* RPC_Spawn at every other client: who knows the player gets a ped of him.
ShowToOthers(p) ==
    shown' = [c \in Players |-> IF c # p /\ p \in listed[c]
                                THEN shown[c] \cup {p} ELSE shown[c]]

\* RPC_ScrSetPlayerSpectating at every other client: the ped goes.
HideFromOthers(p) ==
    shown' = [c \in Players |-> IF c # p THEN shown[c] \ {p} ELSE shown[c]]

-----------------------------------------------------------------------------
(* Joining and leaving. *)

\* The connection is accepted and the client sends RPC_ClientJoin.
Connect(p) ==
    /\ link[p] = "off"
    /\ link' = [link EXCEPT ![p] = "await"]
    /\ up' = [up EXCEPT ![p] = <<"ClientJoin">>]
    /\ UNCHANGED <<serverVars, localVars, viewVars>>

\* The handler that the first call of p's client reaches, and what is left.
Arrives(p, call) == up[p] # <<>> /\ Head(up[p]) = call
Rest(p) == [up EXCEPT ![p] = Tail(@)]

\* A mutant: existing players are not spawned for who joins.
SpawnedFor_Nobody(p) == {}

\* InitSpawnsForPlayer: the players that a client who joins gets peds of.
SpawnedFor(p) == {q \in slots \ {p} : state[q] = "active"}

\* ClientJoin: New tells every other client, also one that has not joined,
\* and InitPlayersForPlayer tells this one about all players, which replaces
\* what it may have heard before.  InitGame takes the client to the class
\* selection; in a restart it is told to wait.
ClientJoin(p) ==
    /\ Arrives(p, "ClientJoin")
    /\ slots' = slots \cup {p}
    /\ link' = [link EXCEPT ![p] = IF gameState = "running" THEN "connected" ELSE "restarting"]
    /\ listed' = [c \in Players |->
                     CASE c = p -> listed[p] \cup (slots \ {p})
                       [] c \in Linked \ {p} -> listed[c] \cup {p}
                       [] OTHER -> listed[c]]
    /\ shown' = [c \in Players |-> IF c = p THEN SpawnedFor(p) ELSE shown[c] \ {p}]
    /\ cleared' = cleared \ {p}
    /\ up' = Called(Rest(p), {p}, "RequestClass") /\ Room
    /\ UNCHANGED <<gameState, state, known, active, wasted, spectating, informed, waiting>>

\* A mutant: the other clients are not told.
Forgetting_Silently(p) == UNCHANGED viewVars

\* RPC_ServerQuit at the other clients; the leaving one forgets everything.
Forgetting(p) ==
    /\ listed' = [c \in Players |-> IF c = p THEN {} ELSE listed[c] \ {p}]
    /\ shown' = [c \in Players |-> IF c = p THEN {} ELSE shown[c] \ {p}]

\* A connection ends, by the client, the network or a kick.  Clients whose
\* players watch this one stop spectating.  That a player leaves while there
\* is no game mode stops the server (see NetGame) and is left out here.
Leave(p) ==
    /\ link[p] # "off"
    /\ p \in slots => gameState = "running"
    /\ \E watchers \in SUBSET (spectating \ {p}) :
          /\ p \notin slots => watchers = {}
          /\ SpawnAndEnd(watchers, {p}, [up EXCEPT ![p] = <<>>])
          /\ spectating' = spectating \ (watchers \cup {p})
    /\ slots' = slots \ {p} /\ known' = known \ {p}
    /\ state' = [state EXCEPT ![p] = "none"]
    /\ link' = [link EXCEPT ![p] = "off"]
    /\ informed' = informed \ {p} /\ cleared' = cleared \ {p}
    /\ Forgetting(p)
    /\ UNCHANGED gameState

-----------------------------------------------------------------------------
(* The server's handlers (server/netrpc.cpp, server/player.cpp). *)

Served(p, call) == Arrives(p, call) /\ gameState = "running" /\ p \in slots

\* Every handler returns at once while there is no game mode.
Ignore(p) ==
    /\ \/ \E call \in Calls \ {"ClientJoin"} :
             Arrives(p, call) /\ (gameState # "running" \/ p \notin slots)
       \/ Served(p, "Spawn") /\ p \notin known
    /\ up' = Rest(p)
    /\ UNCHANGED <<serverVars, link, localVars, viewVars>>

\* The server takes the class, whatever the scripts answer; the client takes
\* it and is cleared to spawn if they agree.
RequestClass(p) ==
    /\ Served(p, "RequestClass")
    /\ known' = known \cup {p}
    /\ \/ informed' = informed \cup {p} /\ cleared' = cleared \cup {p}
       \/ UNCHANGED <<informed, cleared>>
    /\ up' = Rest(p)
    /\ UNCHANGED <<gameState, slots, state, link, active, wasted, spectating, waiting, viewVars>>

\* A mutant: a refusal is not sent.
RequestSpawn_Unanswered(p) ==
    /\ Served(p, "RequestSpawn")
    /\ \/ p \in waiting /\ SpawnLocally({p}, Rest(p))
       \/ up' = Rest(p) /\ UNCHANGED <<active, wasted, waiting>>
    /\ UNCHANGED <<serverVars, link, spectating, informed, cleared, viewVars>>

\* The answer makes the client spawn if it still waits for it.
RequestSpawn(p) ==
    /\ Served(p, "RequestSpawn")
    /\ \/ p \in waiting /\ SpawnLocally({p}, Rest(p))
       \/ waiting' = waiting \ {p} /\ up' = Rest(p) /\ UNCHANGED <<active, wasted>>
    /\ UNCHANGED <<serverVars, link, spectating, informed, cleared, viewVars>>

\* CPlayer::Spawn and SpawnForWorld.
Spawn(p) ==
    /\ Served(p, "Spawn") /\ p \in known
    /\ ShowToOthers(p)
    /\ state' = [state EXCEPT ![p] = "active"]
    /\ up' = Rest(p)
    /\ UNCHANGED <<gameState, slots, known, link, localVars, listed>>

\* CPlayer::HandleDeath: a dead player still counts as active, and keeps his ped.
Death(p) ==
    /\ Served(p, "Death")
    /\ state' = [state EXCEPT ![p] = "active"]
    /\ up' = Rest(p)
    /\ UNCHANGED <<gameState, slots, known, link, localVars, viewVars>>

\* A position packet: the first one from a spectator hides him from the others.
Sync(p) ==
    /\ link[p] = "connected" /\ gameState = "running" /\ p \in slots /\ up[p] = <<>>
    /\ \/ /\ p \in spectating /\ state[p] # "spectating"
          /\ state' = [state EXCEPT ![p] = "spectating"]
          /\ HideFromOthers(p)
       \/ /\ p \in active \ spectating /\ state[p] # "active"
          /\ state' = [state EXCEPT ![p] = "active"]
          /\ UNCHANGED shown
    /\ UNCHANGED <<gameState, slots, known, link, localVars, listed, up>>

-----------------------------------------------------------------------------
(* What scripts do to a player (server/scrcustom.cpp). *)

Reachable(p) == p \in slots /\ (gameState = "running" \/ ScriptsInRestart)

TogglePlayerSpectating(p) ==
    /\ Reachable(p)
    /\ \/ spectating' = spectating \cup {p} /\ UNCHANGED <<active, wasted, waiting, up>>
       \/ StopSpectating({p}, up)
    /\ UNCHANGED <<serverVars, link, informed, cleared, viewVars>>

SetSpawnInfo(p) ==
    /\ Reachable(p)
    /\ known' = known \cup {p} /\ informed' = informed \cup {p}
    /\ UNCHANGED <<gameState, slots, state, link, active, wasted, spectating, cleared,
                   waiting, viewVars, up>>

\* RPC_RequestSpawn with the outcome that the client does not have to wait for.
SpawnPlayer(p) ==
    /\ Reachable(p)
    /\ SpawnLocally({p}, up)
    /\ UNCHANGED <<serverVars, link, spectating, informed, cleared, viewVars>>

-----------------------------------------------------------------------------
(* The end of a game mode and the start of the next. *)

\* A mutant: clients keep the peds of the old world.
Restart_KeepingPeds ==
    /\ gameState = "running" /\ gameState' = "restarting"
    /\ state' = [p \in Players |-> "none"] /\ known' = {}
    /\ link' = [p \in Players |-> IF link[p] = "off" THEN "off" ELSE "restarting"]
    /\ LET spawned == spectating \cap informed IN
          /\ up' = Called(up, spawned, "Spawn") /\ Room
          /\ waiting' = waiting \ spawned /\ wasted' = wasted \ spawned
    /\ active' = {} /\ spectating' = {}
    /\ UNCHANGED <<slots, informed, cleared, viewVars>>

\* ShutdownForGameModeRestart here and at every connected client, where
\* spectators are first made players again, which spawns them for a moment.
\* What the client knew of its class selection stays as it was.
Restart ==
    /\ gameState = "running" /\ gameState' = "restarting"
    /\ state' = [p \in Players |-> "none"] /\ known' = {}
    /\ link' = [p \in Players |-> IF link[p] = "off" THEN "off" ELSE "restarting"]
    /\ LET spawned == spectating \cap informed IN
          /\ up' = Called(up, spawned, "Spawn") /\ Room
          /\ waiting' = waiting \ spawned /\ wasted' = wasted \ spawned
    /\ active' = {} /\ spectating' = {}
    /\ shown' = [c \in Players |-> {}]
    /\ UNCHANGED <<slots, informed, cleared, listed>>

\* ReInitWhenRestarting, twelve seconds later: no call is on its way that
\* long.  InitGame takes every client to the class selection.
ReInit ==
    /\ gameState = "restarting" /\ gameState' = "running"
    /\ \A p \in slots : up[p] = <<>>
    /\ link' = [p \in Players |-> IF p \in slots THEN "connected" ELSE link[p]]
    /\ cleared' = cleared \ slots
    /\ up' = Called(up, slots, "RequestClass")
    /\ UNCHANGED <<slots, state, known, active, wasted, spectating, informed, waiting, viewVars>>

-----------------------------------------------------------------------------
Next ==
    \/ \E p \in Players :
          \/ Connect(p) \/ ClientJoin(p) \/ Leave(p)
          \/ PressSpawn(p) \/ PressArrow(p) \/ Die(p) \/ Respawn(p)
          \/ Ignore(p) \/ RequestClass(p) \/ RequestSpawn(p) \/ Spawn(p) \/ Death(p)
          \/ Sync(p)
          \/ TogglePlayerSpectating(p) \/ SetSpawnInfo(p) \/ SpawnPlayer(p)
    \/ Restart \/ ReInit

Spec == Init /\ [][Next]_vars

\* Each client that has joined lists exactly the other players of the server,
\* whoever joined, left or was announced while it was joining.
ListMirrors == \A c \in slots : listed[c] = slots \ {c}

\* While no game mode is there no client has a ped of anybody: each forgets
\* the old world, and nothing that is still on its way brings a ped back.
RestartClears == gameState = "restarting" => \A c \in Players : shown[c] = {}

\* A player who walks about on his own client, with nothing left on its way, is
\* in the game for the server, and every client that has joined has a ped of him.
ActiveIsSeen ==
    \A p \in active \ spectating :
       gameState = "running" /\ p \in slots /\ up[p] = <<>>
          => p \in known /\ \A c \in slots \ {p} : p \in shown[c]

\* Whoever joined when, all clients agree on which players are in the world.
SameWorld ==
    \A c, d \in slots : \A p \in slots \ {c, d} : p \in shown[c] <=> p \in shown[d]

\* The clients share one world, and who walks about in it is seen by everybody.
WorldIsShared == ActiveIsSeen /\ SameWorld

\* A client that waits for the answer to RequestSpawn, which it does until it
\* spawns or hears the answer, has the request on its way: only a request that
\* arrives when there is no game is lost (netrpc.cpp 255), and then the client
\* waits in vain, in the next game too (localplayer.cpp 1253-1260).
WaitsInVain(p) == p \in waiting /\ \A i \in DOMAIN up[p] : up[p][i] # "RequestSpawn"
AnswerLostOnlyInRestart ==
    [][\A p \in Players : WaitsInVain(p)' /\ ~WaitsInVain(p) => gameState # "running"]_vars

=============================================================================
