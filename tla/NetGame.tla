------------------------------ MODULE NetGame ------------------------------
(***************************************************************************)
(* The server's main loop (server/main.cpp), the game object that owns the *)
(* pools (server/netgame.cpp), the player pool (server/playerpool.cpp) and *)
(* the join handler (server/netrpc.cpp).                                   *)
(*                                                                         *)
(* The loop is one thread, but it is not atomic: every join, restart and   *)
(* reload runs script callbacks in the middle of its work, and a callback  *)
(* may kick players or end the game mode.  phase says where the thread is, *)
(* and the callbacks' calls are actions enabled in the phases that run     *)
(* callbacks.                                                              *)
(*                                                                         *)
(* While a game mode restarts every pool but the player pool is gone, and  *)
(* so is the game mode: players stay, and the network is still served.  A  *)
(* call through one of the null pointers stops the server; crash says      *)
(* which pointer.                                                          *)
(***************************************************************************)
EXTENDS Integers, FiniteSets

CONSTANTS MaxPlayers,        \* MAX_PLAYERS, the number of player slots
          WaitLimit,         \* frames that make up the wait of 12 seconds
          ScriptBehaviours   \* what the scripts of a server may do in callbacks

\* The phases that run script callbacks in the middle of an operation.
CallbackPhases ==
    {"joinFS", "joinGM", "asking", "dying", "exiting", "loading", "reinitFS", "reinitGM"}

\* A server: the phases in whose callbacks its scripts call Kick, whether filter
\* scripts call GameModeExit while the game restarts, and whether the variable
\* chatlogging makes it log who killed whom.
Behaviours == [kicks : SUBSET CallbackPhases, exits : BOOLEAN, logs : BOOLEAN]

ASSUME NetGameAssumption ==
    /\ MaxPlayers \in Nat
    /\ WaitLimit \in Nat
    /\ ScriptBehaviours \subseteq Behaviours

Players == 0 .. (MaxPlayers - 1)

VARIABLES scripts,    \* what this server's scripts do
          phase,      \* where the main loop is
          who,        \* the player a join, a request or a re-initialisation is about
          gameState,  \* m_iGameState
          pools,      \* are the vehicle, pickup, object, menu, ... pools there?
          gameMode,   \* m_pGameMode # NULL
          finished,   \* bGameModeFinished
          waitTime,   \* fRestartWaitTime, in frames
          online,     \* indices with a RakNet connection
          slots,      \* m_bPlayerSlotState: occupied player slots
          count,      \* m_iPlayerCount
          last,       \* m_iLastPlayerId
          told,       \* the last of InitGame, GameModeRestart sent to each slot
          gm, fs,     \* what the game mode and the filter scripts were told
          crash       \* the null pointer that stopped the server

poolVars == <<online, slots, count, last>>
viewVars == <<told, gm, fs>>
gameVars == <<gameState, pools, gameMode, finished, waitTime>>
vars == <<scripts, phase, who, gameVars, poolVars, viewVars, crash>>

Loop == {"network", "frame", "finish"}

\* gm[p] and fs[p] count the OnPlayerConnect calls since the last
\* OnPlayerDisconnect, up to 2; "lost" is a disconnect of somebody who was not
\* announced.  A script that keeps per-player data relies on these calls.
Views == {"out", "in", "twice", "lost"}
Announced(v) == CASE v = "out" -> "in" [] v = "lost" -> "lost" [] OTHER -> "twice"
Dismissed(v) == IF v \in {"in", "twice"} THEN "out" ELSE "lost"

TypeOK ==
    /\ scripts \in ScriptBehaviours
    /\ phase \in Loop \cup CallbackPhases \cup {"reinit", "stopped"}
    /\ who \in 0 .. MaxPlayers
    /\ gameState \in {"running", "restarting"}
    /\ pools \in BOOLEAN /\ gameMode \in BOOLEAN /\ finished \in BOOLEAN
    /\ waitTime \in 0 .. (WaitLimit + 1)
    /\ online \in SUBSET Players /\ slots \in SUBSET Players
    /\ count \in Int /\ last \in Players \cup {-1}
    /\ told \in [Players -> {"nothing", "game", "restart"}]
    /\ gm \in [Players -> Views] /\ fs \in [Players -> Views]
    /\ crash \in {"none", "objectPool", "gameMode", "player", "filterScripts"}

\* After main() called Init(true).
Init ==
    /\ scripts \in ScriptBehaviours
    /\ phase = "network" /\ who = 0
    /\ gameState = "running" /\ pools = TRUE /\ gameMode = TRUE
    /\ finished = FALSE /\ waitTime = 0
    /\ online = {} /\ slots = {} /\ count = 0 /\ last = -1
    /\ told = [p \in Players |-> "nothing"]
    /\ gm = [p \in Players |-> "out"] /\ fs = [p \in Players |-> "out"]
    /\ crash = "none"

-----------------------------------------------------------------------------
(* The player pool. *)

\* A mutant: the scan taken for a count.
LastOf_Counting(S) == Cardinality(S) - 1

\* The scan at the end of New and of Delete.
LastOf(S) == IF S = {} THEN -1 ELSE CHOOSE p \in S : \A q \in S : q =< p

\* CPlayerPool::Delete: the scripts are told, the slot is freed, and then the
\* player's personal objects are removed through the object pool, which may
\* be gone.  The callbacks it runs are assumed to kick nobody.
Delete(p) ==
    /\ fs' = [fs EXCEPT ![p] = Dismissed(@)]
    /\ gm' = IF gameMode THEN [gm EXCEPT ![p] = Dismissed(@)] ELSE gm
    /\ slots' = slots \ {p}
    /\ told' = [told EXCEPT ![p] = "nothing"]
    /\ IF pools
       THEN count' = count - 1 /\ last' = LastOf(slots') /\ crash' = crash
       ELSE UNCHANGED <<count, last>> /\ crash' = "objectPool"

\* CNetGame::KickPlayer closes the connection and frees the slot.
KickPlayer(p) ==
    /\ p \in slots
    /\ online' = online \ {p}
    /\ Delete(p)

-----------------------------------------------------------------------------
(* Packets, remote procedure calls and console commands. *)

NewIncomingConnection(p) ==
    /\ phase = "network" /\ p \notin online
    /\ online' = online \cup {p}
    /\ UNCHANGED <<phase, who, gameVars, slots, count, last, viewVars, crash>>

\* ClientJoin of an admitted client, up to the filter scripts'
\* OnPlayerConnect.  A client sends it once per connection.
ClientJoin(p) ==
    /\ phase = "network" /\ p \in online \ slots
    /\ slots' = slots \cup {p}
    /\ fs' = [fs EXCEPT ![p] = Announced(@)]
    /\ phase' = "joinFS" /\ who' = p
    /\ UNCHANGED <<gameVars, online, count, last, told, gm, crash>>

\* ... the game mode's OnPlayerConnect, if there is a game mode ...
AnnounceJoin ==
    /\ phase = "joinFS"
    /\ gm' = IF gameMode THEN [gm EXCEPT ![who] = Announced(@)] ELSE gm
    /\ phase' = "joinGM"
    /\ UNCHANGED <<who, gameVars, poolVars, told, fs, crash>>

\* A mutant: a client that joins during a restart is not told of it.
ToldOnJoin_AlwaysGame == "game"

\* ProcessClientJoin sends InitGame, and GameModeRestart after it while the
\* game restarts.
ToldOnJoin == IF gameState = "running" THEN "game" ELSE "restart"

\* ... the end of New, and ProcessClientJoin, which reads the new player's
\* virtual world through GetAt while the game runs.
ProcessClientJoin ==
    /\ phase = "joinGM"
    /\ count' = count + 1 /\ last' = LastOf(slots)
    /\ phase' = "network"
    /\ IF gameState = "running" /\ who \notin slots
       THEN crash' = "player" /\ told' = told
       ELSE told' = [told EXCEPT ![who] = ToldOnJoin] /\ crash' = crash
    /\ UNCHANGED <<who, gameVars, online, slots, gm, fs>>

\* A mutant: the handler may serve a slot that is empty.
PlayerRequest_Unchecked(p) ==
    /\ phase = "network" /\ p \in online
    /\ phase' = "asking" /\ who' = p
    /\ UNCHANGED <<gameVars, poolVars, viewVars, crash>>

\* A handler that calls scripts about the player whose packet it handles and then
\* goes on with his CPlayer: RequestClass, Spawn, EnterVehicle, ExitVehicle,
\* AdminMapTeleport and the sync packets; in a restart too, Chat and SetInteriorId.
PlayerRequest(p) ==
    /\ phase = "network" /\ p \in slots
    /\ phase' = "asking" /\ who' = p
    /\ UNCHANGED <<gameVars, poolVars, viewVars, crash>>

\* What becomes of a handler that goes on with the CPlayer of who: a kick has freed
\* it, and then anything can happen.
AfterUse == IF who \in slots THEN {crash} ELSE {crash, "player"}

EndPlayerRequest ==
    /\ phase = "asking"
    /\ phase' = "network"
    /\ crash' \in AfterUse
    /\ UNCHANGED <<who, gameVars, poolVars, viewVars>>

\* The handler Death, up to the OnPlayerDeath callbacks of HandleDeath.
Death(p) ==
    /\ phase = "network" /\ gameState = "running" /\ p \in slots
    /\ phase' = "dying" /\ who' = p
    /\ UNCHANGED <<gameVars, poolVars, viewVars, crash>>

\* The killer's id is what the client wrote: -1 is INVALID_PLAYER_ID, MaxPlayers
\* an id beyond the pool.
Killers == Players \cup {-1, MaxPlayers}

\* ... and the rest of it: the log of a kill takes the killer's name from a slot
\* that it does not test.
EndDeath(killer) ==
    /\ phase = "dying"
    /\ phase' = "network"
    /\ crash' \in IF who \in slots /\ scripts.logs /\ killer # -1 /\ killer \notin slots
                  THEN {"player"} ELSE AfterUse
    /\ UNCHANGED <<who, gameVars, poolVars, viewVars>>

\* Packet_DisconnectionNotification and Packet_ConnectionLost.
Disconnection(p) ==
    /\ phase = "network" /\ p \in online
    /\ online' = online \ {p}
    /\ IF p \in slots THEN Delete(p)
       ELSE UNCHANGED <<slots, count, last, viewVars, crash>>
    /\ UNCHANGED <<phase, who, gameVars>>

\* A kick after which nobody uses the player: by a packet handler (failed RCON
\* logins, a bad vehicle request), by the console, by a timer, or by a callback of
\* a handler that is done with the player (a command, a menu, a pickup).
Kick(p) ==
    /\ phase = "network" \/ (phase = "frame" /\ gameState = "running")
    /\ KickPlayer(p)
    /\ UNCHANGED <<phase, who, gameVars>>

\* A kick from a callback that runs in the middle of an operation.
KickInCallback(p) ==
    /\ phase \in scripts.kicks
    /\ phase = "exiting" => gameMode
    /\ KickPlayer(p)
    /\ UNCHANGED <<phase, who, gameVars>>

\* con_gmx and con_changemode answer only while the game runs.
Gmx ==
    /\ phase = "network" /\ gameState = "running"
    /\ finished' = TRUE
    /\ UNCHANGED <<phase, who, gameState, pools, gameMode, waitTime, poolVars, viewVars, crash>>

\* n_GameModeExit has no such test, and the filter scripts outlive the mode.
GameModeExit ==
    /\ phase \in CallbackPhases \cup {"network", "frame"}
    /\ phase = "frame" => gameState = "running"
    /\ gameMode \/ scripts.exits
    /\ finished' = TRUE
    /\ UNCHANGED <<phase, who, gameState, pools, gameMode, waitTime, poolVars, viewVars, crash>>

-----------------------------------------------------------------------------
(* The main loop. *)

\* UpdateNetwork found no more packets.
EndNetwork ==
    /\ phase = "network"
    /\ phase' = "frame"
    /\ UNCHANGED <<who, gameVars, poolVars, viewVars, crash>>

\* The rest of CNetGame::Process while the game runs: pools, mode, timers.
Frame ==
    /\ phase = "frame" /\ gameState = "running"
    /\ phase' = "finish"
    /\ UNCHANGED <<who, gameVars, poolVars, viewVars, crash>>

\* ... and while it restarts: the wait, and then ReInitWhenRestarting, of
\* which Init first makes the pools and a game mode.
RestartWait ==
    /\ phase = "frame" /\ gameState = "restarting"
    /\ waitTime' = waitTime + 1
    /\ IF waitTime' > WaitLimit
       THEN /\ phase' = "loading" /\ pools' = TRUE /\ gameMode' = TRUE
            /\ gm' = [p \in Players |-> "out"]
       ELSE phase' = "finish" /\ UNCHANGED <<pools, gameMode, gm>>
    /\ UNCHANGED <<who, gameState, finished, poolVars, told, fs, crash>>

\* CGameMode::Load has run the OnGameModeInit callbacks and main.
EndInit ==
    /\ phase = "loading"
    /\ gameState' = "running" /\ phase' = "reinit" /\ who' = 0
    /\ UNCHANGED <<pools, gameMode, finished, waitTime, poolVars, viewVars, crash>>

\* The loop of ReInitWhenRestarting over the player slots.
ReInitPlayer ==
    /\ phase = "reinit" /\ who < MaxPlayers
    /\ IF who \in slots
       THEN /\ told' = [told EXCEPT ![who] = "game"]
            /\ fs' = [fs EXCEPT ![who] = Announced(@)]
            /\ phase' = "reinitFS" /\ who' = who
       ELSE who' = who + 1 /\ UNCHANGED <<phase, told, fs>>
    /\ UNCHANGED <<gameVars, poolVars, gm, crash>>

\* A mutant: the new game mode is not told of the players that stayed.
ReInitGameMode_Silent ==
    /\ phase = "reinitFS"
    /\ phase' = "reinitGM"
    /\ UNCHANGED <<who, gameVars, poolVars, viewVars, crash>>

ReInitGameMode ==
    /\ phase = "reinitFS"
    /\ gm' = [gm EXCEPT ![who] = Announced(@)]
    /\ phase' = "reinitGM"
    /\ UNCHANGED <<who, gameVars, poolVars, told, fs, crash>>

ReInitNext ==
    /\ phase = "reinitGM"
    /\ who' = who + 1 /\ phase' = "reinit"
    /\ UNCHANGED <<gameVars, poolVars, viewVars, crash>>

ReInitDone ==
    /\ phase = "reinit" /\ who = MaxPlayers
    /\ who' = 0 /\ phase' = "finish"
    /\ UNCHANGED <<gameVars, poolVars, viewVars, crash>>

\* A mutant: the next iteration starts with no request.
NextIteration_Forgetting ==
    /\ phase = "finish"
    /\ phase' = "network" /\ finished' = FALSE
    /\ UNCHANGED <<who, gameState, pools, gameMode, waitTime, poolVars, viewVars, crash>>

\* main(): nothing to shut down.
NextIteration ==
    /\ phase = "finish" /\ ~finished
    /\ phase' = "network"
    /\ UNCHANGED <<who, gameVars, poolVars, viewVars, crash>>

\* DeactivateAll calls the game mode for every occupied slot.
NullGameModeUsed == slots # {} /\ ~gameMode

\* main(): ShutdownForGameModeRestart, up to the OnGameModeExit callbacks.
Shutdown ==
    /\ phase = "finish" /\ finished
    /\ told' = [p \in Players |-> IF p \in slots THEN "restart" ELSE told[p]]
    /\ phase' = "exiting"
    /\ IF NullGameModeUsed
       THEN crash' = "gameMode" /\ UNCHANGED <<gm, fs>>
       ELSE /\ gm' = [p \in Players |-> IF p \in slots THEN Dismissed(gm[p]) ELSE gm[p]]
            /\ fs' = [p \in Players |-> IF p \in slots THEN Dismissed(fs[p]) ELSE fs[p]]
            /\ crash' = crash
    /\ UNCHANGED <<who, gameVars, poolVars>>

\* ... and the rest of it, with what is left in four of the members.
EndShutdown(state, mode, wait, request) ==
    /\ phase = "exiting"
    /\ pools' = FALSE /\ gameMode' = mode
    /\ waitTime' = wait
    /\ gameState' = state /\ finished' = request
    /\ phase' = "network"
    /\ UNCHANGED <<who, poolVars, viewVars, crash>>

\* A mutant: the wait is not started over.
ShutdownDone_KeepingWait == EndShutdown("restarting", FALSE, waitTime, FALSE)

\* main() clears the request afterwards, so one made by those callbacks is
\* dropped.
ShutdownDone == EndShutdown("restarting", FALSE, 0, FALSE)

\* The server quits.  The destructor frees the game mode and the filter
\* scripts before the player pool, whose Delete then calls a method on the
\* null filter scripts; what that method reads first is undefined.
Quit ==
    /\ phase = "finish" /\ ~finished
    /\ phase' = "stopped"
    /\ crash' \in IF slots = {} THEN {"none"}
                  ELSE {"filterScripts", IF pools THEN "none" ELSE "objectPool"}
    /\ pools' = FALSE /\ gameMode' = FALSE
    /\ online' = {} /\ slots' = {} /\ count' = 0 /\ last' = -1
    /\ UNCHANGED <<who, gameState, finished, waitTime, viewVars>>

Packet ==
    \/ \E p \in Players : NewIncomingConnection(p)
    \/ \E p \in Players : ClientJoin(p)
    \/ \E p \in Players : PlayerRequest(p)
    \/ \E p \in Players : Death(p)
    \/ \E p \in Players : Disconnection(p)
    \/ \E p \in Players : Kick(p)
    \/ Gmx

\* Handlers go on after the callbacks they ran.
Handling ==
    \/ AnnounceJoin \/ ProcessClientJoin \/ EndPlayerRequest
    \/ \E killer \in Killers : EndDeath(killer)

Callback ==
    \/ \E p \in Players : KickInCallback(p)
    \/ GameModeExit

Restart ==
    \/ RestartWait \/ EndInit
    \/ ReInitPlayer \/ ReInitGameMode \/ ReInitNext \/ ReInitDone
    \/ Shutdown \/ ShutdownDone

Next ==
    /\ crash = "none"
    /\ UNCHANGED scripts
    /\ \/ Packet \/ Callback
       \/ Handling
       \/ EndNetwork \/ Frame \/ Restart \/ NextIteration \/ Quit

Spec == Init /\ [][Next]_vars

\* The thread never blocks, so whatever it is in the middle of it finishes.
\* A burst of packets ends: UpdateNetwork finds its queue empty again and again.
LoopStep ==
    /\ crash = "none"
    /\ UNCHANGED scripts
    /\ Handling \/ Frame \/ Restart \/ NextIteration

FairSpec ==
    /\ Spec
    /\ WF_vars(LoopStep)
    /\ SF_vars(crash = "none" /\ UNCHANGED scripts /\ EndNetwork)

-----------------------------------------------------------------------------
(* Properties. *)

Joining == phase \in {"joinFS", "joinGM"}
\* The callbacks about the player whose packet is being handled.
PacketPhases == {"joinFS", "joinGM", "asking", "dying"}
InLoop == phase \in Loop /\ crash = "none"
Playing == InLoop /\ gameState = "running"

\* The player count and the highest used id agree with the slots between any
\* two handlers, whoever is kicked in the middle of a join, a restart or a
\* re-initialisation (New and Delete each do half of the accounting,
\* playerpool.cpp 95-102 and 155-162).
CountsMatch ==
    InLoop =>
        /\ count = Cardinality(slots)
        /\ IF slots = {} THEN last = -1
           ELSE last \in slots /\ \A p \in slots : p =< last

\* Nobody occupies a slot without a connection: a player whom the server
\* disconnected is gone from the pool as well, in every phase.
NobodyWithoutConnection == crash = "none" => slots \subseteq online

\* The pool's own accounting and the connections agree.
PoolIsExact == CountsMatch /\ NobodyWithoutConnection

\* Whatever the order of joins, kicks and restarts, the last thing each player
\* was told about the game is true: InitGame when it runs, GameModeRestart
\* when it does not (ShutdownForGameModeRestart, ReInitWhenRestarting,
\* ProcessClientJoin).
ToldTheTruth ==
    InLoop => \A p \in slots :
        told[p] = IF gameState = "running" THEN "game" ELSE "restart"

\* While the game runs the world and the game mode are there for the handlers
\* that use them unchecked, and while it restarts both are gone.
WorldMatchesState ==
    InLoop => pools = (gameState = "running") /\ gameMode = pools

\* The game mode has been told exactly once about exactly the players that are
\* there, provided nobody is kicked by the callbacks of a restart.
GameModePaired ==
    scripts.kicks \cap {"loading", "reinitFS", "reinitGM"} = {} /\ Playing
        => \A p \in Players : gm[p] = IF p \in slots THEN "in" ELSE "out"

\* Filter scripts, which outlive the mode, know everyone who is there and
\* nobody else.  They may hear of a player twice: once when it joins during a
\* restart and again when the restart ends.
FilterScriptsPaired ==
    scripts.kicks \subseteq PacketPhases /\ Playing
        => \A p \in Players : fs[p] \in IF p \in slots THEN {"in", "twice"} ELSE {"out"}

\* What scripts keep for a player between OnPlayerConnect and
\* OnPlayerDisconnect belongs to who is there, after any joins, kicks, departures
\* and restarts (netgame.cpp 478-495, playerpool.cpp 88-92, 118-123, 331-343).
ScriptsArePaired == GameModePaired /\ FilterScriptsPaired

\* A running game stops in two ways only, whatever scripts kick and whenever modes
\* end: a script kicked a player in the middle of that player's own join or request,
\* which goes on with him (netgame.cpp 1214, netrpc.cpp 233, player.cpp 827-941), or
\* the log of a kill names an empty slot (player.cpp 826-827).  In particular no
\* handler of a running game goes through the pools, the game mode or the scripts
\* that restarts take away and bring back.
RunningGameIsSafe ==
    crash # "none" /\ gameState = "running" /\ phase # "stopped" =>
        /\ crash = "player"
        /\ \/ scripts.kicks \cap PacketPhases # {} /\ who \notin slots
           \/ scripts.logs /\ who \in slots

\* "Remove all personal objects (checking done by the function)"
\* (playerpool.cpp 144): leaving never goes through a null object pool.
LeavingIsChecked == crash # "objectPool"

Over == crash # "none" \/ phase = "stopped"

\* A request to end the game mode made while the game runs takes the game down and is
\* not lost (main.cpp 473-476), and a game that went down comes up again by itself
\* (netgame.cpp 616-621), unless filter scripts end it again and again while it is down.
RestartsHappen ==
    /\ finished /\ gameState = "running" ~> gameState = "restarting" \/ Over
    /\ ~scripts.exits /\ gameState = "restarting" ~> gameState = "running" \/ Over
=============================================================================
