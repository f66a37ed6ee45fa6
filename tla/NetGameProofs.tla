---------------------------- MODULE NetGameProofs ----------------------------
(***************************************************************************)
(* Proofs about NetGame, for any number of players, any wait, and whatever *)
(* the scripts' callbacks do.                                              *)
(*                                                                         *)
(* The properties speak of the loop between two handlers; the invariants   *)
(* say what holds in the middle of one.                                    *)
(***************************************************************************)
EXTENDS NetGame, SlotLemmas, FiniteSetTheorems, TLAPS

\* What each phase says about the game state and the pools.
WorldInv ==
    /\ phase = "loading" => gameState = "restarting"
    /\ phase \in {"reinit", "reinitFS", "reinitGM"} => gameState = "running"
    /\ phase \in {"reinitFS", "reinitGM"} => who \in Players
    /\ phase \in PacketPhases => who \in Players
    /\ phase = "dying" => gameState = "running"
    /\ phase # "stopped" =>
         gameMode = pools /\ pools = (gameState = "running" \/ phase = "loading")
    /\ gameState = "restarting" /\ phase # "loading" => waitTime =< WaitLimit

\* New counts the player last, Delete counts at once.
CountInv ==
    crash = "none" =>
        /\ count = Cardinality(slots) - (IF Joining THEN 1 ELSE 0)
        /\ ~Joining => last = LastOf(slots)

\* Has p been told that the game is up?
Up(p) == CASE phase = "exiting" -> FALSE
           [] phase = "reinit" -> p < who
           [] phase \in {"reinitFS", "reinitGM"} -> p =< who
           [] OTHER -> gameState = "running"

ToldInv ==
    crash = "none" => \A p \in slots :
        (Joining => p # who) => told[p] = IF Up(p) THEN "game" ELSE "restart"

\* A player whose packet is being handled is still there, unless a callback kicked him.
SafeInv ==
    /\ scripts.kicks \cap PacketPhases = {} /\ phase \in PacketPhases => who \in slots
    /\ RunningGameIsSafe

-----------------------------------------------------------------------------
(* The scan for the last player. *)

LEMMA PlayersFinite == IsFiniteSet(Players)
  BY FS_Interval, NetGameAssumption DEF Players

LEMMA LastOfIsMaximum ==
    ASSUME NEW S \in SUBSET Players, S # {}
    PROVE  LastOf(S) \in S /\ \A q \in S : q =< LastOf(S)
<1>1. IsFiniteSet(S)
  BY PlayersFinite, FS_Subset
<1>0. S \in SUBSET Int
  BY NetGameAssumption DEF Players
<1>2. PICK p \in S : \A q \in S : q =< p
  BY <1>0, <1>1, FiniteMaximum
<1>3. QED
  BY <1>2 DEF LastOf

LEMMA LastOfType == \A S \in SUBSET Players : LastOf(S) \in Players \cup {-1}
  BY LastOfIsMaximum DEF LastOf
-----------------------------------------------------------------------------
(* Types and control. *)

LEMMA ViewType == \A v \in Views : Announced(v) \in Views /\ Dismissed(v) \in Views
  BY DEF Views, Announced, Dismissed

LEMMA Bounds ==
    /\ 0 \in 0 .. MaxPlayers /\ 0 \in 0 .. (WaitLimit + 1)
    /\ \A p \in Players : p \in 0 .. MaxPlayers /\ p + 1 \in 0 .. MaxPlayers
    /\ \A p \in 0 .. MaxPlayers : p \in Int /\ (p # MaxPlayers <=> p \in Players)
    /\ \A p \in 0 .. MaxPlayers : p < MaxPlayers <=> p \in Players
    /\ \A w \in 0 .. (WaitLimit + 1) :
          /\ w =< WaitLimit => w + 1 \in 0 .. (WaitLimit + 1)
          /\ ~(w + 1 > WaitLimit) => w + 1 =< WaitLimit
    /\ 0 =< WaitLimit
  BY NetGameAssumption DEF Players

\* What Delete does to the types, for the three actions that use it.
LEMMA DeleteType ==
    ASSUME TypeOK, NEW p \in Players, Delete(p)
    PROVE  /\ slots' \in SUBSET Players
           /\ count' \in Int /\ last' \in Players \cup {-1}
           /\ told' \in [Players -> {"nothing", "game", "restart"}]
           /\ gm' \in [Players -> Views] /\ fs' \in [Players -> Views]
           /\ crash' \in {"none", "objectPool", "gameMode", "player", "filterScripts"}
<1>1. slots' \in SUBSET Players
  BY DEF Delete, TypeOK
<1>2. CASE pools
  BY <1>1, <1>2, ViewType, LastOfType DEF Delete, TypeOK
<1>3. CASE ~pools
  BY <1>1, <1>3, ViewType DEF Delete, TypeOK
<1>4. QED
  BY <1>2, <1>3

LEMMA InitType == Init => TypeOK
  BY Bounds DEF Init, TypeOK, Loop, Views

LEMMA NextType == TypeOK /\ WorldInv /\ [Next]_vars => TypeOK'
<1> SUFFICES ASSUME TypeOK, WorldInv, [Next]_vars
             PROVE  TypeOK'
  OBVIOUS
<1>0. scripts' = scripts
  BY DEF Next, vars
<1> USE <1>0
<1> USE ViewType, LastOfType, Bounds DEF TypeOK, Loop, CallbackPhases, PacketPhases, gameVars, poolVars, viewVars
<1>1. ASSUME NEW p \in Players, NewIncomingConnection(p)
      PROVE  TypeOK'
  BY <1>1 DEF NewIncomingConnection
<1>2. ASSUME NEW p \in Players, ClientJoin(p)
      PROVE  TypeOK'
  BY <1>2 DEF ClientJoin
<1>3. ASSUME NEW p \in Players, Disconnection(p)
      PROVE  TypeOK'
  <2>1. CASE p \in slots
    BY <1>3, <2>1, DeleteType DEF Disconnection
  <2>2. CASE p \notin slots
    BY <1>3, <2>2 DEF Disconnection
  <2>3. QED
    BY <2>1, <2>2
<1>4. ASSUME NEW p \in Players, Kick(p)
      PROVE  TypeOK'
  BY <1>4, DeleteType DEF Kick, KickPlayer
<1>5. ASSUME Gmx
      PROVE  TypeOK'
  BY <1>5 DEF Gmx
<1>6. ASSUME NEW p \in Players, KickInCallback(p)
      PROVE  TypeOK'
  BY <1>6, DeleteType DEF KickInCallback, KickPlayer
<1>7. ASSUME GameModeExit
      PROVE  TypeOK'
  BY <1>7 DEF GameModeExit
<1>8. ASSUME AnnounceJoin
      PROVE  TypeOK'
  BY <1>8 DEF AnnounceJoin, WorldInv
<1>9. ASSUME ProcessClientJoin
      PROVE  TypeOK'
  BY <1>9 DEF ProcessClientJoin, ToldOnJoin
<1>10. ASSUME EndNetwork
      PROVE  TypeOK'
  BY <1>10 DEF EndNetwork
<1>11. ASSUME Frame
      PROVE  TypeOK'
  BY <1>11 DEF Frame
<1>12. ASSUME RestartWait
      PROVE  TypeOK'
  BY <1>12 DEF RestartWait, WorldInv, Views
<1>13. ASSUME EndInit
      PROVE  TypeOK'
  BY <1>13 DEF EndInit
<1>14. ASSUME ReInitPlayer
      PROVE  TypeOK'
  BY <1>14 DEF ReInitPlayer
<1>15. ASSUME ReInitGameMode
      PROVE  TypeOK'
  BY <1>15 DEF ReInitGameMode, WorldInv
<1>16. ASSUME ReInitNext
      PROVE  TypeOK'
  BY <1>16 DEF ReInitNext, WorldInv
<1>17. ASSUME ReInitDone
      PROVE  TypeOK'
  BY <1>17 DEF ReInitDone
<1>18. ASSUME Shutdown
      PROVE  TypeOK'
  BY <1>18 DEF Shutdown, NullGameModeUsed
<1>19. ASSUME ShutdownDone
      PROVE  TypeOK'
  BY <1>19 DEF ShutdownDone, EndShutdown
<1>20. ASSUME NextIteration
      PROVE  TypeOK'
  BY <1>20 DEF NextIteration
<1>21. ASSUME Quit
      PROVE  TypeOK'
  BY <1>21 DEF Quit
<1>22. ASSUME UNCHANGED vars
      PROVE  TypeOK'
  BY <1>22 DEF vars
<1>23. ASSUME NEW p \in Players, PlayerRequest(p)
      PROVE  TypeOK'
  BY <1>23 DEF PlayerRequest
<1>24. ASSUME EndPlayerRequest
      PROVE  TypeOK'
  BY <1>24 DEF EndPlayerRequest, AfterUse
<1>25. ASSUME NEW p \in Players, Death(p)
      PROVE  TypeOK'
  BY <1>25 DEF Death
<1>26. ASSUME NEW killer \in Killers, EndDeath(killer)
      PROVE  TypeOK'
  BY <1>26 DEF EndDeath, AfterUse
<1>27. QED
  BY <1>1, <1>2, <1>3, <1>4, <1>5, <1>6, <1>7, <1>8, <1>9, <1>10, <1>11,
     <1>12, <1>13, <1>14, <1>15, <1>16, <1>17, <1>18, <1>19, <1>20, <1>21,
     <1>22, <1>23, <1>24, <1>25, <1>26
     DEF Next, Packet, Callback, Handling, Restart

LEMMA InitWorld == Init => WorldInv
  BY DEF Init, WorldInv, PacketPhases

LEMMA NextWorld == TypeOK /\ WorldInv /\ [Next]_vars => WorldInv'
<1> SUFFICES ASSUME TypeOK, WorldInv, [Next]_vars
             PROVE  WorldInv'
  OBVIOUS
<1> USE Bounds DEF TypeOK, WorldInv, Loop, CallbackPhases, PacketPhases, gameVars, poolVars, viewVars
<1>1. ASSUME NEW p \in Players, NewIncomingConnection(p)
      PROVE  WorldInv'
  BY <1>1 DEF NewIncomingConnection
<1>2. ASSUME NEW p \in Players, ClientJoin(p)
      PROVE  WorldInv'
  BY <1>2 DEF ClientJoin
<1>3. ASSUME NEW p \in Players, Disconnection(p)
      PROVE  WorldInv'
  BY <1>3 DEF Disconnection, Delete
<1>4. ASSUME NEW p \in Players, Kick(p)
      PROVE  WorldInv'
  BY <1>4 DEF Kick, KickPlayer, Delete
<1>5. ASSUME Gmx
      PROVE  WorldInv'
  BY <1>5 DEF Gmx
<1>6. ASSUME NEW p \in Players, KickInCallback(p)
      PROVE  WorldInv'
  BY <1>6 DEF KickInCallback, KickPlayer, Delete
<1>7. ASSUME GameModeExit
      PROVE  WorldInv'
  BY <1>7 DEF GameModeExit
<1>8. ASSUME AnnounceJoin
      PROVE  WorldInv'
  BY <1>8 DEF AnnounceJoin
<1>9. ASSUME ProcessClientJoin
      PROVE  WorldInv'
  BY <1>9 DEF ProcessClientJoin, ToldOnJoin
<1>10. ASSUME EndNetwork
      PROVE  WorldInv'
  BY <1>10 DEF EndNetwork
<1>11. ASSUME Frame
      PROVE  WorldInv'
  BY <1>11 DEF Frame
<1>12. ASSUME RestartWait
      PROVE  WorldInv'
  BY <1>12 DEF RestartWait
<1>13. ASSUME EndInit
      PROVE  WorldInv'
  BY <1>13 DEF EndInit
<1>14. ASSUME ReInitPlayer
      PROVE  WorldInv'
  BY <1>14 DEF ReInitPlayer
<1>15. ASSUME ReInitGameMode
      PROVE  WorldInv'
  BY <1>15 DEF ReInitGameMode
<1>16. ASSUME ReInitNext
      PROVE  WorldInv'
  BY <1>16 DEF ReInitNext
<1>17. ASSUME ReInitDone
      PROVE  WorldInv'
  BY <1>17 DEF ReInitDone
<1>18. ASSUME Shutdown
      PROVE  WorldInv'
  BY <1>18 DEF Shutdown, NullGameModeUsed
<1>19. ASSUME ShutdownDone
      PROVE  WorldInv'
  BY <1>19 DEF ShutdownDone, EndShutdown
<1>20. ASSUME NextIteration
      PROVE  WorldInv'
  BY <1>20 DEF NextIteration
<1>21. ASSUME Quit
      PROVE  WorldInv'
  BY <1>21 DEF Quit
<1>22. ASSUME UNCHANGED vars
      PROVE  WorldInv'
  BY <1>22 DEF vars
<1>23. ASSUME NEW p \in Players, PlayerRequest(p)
      PROVE  WorldInv'
  BY <1>23 DEF PlayerRequest
<1>24. ASSUME EndPlayerRequest
      PROVE  WorldInv'
  BY <1>24 DEF EndPlayerRequest, AfterUse
<1>25. ASSUME NEW p \in Players, Death(p)
      PROVE  WorldInv'
  BY <1>25 DEF Death
<1>26. ASSUME NEW killer \in Killers, EndDeath(killer)
      PROVE  WorldInv'
  BY <1>26 DEF EndDeath, AfterUse
<1>27. QED
  BY <1>1, <1>2, <1>3, <1>4, <1>5, <1>6, <1>7, <1>8, <1>9, <1>10, <1>11,
     <1>12, <1>13, <1>14, <1>15, <1>16, <1>17, <1>18, <1>19, <1>20, <1>21,
     <1>22, <1>23, <1>24, <1>25, <1>26
     DEF Next, Packet, Callback, Handling, Restart

-----------------------------------------------------------------------------
(* The player count: New and Delete. *)

LEMMA CountType ==
    TypeOK => /\ IsFiniteSet(slots) /\ Cardinality(slots) \in Nat
              /\ Cardinality({}) = 0
              /\ \A p : /\ p \in slots => Cardinality(slots \ {p}) = Cardinality(slots) - 1
                        /\ p \notin slots => Cardinality(slots \cup {p}) = Cardinality(slots) + 1
  BY PlayersFinite, FS_Subset, FS_CardinalityType, FS_EmptySet, FS_AddElement,
     FS_RemoveElement DEF TypeOK

LEMMA InitCount == Init => CountInv
  BY FS_EmptySet DEF Init, CountInv, Joining, LastOf

LEMMA NextCount == TypeOK /\ CountInv /\ [Next]_vars => CountInv'
<1> SUFFICES ASSUME TypeOK, CountInv, [Next]_vars
             PROVE  CountInv'
  OBVIOUS
<1> USE CountType, LastOfType DEF TypeOK, CountInv, Joining, gameVars, poolVars, viewVars
<1>1. ASSUME NEW p \in Players, NewIncomingConnection(p)
      PROVE  CountInv'
  BY <1>1 DEF NewIncomingConnection
<1>2. ASSUME NEW p \in Players, ClientJoin(p)
      PROVE  CountInv'
  BY <1>2 DEF ClientJoin
<1>3. ASSUME NEW p \in Players, Disconnection(p)
      PROVE  CountInv'
  <2>1. CASE p \in slots
    BY <1>3, <2>1 DEF Disconnection, Delete
  <2>2. CASE p \notin slots
    BY <1>3, <2>2 DEF Disconnection
  <2>3. QED
    BY <2>1, <2>2
<1>4. ASSUME NEW p \in Players, Kick(p)
      PROVE  CountInv'
  BY <1>4 DEF Kick, KickPlayer, Delete
<1>5. ASSUME Gmx
      PROVE  CountInv'
  BY <1>5 DEF Gmx
<1>6. ASSUME NEW p \in Players, KickInCallback(p)
      PROVE  CountInv'
  BY <1>6 DEF KickInCallback, KickPlayer, Delete
<1>7. ASSUME GameModeExit
      PROVE  CountInv'
  BY <1>7 DEF GameModeExit
<1>8. ASSUME AnnounceJoin
      PROVE  CountInv'
  BY <1>8 DEF AnnounceJoin
<1>9. ASSUME ProcessClientJoin
      PROVE  CountInv'
  BY <1>9 DEF ProcessClientJoin, ToldOnJoin
<1>10. ASSUME EndNetwork
      PROVE  CountInv'
  BY <1>10 DEF EndNetwork
<1>11. ASSUME Frame
      PROVE  CountInv'
  BY <1>11 DEF Frame
<1>12. ASSUME RestartWait
      PROVE  CountInv'
  BY <1>12 DEF RestartWait
<1>13. ASSUME EndInit
      PROVE  CountInv'
  BY <1>13 DEF EndInit
<1>14. ASSUME ReInitPlayer
      PROVE  CountInv'
  BY <1>14 DEF ReInitPlayer
<1>15. ASSUME ReInitGameMode
      PROVE  CountInv'
  BY <1>15 DEF ReInitGameMode
<1>16. ASSUME ReInitNext
      PROVE  CountInv'
  BY <1>16 DEF ReInitNext
<1>17. ASSUME ReInitDone
      PROVE  CountInv'
  BY <1>17 DEF ReInitDone
<1>18. ASSUME Shutdown
      PROVE  CountInv'
  BY <1>18 DEF Shutdown, NullGameModeUsed
<1>19. ASSUME ShutdownDone
      PROVE  CountInv'
  BY <1>19 DEF ShutdownDone, EndShutdown
<1>20. ASSUME NextIteration
      PROVE  CountInv'
  BY <1>20 DEF NextIteration
<1>21. ASSUME Quit
      PROVE  CountInv'
  BY <1>21 DEF Quit, LastOf
<1>22. ASSUME UNCHANGED vars
      PROVE  CountInv'
  BY <1>22 DEF vars
<1>23. ASSUME NEW p \in Players, PlayerRequest(p)
      PROVE  CountInv'
  BY <1>23 DEF PlayerRequest
<1>24. ASSUME EndPlayerRequest
      PROVE  CountInv'
  BY <1>24 DEF EndPlayerRequest, AfterUse
<1>25. ASSUME NEW p \in Players, Death(p)
      PROVE  CountInv'
  BY <1>25 DEF Death
<1>26. ASSUME NEW killer \in Killers, EndDeath(killer)
      PROVE  CountInv'
  BY <1>26 DEF EndDeath, AfterUse
<1>27. QED
  BY <1>1, <1>2, <1>3, <1>4, <1>5, <1>6, <1>7, <1>8, <1>9, <1>10, <1>11,
     <1>12, <1>13, <1>14, <1>15, <1>16, <1>17, <1>18, <1>19, <1>20, <1>21,
     <1>22, <1>23, <1>24, <1>25, <1>26
     DEF Next, Packet, Callback, Handling, Restart

-----------------------------------------------------------------------------
(* What the clients were told. *)

LEMMA Cursor ==
    \A p \in Players, w \in 0 .. MaxPlayers :
        /\ ~(p < 0) /\ p < MaxPlayers
        /\ p < w + 1 <=> p =< w
        /\ p =< w <=> p < w \/ p = w
  BY NetGameAssumption DEF Players

LEMMA InitTold == Init => ToldInv
  BY DEF Init, ToldInv

LEMMA NextTold == TypeOK /\ WorldInv /\ ToldInv /\ [Next]_vars => ToldInv'
<1> SUFFICES ASSUME TypeOK, WorldInv, ToldInv, [Next]_vars
             PROVE  ToldInv'
  OBVIOUS
<1> USE Cursor DEF TypeOK, WorldInv, ToldInv, Up, Joining, gameVars, poolVars, viewVars
<1>1. ASSUME NEW p \in Players, NewIncomingConnection(p)
      PROVE  ToldInv'
  BY <1>1 DEF NewIncomingConnection
<1>2. ASSUME NEW p \in Players, ClientJoin(p)
      PROVE  ToldInv'
  BY <1>2 DEF ClientJoin
<1>3. ASSUME NEW p \in Players, Disconnection(p)
      PROVE  ToldInv'
  BY <1>3 DEF Disconnection, Delete
<1>4. ASSUME NEW p \in Players, Kick(p)
      PROVE  ToldInv'
  BY <1>4 DEF Kick, KickPlayer, Delete
<1>5. ASSUME Gmx
      PROVE  ToldInv'
  BY <1>5 DEF Gmx
<1>6. ASSUME NEW p \in Players, KickInCallback(p)
      PROVE  ToldInv'
  BY <1>6 DEF KickInCallback, KickPlayer, Delete
<1>7. ASSUME GameModeExit
      PROVE  ToldInv'
  BY <1>7 DEF GameModeExit
<1>8. ASSUME AnnounceJoin
      PROVE  ToldInv'
  BY <1>8 DEF AnnounceJoin
<1>9. ASSUME ProcessClientJoin
      PROVE  ToldInv'
  BY <1>9 DEF ProcessClientJoin, ToldOnJoin
<1>10. ASSUME EndNetwork
      PROVE  ToldInv'
  BY <1>10 DEF EndNetwork
<1>11. ASSUME Frame
      PROVE  ToldInv'
  BY <1>11 DEF Frame
<1>12. ASSUME RestartWait
      PROVE  ToldInv'
  BY <1>12 DEF RestartWait
<1>13. ASSUME EndInit
      PROVE  ToldInv'
  BY <1>13 DEF EndInit
<1>14. ASSUME ReInitPlayer
      PROVE  ToldInv'
  BY <1>14 DEF ReInitPlayer
<1>15. ASSUME ReInitGameMode
      PROVE  ToldInv'
  BY <1>15 DEF ReInitGameMode
<1>16. ASSUME ReInitNext
      PROVE  ToldInv'
  BY <1>16 DEF ReInitNext
<1>17. ASSUME ReInitDone
      PROVE  ToldInv'
  BY <1>17 DEF ReInitDone
<1>18. ASSUME Shutdown
      PROVE  ToldInv'
  BY <1>18 DEF Shutdown, NullGameModeUsed
<1>19. ASSUME ShutdownDone
      PROVE  ToldInv'
  BY <1>19 DEF ShutdownDone, EndShutdown
<1>20. ASSUME NextIteration
      PROVE  ToldInv'
  BY <1>20 DEF NextIteration
<1>21. ASSUME Quit
      PROVE  ToldInv'
  BY <1>21 DEF Quit
<1>22. ASSUME UNCHANGED vars
      PROVE  ToldInv'
  BY <1>22 DEF vars
<1>23. ASSUME NEW p \in Players, PlayerRequest(p)
      PROVE  ToldInv'
  BY <1>23 DEF PlayerRequest
<1>24. ASSUME EndPlayerRequest
      PROVE  ToldInv'
  BY <1>24 DEF EndPlayerRequest, AfterUse
<1>25. ASSUME NEW p \in Players, Death(p)
      PROVE  ToldInv'
  BY <1>25 DEF Death
<1>26. ASSUME NEW killer \in Killers, EndDeath(killer)
      PROVE  ToldInv'
  BY <1>26 DEF EndDeath, AfterUse
<1>27. QED
  BY <1>1, <1>2, <1>3, <1>4, <1>5, <1>6, <1>7, <1>8, <1>9, <1>10, <1>11,
     <1>12, <1>13, <1>14, <1>15, <1>16, <1>17, <1>18, <1>19, <1>20, <1>21,
     <1>22, <1>23, <1>24, <1>25, <1>26
     DEF Next, Packet, Callback, Handling, Restart

-----------------------------------------------------------------------------
(* Connections. *)

LEMMA NextConnected ==
    NobodyWithoutConnection /\ [Next]_vars => NobodyWithoutConnection'
  BY DEF NobodyWithoutConnection, Next, Packet, Callback, Handling, Restart, vars,
     gameVars, poolVars, viewVars, NewIncomingConnection, ClientJoin,
     Disconnection, PlayerRequest, EndPlayerRequest, Death, EndDeath, AfterUse, Kick, Gmx, KickInCallback, GameModeExit,
     AnnounceJoin,
     ProcessClientJoin, EndNetwork, Frame, RestartWait, EndInit, ReInitPlayer,
     ReInitGameMode, ReInitNext, ReInitDone, Shutdown, ShutdownDone, EndShutdown,
     NextIteration, Quit, KickPlayer, Delete

-----------------------------------------------------------------------------
(* Null pointers. *)

LEMMA InitSafe == Init => SafeInv
  BY DEF Init, SafeInv, RunningGameIsSafe, PacketPhases

LEMMA NextSafe == WorldInv /\ SafeInv /\ [Next]_vars => SafeInv'
<1> SUFFICES ASSUME WorldInv, SafeInv, [Next]_vars
             PROVE  SafeInv'
  OBVIOUS
<1>0. scripts' = scripts
  BY DEF Next, vars
<1> USE <1>0
<1>a. CASE UNCHANGED vars
  BY <1>a DEF vars, SafeInv, RunningGameIsSafe, PacketPhases, gameVars, poolVars
<1>b. CASE Next
<2>0. crash = "none"
  BY <1>b DEF Next
<2> USE <2>0 DEF WorldInv, SafeInv, RunningGameIsSafe, PacketPhases, Joining, gameVars, poolVars, viewVars
<2>1. ASSUME NEW p \in Players, NewIncomingConnection(p)
      PROVE  SafeInv'
  BY <2>1 DEF NewIncomingConnection
<2>2. ASSUME NEW p \in Players, ClientJoin(p)
      PROVE  SafeInv'
  BY <2>2 DEF ClientJoin
<2>3. ASSUME NEW p \in Players, Disconnection(p)
      PROVE  SafeInv'
  BY <2>3 DEF Disconnection, Delete
<2>4. ASSUME NEW p \in Players, Kick(p)
      PROVE  SafeInv'
  BY <2>4 DEF Kick, KickPlayer, Delete
<2>5. ASSUME Gmx
      PROVE  SafeInv'
  BY <2>5 DEF Gmx
<2>6. ASSUME NEW p \in Players, KickInCallback(p)
      PROVE  SafeInv'
  BY <2>6 DEF KickInCallback, KickPlayer, Delete
<2>7. ASSUME GameModeExit
      PROVE  SafeInv'
  BY <2>7 DEF GameModeExit
<2>8. ASSUME AnnounceJoin
      PROVE  SafeInv'
  BY <2>8 DEF AnnounceJoin
<2>9. ASSUME ProcessClientJoin
      PROVE  SafeInv'
  BY <2>9 DEF ProcessClientJoin, ToldOnJoin
<2>10. ASSUME EndNetwork
      PROVE  SafeInv'
  BY <2>10 DEF EndNetwork
<2>11. ASSUME Frame
      PROVE  SafeInv'
  BY <2>11 DEF Frame
<2>12. ASSUME RestartWait
      PROVE  SafeInv'
  BY <2>12 DEF RestartWait
<2>13. ASSUME EndInit
      PROVE  SafeInv'
  BY <2>13 DEF EndInit
<2>14. ASSUME ReInitPlayer
      PROVE  SafeInv'
  BY <2>14 DEF ReInitPlayer
<2>15. ASSUME ReInitGameMode
      PROVE  SafeInv'
  BY <2>15 DEF ReInitGameMode
<2>16. ASSUME ReInitNext
      PROVE  SafeInv'
  BY <2>16 DEF ReInitNext
<2>17. ASSUME ReInitDone
      PROVE  SafeInv'
  BY <2>17 DEF ReInitDone
<2>18. ASSUME Shutdown
      PROVE  SafeInv'
  <3>1. gameState = "running" /\ phase # "stopped" => gameMode = TRUE
    OBVIOUS
  <3>2. QED
    BY <2>18, <3>1 DEF Shutdown, NullGameModeUsed
<2>19. ASSUME ShutdownDone
      PROVE  SafeInv'
  BY <2>19 DEF ShutdownDone, EndShutdown
<2>20. ASSUME NextIteration
      PROVE  SafeInv'
  BY <2>20 DEF NextIteration
<2>21. ASSUME Quit
      PROVE  SafeInv'
  BY <2>21 DEF Quit
<2>23. ASSUME NEW p \in Players, PlayerRequest(p)
      PROVE  SafeInv'
  BY <2>23 DEF PlayerRequest
<2>24. ASSUME EndPlayerRequest
      PROVE  SafeInv'
  BY <2>24 DEF EndPlayerRequest, AfterUse
<2>25. ASSUME NEW p \in Players, Death(p)
      PROVE  SafeInv'
  BY <2>25 DEF Death
<2>26. ASSUME NEW killer \in Killers, EndDeath(killer)
      PROVE  SafeInv'
  BY <2>26 DEF EndDeath, AfterUse
<2>27. QED
  BY <1>b, <2>1, <2>2, <2>3, <2>4, <2>5, <2>6, <2>7, <2>8, <2>9, <2>10, <2>11,
     <2>12, <2>13, <2>14, <2>15, <2>16, <2>17, <2>18, <2>19, <2>20, <2>21,
     <2>23, <2>24, <2>25, <2>26
     DEF Next, Packet, Callback, Handling, Restart
<1>c. QED
  BY <1>a, <1>b

-----------------------------------------------------------------------------
(* What the scripts were told. *)

\* What has the game mode been told of p, who has a slot?
ModeKnows(p) == CASE phase = "joinFS" -> p # who
                  [] phase = "loading" -> FALSE
                  [] phase \in {"reinit", "reinitFS"} -> p < who
                  [] phase = "reinitGM" -> p =< who
                  [] OTHER -> TRUE

ModeInv ==
    /\ scripts.kicks \cap {"loading", "reinitFS", "reinitGM"} = {}
    /\ crash = "none" /\ phase \notin {"exiting", "stopped"}
    /\ gameState = "running" \/ phase = "loading"
    => /\ phase \in {"reinitFS", "reinitGM"} => who \in slots
       /\ \A p \in Players :
             (Joining => p # who \/ who \in slots)
                => gm[p] = IF p \in slots /\ ModeKnows(p) THEN "in" ELSE "out"

\* Filter scripts know a player as soon as the game is up for him; one who joined
\* while it was not they know already.
FiltersInv ==
    scripts.kicks \subseteq PacketPhases /\ crash = "none" /\ phase # "stopped"
    => \A p \in Players :
          fs[p] \in IF p \notin slots THEN {"out"}
                    ELSE IF Up(p) THEN {"in", "twice"} ELSE {"out", "in"}

LEMMA Views4 ==
    /\ Announced("out") = "in" /\ Announced("in") = "twice" /\ Announced("twice") = "twice"
    /\ Dismissed("in") = "out" /\ Dismissed("twice") = "out"
  BY DEF Announced, Dismissed

LEMMA InitPaired == Init => ModeInv /\ FiltersInv
  BY DEF Init, ModeInv, FiltersInv, Joining

LEMMA NextMode == TypeOK /\ WorldInv /\ ModeInv /\ [Next]_vars => ModeInv'
<1> SUFFICES ASSUME TypeOK, WorldInv, ModeInv, [Next]_vars
             PROVE  ModeInv'
  OBVIOUS
<1>0. scripts' = scripts
  BY DEF Next, vars
<1> USE <1>0, Cursor, Views4 DEF TypeOK, WorldInv, ModeInv, ModeKnows, Joining, CallbackPhases, PacketPhases,
        gameVars, poolVars, viewVars
<1>1. ASSUME NEW p \in Players, NewIncomingConnection(p)
      PROVE  ModeInv'
  BY <1>1 DEF NewIncomingConnection
<1>2. ASSUME NEW p \in Players, ClientJoin(p)
      PROVE  ModeInv'
  BY <1>2 DEF ClientJoin
<1>3. ASSUME NEW p \in Players, Disconnection(p)
      PROVE  ModeInv'
  BY <1>3 DEF Disconnection, Delete
<1>4. ASSUME NEW p \in Players, Kick(p)
      PROVE  ModeInv'
  BY <1>4 DEF Kick, KickPlayer, Delete
<1>5. ASSUME Gmx
      PROVE  ModeInv'
  BY <1>5 DEF Gmx
<1>6. ASSUME NEW p \in Players, KickInCallback(p)
      PROVE  ModeInv'
  <2>1. CASE phase \in PacketPhases /\ gameMode
    <3>1. /\ p \in slots /\ slots' = slots \ {p}
          /\ gm'[p] = Dismissed(gm[p]) /\ \A q \in Players \ {p} : gm'[q] = gm[q]
          /\ UNCHANGED <<phase, who, gameVars>> /\ (crash' = "none" => crash = "none")
      BY <1>6, <2>1 DEF KickInCallback, KickPlayer, Delete
    <3>2. QED
      BY <2>1, <3>1
  <2>2. CASE phase \in PacketPhases /\ ~gameMode
    BY <1>6, <2>2 DEF KickInCallback, KickPlayer, Delete
  <2>3. CASE phase \in {"exiting", "loading", "reinitFS", "reinitGM"}
    BY <1>6, <2>3 DEF KickInCallback
  <2>4. phase \in CallbackPhases
    BY <1>6, NetGameAssumption DEF KickInCallback, Behaviours
  <2>5. QED
    BY <2>1, <2>2, <2>3, <2>4
<1>7. ASSUME GameModeExit
      PROVE  ModeInv'
  BY <1>7 DEF GameModeExit
<1>8. ASSUME AnnounceJoin
      PROVE  ModeInv'
  <2>1. /\ phase = "joinFS" /\ phase' = "joinGM" /\ who \in Players /\ crash' = crash
        /\ UNCHANGED <<who, gameState, slots>>
        /\ gameMode => gm'[who] = Announced(gm[who])
        /\ \A q \in Players \ {who} : gm'[q] = gm[q]
    BY <1>8 DEF AnnounceJoin
  <2>2. CASE gameState = "running"
    <3>1. gm'[who] = Announced(gm[who])
      <4>1. pools = TRUE /\ gameMode = pools
        BY <2>1, <2>2
      <4>2. QED
        BY <2>1, <4>1
    <3>2. QED
      BY <2>1, <2>2, <3>1
  <2>3. CASE gameState # "running"
    BY <2>1, <2>3
  <2>4. QED
    BY <2>2, <2>3
<1>9. ASSUME ProcessClientJoin
      PROVE  ModeInv'
  BY <1>9 DEF ProcessClientJoin, ToldOnJoin
<1>10. ASSUME EndNetwork
       PROVE  ModeInv'
  BY <1>10 DEF EndNetwork
<1>11. ASSUME Frame
       PROVE  ModeInv'
  BY <1>11 DEF Frame
<1>12. ASSUME RestartWait
       PROVE  ModeInv'
  BY <1>12 DEF RestartWait
<1>13. ASSUME EndInit
       PROVE  ModeInv'
  BY <1>13 DEF EndInit
<1>14. ASSUME ReInitPlayer
       PROVE  ModeInv'
  BY <1>14 DEF ReInitPlayer
<1>15. ASSUME ReInitGameMode
       PROVE  ModeInv'
  <2>1. /\ phase = "reinitFS" /\ phase' = "reinitGM" /\ who \in Players /\ crash' = crash
        /\ UNCHANGED <<who, gameState, slots>> /\ gm'[who] = Announced(gm[who])
        /\ \A q \in Players \ {who} : gm'[q] = gm[q]
    BY <1>15 DEF ReInitGameMode
  <2>2. \A q \in Players : ~(who < who) /\ (q # who => (q =< who <=> q < who)) /\ who =< who
    BY <2>1
  <2>3. QED
    BY <2>1, <2>2
<1>16. ASSUME ReInitNext
       PROVE  ModeInv'
  BY <1>16 DEF ReInitNext
<1>17. ASSUME ReInitDone
       PROVE  ModeInv'
  BY <1>17 DEF ReInitDone
<1>18. ASSUME Shutdown
       PROVE  ModeInv'
  BY <1>18 DEF Shutdown, NullGameModeUsed
<1>19. ASSUME ShutdownDone
       PROVE  ModeInv'
  BY <1>19 DEF ShutdownDone, EndShutdown
<1>20. ASSUME NextIteration
       PROVE  ModeInv'
  BY <1>20 DEF NextIteration
<1>21. ASSUME Quit
       PROVE  ModeInv'
  BY <1>21 DEF Quit
<1>22. ASSUME UNCHANGED vars
       PROVE  ModeInv'
  BY <1>22 DEF vars
<1>23. ASSUME NEW p \in Players, PlayerRequest(p)
       PROVE  ModeInv'
  BY <1>23 DEF PlayerRequest
<1>24. ASSUME EndPlayerRequest
       PROVE  ModeInv'
  BY <1>24 DEF EndPlayerRequest, AfterUse
<1>25. ASSUME NEW p \in Players, Death(p)
       PROVE  ModeInv'
  BY <1>25 DEF Death
<1>26. ASSUME NEW killer \in Killers, EndDeath(killer)
       PROVE  ModeInv'
  BY <1>26 DEF EndDeath, AfterUse
<1>27. QED
  BY <1>1, <1>2, <1>3, <1>4, <1>5, <1>6, <1>7, <1>8, <1>9, <1>10, <1>11,
     <1>12, <1>13, <1>14, <1>15, <1>16, <1>17, <1>18, <1>19, <1>20, <1>21,
     <1>22, <1>23, <1>24, <1>25, <1>26
     DEF Next, Packet, Callback, Handling, Restart

LEMMA NextFilters == TypeOK /\ WorldInv /\ FiltersInv /\ [Next]_vars => FiltersInv'
<1> SUFFICES ASSUME TypeOK, WorldInv, FiltersInv, [Next]_vars
             PROVE  FiltersInv'
  OBVIOUS
<1>0. scripts' = scripts
  BY DEF Next, vars
<1> USE <1>0, Cursor, Views4 DEF TypeOK, WorldInv, FiltersInv, Up, Joining, CallbackPhases, PacketPhases,
        gameVars, poolVars, viewVars
<1>1. ASSUME NEW p \in Players, NewIncomingConnection(p)
      PROVE  FiltersInv'
  BY <1>1 DEF NewIncomingConnection
<1>2. ASSUME NEW p \in Players, ClientJoin(p)
      PROVE  FiltersInv'
  BY <1>2 DEF ClientJoin
<1>3. ASSUME NEW p \in Players, Disconnection(p)
      PROVE  FiltersInv'
  <2>1. CASE p \notin slots
    BY <1>3, <2>1 DEF Disconnection
  <2>2. CASE p \in slots
    <3>1. /\ gameState = "running" \/ crash' # "none"
          /\ UNCHANGED <<phase, who, gameVars>> /\ phase = "network" /\ slots' = slots \ {p}
          /\ fs'[p] = Dismissed(fs[p]) /\ \A q \in Players \ {p} : fs'[q] = fs[q]
          /\ crash' = "none" => crash = "none"
      BY <1>3, <2>2 DEF Disconnection, Delete
    <3>2. QED
      BY <2>2, <3>1
  <2>3. QED
    BY <2>1, <2>2
<1>4. ASSUME NEW p \in Players, Kick(p)
      PROVE  FiltersInv'
  BY <1>4 DEF Kick, KickPlayer, Delete
<1>5. ASSUME Gmx
      PROVE  FiltersInv'
  BY <1>5 DEF Gmx
<1>6. ASSUME NEW p \in Players, KickInCallback(p)
      PROVE  FiltersInv'
  BY <1>6 DEF KickInCallback, KickPlayer, Delete
<1>7. ASSUME GameModeExit
      PROVE  FiltersInv'
  BY <1>7 DEF GameModeExit
<1>8. ASSUME AnnounceJoin
      PROVE  FiltersInv'
  BY <1>8 DEF AnnounceJoin
<1>9. ASSUME ProcessClientJoin
      PROVE  FiltersInv'
  BY <1>9 DEF ProcessClientJoin, ToldOnJoin
<1>10. ASSUME EndNetwork
       PROVE  FiltersInv'
  BY <1>10 DEF EndNetwork
<1>11. ASSUME Frame
       PROVE  FiltersInv'
  BY <1>11 DEF Frame
<1>12. ASSUME RestartWait
       PROVE  FiltersInv'
  BY <1>12 DEF RestartWait
<1>13. ASSUME EndInit
       PROVE  FiltersInv'
  BY <1>13 DEF EndInit
<1>14. ASSUME ReInitPlayer
       PROVE  FiltersInv'
  BY <1>14 DEF ReInitPlayer
<1>15. ASSUME ReInitGameMode
       PROVE  FiltersInv'
  BY <1>15 DEF ReInitGameMode
<1>16. ASSUME ReInitNext
       PROVE  FiltersInv'
  BY <1>16 DEF ReInitNext
<1>17. ASSUME ReInitDone
       PROVE  FiltersInv'
  BY <1>17 DEF ReInitDone
<1>18. ASSUME Shutdown
       PROVE  FiltersInv'
  <2>1. CASE NullGameModeUsed
    BY <1>18, <2>1 DEF Shutdown
  <2>2. CASE ~NullGameModeUsed
    <3>1. /\ phase = "finish" /\ phase' = "exiting" /\ crash' = crash
          /\ UNCHANGED <<gameState, slots>>
          /\ \A q \in Players : fs'[q] = IF q \in slots THEN Dismissed(fs[q]) ELSE fs[q]
      BY <1>18, <2>2 DEF Shutdown
    <3>2. slots # {} => gameState = "running"
      <4>1. slots # {} => gameMode = TRUE
        BY <2>2 DEF NullGameModeUsed
      <4>2. gameMode = pools /\ (pools = TRUE => gameState = "running")
        BY <3>1
      <4>3. QED
        BY <4>1, <4>2
    <3>3. QED
      BY <3>1, <3>2
  <2>3. QED
    BY <2>1, <2>2
<1>19. ASSUME ShutdownDone
       PROVE  FiltersInv'
  BY <1>19 DEF ShutdownDone, EndShutdown
<1>20. ASSUME NextIteration
       PROVE  FiltersInv'
  BY <1>20 DEF NextIteration
<1>21. ASSUME Quit
       PROVE  FiltersInv'
  BY <1>21 DEF Quit
<1>22. ASSUME UNCHANGED vars
       PROVE  FiltersInv'
  BY <1>22 DEF vars
<1>23. ASSUME NEW p \in Players, PlayerRequest(p)
       PROVE  FiltersInv'
  BY <1>23 DEF PlayerRequest
<1>24. ASSUME EndPlayerRequest
       PROVE  FiltersInv'
  BY <1>24 DEF EndPlayerRequest, AfterUse
<1>25. ASSUME NEW p \in Players, Death(p)
       PROVE  FiltersInv'
  BY <1>25 DEF Death
<1>26. ASSUME NEW killer \in Killers, EndDeath(killer)
       PROVE  FiltersInv'
  BY <1>26 DEF EndDeath, AfterUse
<1>27. QED
  BY <1>1, <1>2, <1>3, <1>4, <1>5, <1>6, <1>7, <1>8, <1>9, <1>10, <1>11,
     <1>12, <1>13, <1>14, <1>15, <1>16, <1>17, <1>18, <1>19, <1>20, <1>21,
     <1>22, <1>23, <1>24, <1>25, <1>26
     DEF Next, Packet, Callback, Handling, Restart

-----------------------------------------------------------------------------
(* Theorems. *)

\* Every variable keeps its type: the wait never overruns and the loops stay
\* inside the player slots, however restarts and joins follow each other.
THEOREM TypeCorrect == Spec => []TypeOK
<1>1. QED
  BY InitType, InitWorld, NextType, NextWorld, PTL DEF Spec

\* Between two handlers the world and the game mode exist exactly while the
\* game runs.
THEOREM WorldFollowsState == Spec => []WorldMatchesState
<1>1. TypeOK /\ WorldInv => WorldMatchesState
  BY DEF TypeOK, WorldInv, WorldMatchesState, InLoop, Loop
<1>2. QED
  BY InitType, InitWorld, NextType, NextWorld, <1>1, PTL DEF Spec

\* The player count is the number of players and the last id the greatest one
\* in use, even when callbacks kick players in the middle of a join.
THEOREM CountsAreRight == Spec => []CountsMatch
<1>1. TypeOK /\ CountInv => CountsMatch
  <2>1. TypeOK => Cardinality(slots) - 0 = Cardinality(slots)
    BY CountType
  <2>2. TypeOK /\ slots # {} => LastOf(slots) \in slots /\ \A p \in slots : p =< LastOf(slots)
    BY LastOfIsMaximum DEF TypeOK
  <2>3. slots = {} => LastOf(slots) = -1
    BY DEF LastOf
  <2>4. QED
    BY <2>1, <2>2, <2>3 DEF CountInv, CountsMatch, InLoop, Loop, Joining
<1>2. QED
  BY InitType, InitWorld, InitCount, NextType, NextWorld, NextCount, <1>1, PTL
     DEF Spec

\* What each player was last told about the game is true between two handlers.
THEOREM ClientsAreToldTheTruth == Spec => []ToldTheTruth
<1>1. ToldInv => ToldTheTruth
  BY DEF ToldInv, ToldTheTruth, InLoop, Loop, Up, Joining
<1>2. QED
  BY InitType, InitWorld, InitTold, NextType, NextWorld, NextTold, <1>1, PTL
     DEF Spec

\* The server never keeps a player whose connection is closed.
THEOREM SlotsAreConnected == Spec => []NobodyWithoutConnection
<1>1. Init => NobodyWithoutConnection
  BY DEF Init, NobodyWithoutConnection
<1>2. QED
  BY <1>1, NextConnected, PTL DEF Spec

\* The player pool is exact: its counts are those of its slots, and its slots
\* those of connections.
THEOREM PoolIsRight == Spec => []PoolIsExact
  BY CountsAreRight, SlotsAreConnected, PTL DEF PoolIsExact

\* The pools, the game mode and the scripts are there for every handler of a running
\* game, whatever is kicked and however modes end; only a player kicked in the middle
\* of his own packet, or a killer who is not there, is followed into nothing
\* (netgame.cpp 1214, netrpc.cpp 233, player.cpp 826-827).
THEOREM RunningIsSafe == Spec => []RunningGameIsSafe
<1>1. SafeInv => RunningGameIsSafe
  BY DEF SafeInv
<1>2. QED
  BY InitType, InitWorld, InitSafe, NextType, NextWorld, NextSafe, <1>1, PTL
     DEF Spec

\* The game mode was told once of everybody who is there, and filter scripts know them
\* and nobody else: after any joins, departures, kicks and restarts, whatever callbacks
\* kick that the property allows (netgame.cpp 478-495, playerpool.cpp 88-92, 118-123).
THEOREM ScriptsKnowThePlayers == Spec => []ScriptsArePaired
<1>1. TypeOK /\ WorldInv /\ ModeInv => GameModePaired
  BY DEF ModeInv, ModeKnows, GameModePaired, Playing, InLoop, Loop, Joining
<1>2. FiltersInv => FilterScriptsPaired
  BY DEF FiltersInv, Up, FilterScriptsPaired, Playing, InLoop, Loop
<1>3. QED
  BY InitType, InitWorld, InitPaired, NextType, NextWorld, NextMode, NextFilters,
     <1>1, <1>2, PTL DEF Spec, ScriptsArePaired
=============================================================================
