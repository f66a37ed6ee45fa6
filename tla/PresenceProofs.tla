--------------------------- MODULE PresenceProofs ---------------------------
(* Proofs about Presence, for any number of players and of calls on their way. *)
EXTENDS Presence, TLAPS

LEMMA CalledType ==
    ASSUME NEW queues \in [Players -> Seq(Calls)], NEW S, NEW call \in Calls
    PROVE  Called(queues, S, call) \in [Players -> Seq(Calls)]
  BY DEF Called

\* Whoever spawns has a connection, and is no longer wasted.
LEMMA SpawnType ==
    ASSUME TypeOK, NEW S, NEW gone, NEW queues \in [Players -> Seq(Calls)],
           SpawnAndEnd(S, gone, queues)
    PROVE  /\ active' \subseteq (active \cup informed) \ gone
           /\ wasted' \subseteq wasted \ gone /\ waiting' \subseteq waiting \ gone
           /\ active' \cap wasted' = {}
           /\ up' \in [Players -> Seq(Calls)]
           /\ \A p \in Players : Len(up'[p]) =< MaxCalls
<1>1. "Spawn" \in Calls
  BY DEF Calls
<1>2. QED
  BY <1>1, CalledType DEF SpawnAndEnd, TypeOK, Room

\* What is left of a queue whose first call has arrived.
LEMMA RestType ==
    ASSUME TypeOK, NEW p \in Players, up[p] # <<>>
    PROVE  /\ Rest(p) \in [Players -> Seq(Calls)]
           /\ \A q \in Players : Len(Rest(p)[q]) =< MaxCalls
<1>1. /\ up \in [Players -> Seq(Calls)] /\ up[p] \in Seq(Calls)
      /\ \A q \in Players : Len(up[q]) =< MaxCalls
  BY DEF TypeOK
<1>2. Tail(up[p]) \in Seq(Calls) /\ Len(Tail(up[p])) = Len(up[p]) - 1 /\ Len(up[p]) \in Nat
  BY <1>1
<1>3. Len(Tail(up[p])) =< MaxCalls
  BY <1>1, <1>2, PresenceAssumption
<1>4. QED
  BY <1>1, <1>2, <1>3 DEF Rest

LEMMA InitType == Init => TypeOK
<1>1. <<>> \in Seq(Calls) /\ Len(<<>>) = 0 /\ 0 =< MaxCalls
  BY PresenceAssumption
<1>2. QED
  BY <1>1 DEF Init, TypeOK, Linked

LEMMA NextType == TypeOK /\ [Next]_vars => TypeOK'
<1> SUFFICES ASSUME TypeOK, [Next]_vars
             PROVE  TypeOK'
  OBVIOUS
<1> USE DEF serverVars, localVars, viewVars
<1>c. Calls = {"ClientJoin", "RequestClass", "RequestSpawn", "Spawn", "Death"}
  BY DEF Calls
<1>u. up \in [Players -> Seq(Calls)] /\ \A q \in Players : Len(up[q]) =< MaxCalls
  BY DEF TypeOK
<1>1. ASSUME NEW p \in Players, Connect(p)
      PROVE  TypeOK'
  <2>1. <<"ClientJoin">> \in Seq(Calls) /\ Len(<<"ClientJoin">>) =< MaxCalls
    BY <1>c, PresenceAssumption
  <2>2. Linked \subseteq Linked'
    BY <1>1 DEF Connect, Linked, TypeOK
  <2>3. QED
    BY <1>1, <2>1, <2>2 DEF Connect, TypeOK
<1>2. ASSUME NEW p \in Players, ClientJoin(p)
      PROVE  TypeOK'
  <2>1. Rest(p) \in [Players -> Seq(Calls)]
    BY <1>2, RestType DEF ClientJoin, Arrives
  <2>2. up' \in [Players -> Seq(Calls)] /\ Room
    BY <1>2, <2>1, <1>c, CalledType DEF ClientJoin
  <2>3. Linked' = Linked \cup {p}
    BY <1>2 DEF ClientJoin, Linked, TypeOK
  <2>4. SpawnedFor(p) \subseteq slots \ {p}
    BY DEF SpawnedFor
  <2>5. /\ slots' \subseteq Linked' /\ known' \subseteq slots'
        /\ link' \in [Players -> {"off", "await", "connected", "restarting"}]
    BY <1>2, <2>3 DEF ClientJoin, TypeOK
  <2>6. /\ listed' \in [Players -> SUBSET Players] /\ shown' \in [Players -> SUBSET Players]
        /\ \A c \in Players : shown'[c] \subseteq listed'[c]
    BY <1>2, <2>4 DEF ClientJoin, TypeOK, Linked
  <2>7. QED
    BY <1>2, <2>2, <2>3, <2>5, <2>6 DEF ClientJoin, TypeOK, Room
<1>3. ASSUME NEW p \in Players, Leave(p)
      PROVE  TypeOK'
  <2>1. PICK watchers \in SUBSET (spectating \ {p}) :
           /\ SpawnAndEnd(watchers, {p}, [up EXCEPT ![p] = <<>>])
           /\ spectating' = spectating \ (watchers \cup {p})
    BY <1>3 DEF Leave
  <2>2. [up EXCEPT ![p] = <<>>] \in [Players -> Seq(Calls)]
    BY <1>u
  <2>3. Linked' = Linked \ {p}
    BY <1>3 DEF Leave, Linked, TypeOK
  <2>4. /\ active' \cup wasted' \cup waiting' \subseteq Linked' /\ active' \cap wasted' = {}
        /\ up' \in [Players -> Seq(Calls)] /\ \A q \in Players : Len(up'[q]) =< MaxCalls
    <3>1. /\ active' \subseteq (active \cup informed) \ {p}
          /\ wasted' \subseteq wasted \ {p} /\ waiting' \subseteq waiting \ {p}
          /\ active' \cap wasted' = {}
          /\ up' \in [Players -> Seq(Calls)] /\ \A q \in Players : Len(up'[q]) =< MaxCalls
      BY <2>1, <2>2, SpawnType
    <3>2. active \cup informed \cup wasted \cup waiting \subseteq Linked
      BY DEF TypeOK
    <3>3. QED
      BY <3>1, <3>2, <2>3
  <2>5. /\ listed' \in [Players -> SUBSET Players] /\ shown' \in [Players -> SUBSET Players]
        /\ \A c \in Players : shown'[c] \subseteq listed'[c]
    BY <1>3 DEF Leave, Forgetting, TypeOK
  <2>6. QED
    BY <1>3, <2>1, <2>3, <2>4, <2>5 DEF Leave, TypeOK
<1>4. ASSUME NEW p \in Players, PressSpawn(p)
      PROVE  TypeOK'
  <2>1. up' \in [Players -> Seq(Calls)] /\ \A q \in Players : Len(up'[q]) =< MaxCalls
    BY <1>4, <1>u, <1>c, CalledType DEF PressSpawn, Room
  <2>2. Linked' = Linked /\ waiting' \subseteq Linked
    BY <1>4 DEF PressSpawn, TypeOK, Linked
  <2>3. QED
    BY <1>4, <2>1, <2>2 DEF PressSpawn, TypeOK
<1>5. ASSUME NEW p \in Players, PressArrow(p)
      PROVE  TypeOK'
  BY <1>5, <1>u, <1>c, CalledType DEF PressArrow, Selecting, Linked, TypeOK, Room
<1>6. ASSUME NEW p \in Players, Die(p)
      PROVE  TypeOK'
  <2> DEFINE queues == IF p \in spectating \cap informed THEN Called(up, {p}, "Spawn") ELSE up
  <2>1. queues \in [Players -> Seq(Calls)]
    BY <1>u, <1>c, CalledType
  <2>2. up' = Called(queues, {p}, "Death") /\ Room
    BY <1>6 DEF Die
  <2>3. up' \in [Players -> Seq(Calls)]
    BY <2>1, <2>2, <1>c, CalledType
  <2>4. /\ active' \subseteq active /\ waiting' \subseteq waiting
        /\ spectating' \subseteq spectating
        /\ wasted' \subseteq wasted \cup active /\ active' \cap wasted' = {}
    BY <1>6 DEF Die, TypeOK
  <2>5. /\ Linked' = Linked
        /\ UNCHANGED <<gameState, slots, state, known, link, informed, cleared, listed, shown>>
    BY <1>6 DEF Die, Linked
  <2> HIDE DEF queues
  <2>6. QED
    BY <2>2, <2>3, <2>4, <2>5 DEF TypeOK, Room
<1>7. ASSUME NEW p \in Players, Respawn(p)
      PROVE  TypeOK'
  <2>1. CASE SpawnLocally({p}, up) /\ UNCHANGED cleared
    BY <1>7, <2>1, <1>u, SpawnType DEF SpawnLocally, Respawn, Linked, TypeOK
  <2>2. CASE /\ wasted' = wasted \ {p} /\ cleared' = cleared \ {p}
             /\ up' = Called(up, {p}, "RequestClass") /\ Room
             /\ UNCHANGED <<active, waiting>>
    BY <1>7, <2>2, <1>u, <1>c, CalledType DEF Respawn, Linked, TypeOK, Room
  <2>3. QED
    BY <1>7, <2>1, <2>2 DEF Respawn
<1>8. ASSUME NEW p \in Players, Ignore(p)
      PROVE  TypeOK'
  BY <1>8, RestType DEF Ignore, Served, Arrives, Linked, TypeOK
<1>9. ASSUME NEW p \in Players, RequestClass(p)
      PROVE  TypeOK'
  BY <1>9, RestType DEF RequestClass, Served, Arrives, Linked, TypeOK
<1>10. ASSUME NEW p \in Players, RequestSpawn(p)
       PROVE  TypeOK'
  <2>1. Rest(p) \in [Players -> Seq(Calls)] /\ \A q \in Players : Len(Rest(p)[q]) =< MaxCalls
    BY <1>10, RestType DEF RequestSpawn, Served, Arrives
  <2>2. CASE SpawnLocally({p}, Rest(p))
    BY <1>10, <2>1, <2>2, SpawnType DEF SpawnLocally, RequestSpawn, Linked, TypeOK
  <2>3. CASE waiting' = waiting \ {p} /\ up' = Rest(p) /\ UNCHANGED <<active, wasted>>
    BY <1>10, <2>1, <2>3 DEF RequestSpawn, Linked, TypeOK
  <2>4. QED
    BY <1>10, <2>2, <2>3 DEF RequestSpawn
<1>11. ASSUME NEW p \in Players, Spawn(p)
       PROVE  TypeOK'
  <2>1. /\ shown' \in [Players -> SUBSET Players]
        /\ \A c \in Players : shown'[c] \subseteq listed[c]
    BY <1>11 DEF Spawn, ShowToOthers, TypeOK
  <2>2. QED
    BY <1>11, <2>1, RestType DEF Spawn, Served, Arrives, Linked, TypeOK
<1>12. ASSUME NEW p \in Players, Death(p)
       PROVE  TypeOK'
  BY <1>12, RestType DEF Death, Served, Arrives, Linked, TypeOK
<1>13. ASSUME NEW p \in Players, Sync(p)
       PROVE  TypeOK'
  <2>1. state' \in [Players -> {"none", "active", "spectating"}]
    BY <1>13 DEF Sync, TypeOK
  <2>2. /\ shown' \in [Players -> SUBSET Players]
        /\ \A c \in Players : shown'[c] \subseteq shown[c]
    <3>1. shown \in [Players -> SUBSET Players]
      BY DEF TypeOK
    <3>2. HideFromOthers(p) \/ shown' = shown
      BY <1>13 DEF Sync
    <3>3. CASE HideFromOthers(p)
      BY <3>1, <3>3 DEF HideFromOthers
    <3>4. QED
      BY <3>1, <3>2, <3>3
  <2>3. Linked' = Linked /\ UNCHANGED <<gameState, slots, known, link, localVars, listed, up>>
    BY <1>13 DEF Sync, Linked
  <2>4. QED
    BY <2>1, <2>2, <2>3 DEF TypeOK
<1>14. ASSUME NEW p \in Players, TogglePlayerSpectating(p)
       PROVE  TypeOK'
  <2>1. CASE spectating' = spectating \cup {p} /\ UNCHANGED <<active, wasted, waiting, up>>
    BY <1>14, <2>1 DEF TogglePlayerSpectating, Reachable, Linked, TypeOK
  <2>2. CASE StopSpectating({p}, up)
    BY <1>14, <2>2, <1>u, SpawnType
       DEF TogglePlayerSpectating, StopSpectating, SpawnLocally, Linked, TypeOK
  <2>3. QED
    BY <1>14, <2>1, <2>2 DEF TogglePlayerSpectating
<1>15. ASSUME NEW p \in Players, SetSpawnInfo(p)
       PROVE  TypeOK'
  BY <1>15 DEF SetSpawnInfo, Reachable, Linked, TypeOK
<1>16. ASSUME NEW p \in Players, SpawnPlayer(p)
       PROVE  TypeOK'
  BY <1>16, <1>u, SpawnType DEF SpawnPlayer, SpawnLocally, Linked, TypeOK
<1>17. ASSUME Restart
       PROVE  TypeOK'
  <2>1. Linked' = Linked
    BY <1>17 DEF Restart, Linked
  <2>2. QED
    BY <1>17, <2>1, <1>u, <1>c, CalledType DEF Restart, TypeOK, Room
<1>18. ASSUME ReInit
       PROVE  TypeOK'
  <2>1. Linked' = Linked
    BY <1>18 DEF ReInit, Linked, TypeOK
  <2>2. up' \in [Players -> Seq(Calls)]
    BY <1>18, <1>u, <1>c, CalledType DEF ReInit
  <2>3. \A p \in Players : Len(up'[p]) =< MaxCalls
    <3>1. \A p \in slots : up'[p] = Append(<<>>, "RequestClass")
      BY <1>18, <1>u DEF ReInit, Called, TypeOK, Linked
    <3>2. Len(Append(<<>>, "RequestClass")) =< MaxCalls
      BY PresenceAssumption
    <3>3. \A p \in Players \ slots : up'[p] = up[p]
      BY <1>18 DEF ReInit, Called
    <3>4. QED
      BY <3>1, <3>2, <3>3, <1>u
  <2>4. QED
    BY <1>18, <2>1, <2>2, <2>3 DEF ReInit, TypeOK
<1>19. ASSUME UNCHANGED vars
       PROVE  TypeOK'
  BY <1>19 DEF vars, Linked, TypeOK
<1>20. QED
  BY <1>1, <1>2, <1>3, <1>4, <1>5, <1>6, <1>7, <1>8, <1>9, <1>10, <1>11, <1>12,
     <1>13, <1>14, <1>15, <1>16, <1>17, <1>18, <1>19 DEF Next

\* Every variable of Presence keeps its type: no queue outgrows its bound, no
\* client that is gone has flags, and a client has peds only of players it lists.
THEOREM TypeCorrect == Spec => []TypeOK
  BY InitType, NextType, PTL DEF Spec
-----------------------------------------------------------------------------
(* Which players the clients list, also those that are still joining. *)

ListInv == \A c \in Players :
    /\ listed[c] \subseteq slots \ {c}
    /\ c \in slots => listed[c] = slots \ {c}

LEMMA InitList == Init => ListInv
  BY DEF Init, ListInv

LEMMA NextList == TypeOK /\ ListInv /\ [Next]_vars => ListInv'
<1> SUFFICES ASSUME TypeOK, ListInv, [Next]_vars
             PROVE  ListInv'
  OBVIOUS
<1> USE DEF ListInv, serverVars, viewVars
<1>1. ASSUME NEW p \in Players, ClientJoin(p)
      PROVE  ListInv'
  BY <1>1 DEF ClientJoin, Linked, TypeOK
<1>2. ASSUME NEW p \in Players, Leave(p)
      PROVE  ListInv'
  BY <1>2 DEF Leave, Forgetting, TypeOK
<1>3. CASE UNCHANGED <<slots, listed>>
  BY <1>3
<1>4. QED
  BY <1>1, <1>2, <1>3
     DEF Next, Connect, PressSpawn, PressArrow, Die, Respawn, Ignore, RequestClass,
         RequestSpawn, Spawn, Death, Sync, TogglePlayerSpectating, SetSpawnInfo,
         SpawnPlayer, Restart, ReInit, vars

\* Each client that has joined lists exactly the other players of the server,
\* although it may have heard of some of them before it joined (CPlayerPool::New
\* and InitPlayersForPlayer, playerpool.cpp 37-109, 184-221).
THEOREM ClientsListThePlayers == Spec => []ListMirrors
<1>1. TypeOK /\ ListInv => ListMirrors
  BY DEF TypeOK, ListInv, ListMirrors, Linked
<1>2. QED
  BY <1>1, InitType, NextType, InitList, NextList, PTL DEF Spec
-----------------------------------------------------------------------------
(* The time between two game modes. *)

\* Nobody is in the world for the server either, so who joins gets no peds.
ClearInv ==
    gameState = "restarting" =>
        \A p \in Players : shown[p] = {} /\ state[p] = "none"

LEMMA InitClear == Init => ClearInv
  BY DEF Init, ClearInv

LEMMA NextClear == TypeOK /\ ClearInv /\ [Next]_vars => ClearInv'
<1> SUFFICES ASSUME TypeOK, ClearInv, [Next]_vars
             PROVE  ClearInv'
  OBVIOUS
<1> USE DEF ClearInv, serverVars, viewVars
<1>1. ASSUME NEW p \in Players, ClientJoin(p)
      PROVE  ClearInv'
  <2>1. gameState = "restarting" => SpawnedFor(p) = {}
    BY DEF SpawnedFor, TypeOK, Linked
  <2>2. QED
    BY <1>1, <2>1 DEF ClientJoin
<1>2. ASSUME NEW p \in Players, Leave(p)
      PROVE  ClearInv'
  BY <1>2 DEF Leave, Forgetting, TypeOK
<1>3. CASE Restart \/ ReInit
  BY <1>3 DEF Restart, ReInit
<1>4. ASSUME NEW p \in Players, Spawn(p) \/ Death(p) \/ Sync(p)
      PROVE  ClearInv'
  BY <1>4 DEF Spawn, Death, Sync, Served
<1>5. CASE UNCHANGED <<gameState, state, shown>>
  BY <1>5
<1>6. QED
  BY <1>1, <1>2, <1>3, <1>4, <1>5
     DEF Next, Connect, PressSpawn, PressArrow, Die, Respawn, Ignore, RequestClass,
         RequestSpawn, TogglePlayerSpectating, SetSpawnInfo, SpawnPlayer, vars

\* While no game mode is there no client has a ped of anybody, and no call that
\* comes late brings one back (ShutdownForGameModeRestart, netgame.cpp 423-474).
THEOREM WorldIsCleared == Spec => []RestartClears
<1>1. ClearInv => RestartClears
  BY DEF ClearInv, RestartClears
<1>2. QED
  BY <1>1, InitType, NextType, InitClear, NextClear, PTL DEF Spec

-----------------------------------------------------------------------------
(* Queues of calls: what putting a call at the end and taking one from the   *)
(* front does to what is known of them.                                      *)

Has(q, call) == \E i \in DOMAIN q : q[i] = call

\* A player dies on his client after he spawned there.
DeathsFollowSpawns(q) ==
    \A i \in DOMAIN q : q[i] = "Death" => \E j \in 1 .. i - 1 : q[j] = "Spawn"

LEMMA HasAppend ==
    ASSUME NEW q \in Seq(Calls), NEW call, NEW other
    PROVE  Has(Append(q, call), other) <=> Has(q, other) \/ other = call
<1>1. /\ DOMAIN Append(q, call) = 1 .. Len(q) + 1 /\ DOMAIN q = 1 .. Len(q)
      /\ Len(q) \in Nat
      /\ Append(q, call)[Len(q) + 1] = call
      /\ \A i \in 1 .. Len(q) : Append(q, call)[i] = q[i]
  OBVIOUS
<1>2. QED
  BY <1>1 DEF Has

LEMMA HasTail ==
    ASSUME NEW q \in Seq(Calls), q # <<>>, NEW call
    PROVE  /\ Has(Tail(q), call) => Has(q, call)
           /\ Has(q, call) /\ Head(q) # call => Has(Tail(q), call)
           /\ Has(q, Head(q))
<1>1. /\ DOMAIN Tail(q) = 1 .. Len(q) - 1 /\ DOMAIN q = 1 .. Len(q)
      /\ Len(q) \in Nat \ {0} /\ Head(q) = q[1]
      /\ \A i \in 1 .. Len(q) - 1 : Tail(q)[i] = q[i + 1]
  OBVIOUS
<1>2. Has(Tail(q), call) => Has(q, call)
  BY <1>1 DEF Has
<1>3. ASSUME Has(q, call), Head(q) # call
      PROVE  Has(Tail(q), call)
  <2>1. PICK i \in 1 .. Len(q) : q[i] = call
    BY <1>1, <1>3 DEF Has
  <2>2. i - 1 \in 1 .. Len(q) - 1 /\ Tail(q)[i - 1] = call
    BY <1>1, <1>3, <2>1
  <2>3. QED
    BY <1>1, <2>2 DEF Has
<1>4. Has(q, Head(q))
  BY <1>1 DEF Has
<1>5. QED
  BY <1>2, <1>3, <1>4

LEMMA HeadAppend ==
    ASSUME NEW q \in Seq(Calls), NEW call
    PROVE  /\ Append(q, call) # <<>>
           /\ Head(Append(q, call)) = IF q = <<>> THEN call ELSE Head(q)
<1>1. /\ Len(Append(q, call)) = Len(q) + 1 /\ Len(q) \in Nat
      /\ Append(q, call)[Len(q) + 1] = call
      /\ \A i \in 1 .. Len(q) : Append(q, call)[i] = q[i]
  OBVIOUS
<1>2. Append(q, call) # <<>>
  BY <1>1
<1>3. Head(Append(q, call)) = Append(q, call)[1]
  BY <1>2
<1>4. CASE q = <<>>
  BY <1>1, <1>2, <1>3, <1>4
<1>5. CASE q # <<>>
  <2>1. Len(q) > 0 /\ Head(q) = q[1]
    BY <1>5
  <2>2. QED
    BY <1>1, <1>2, <1>3, <1>5, <2>1
<1>6. QED
  BY <1>4, <1>5

LEMMA DeathsAppend ==
    ASSUME NEW q \in Seq(Calls), NEW call, DeathsFollowSpawns(q),
           call = "Death" => Has(q, "Spawn")
    PROVE  DeathsFollowSpawns(Append(q, call))
<1>1. /\ DOMAIN Append(q, call) = 1 .. Len(q) + 1 /\ DOMAIN q = 1 .. Len(q)
      /\ Len(q) \in Nat
      /\ Append(q, call)[Len(q) + 1] = call
      /\ \A i \in 1 .. Len(q) : Append(q, call)[i] = q[i]
  OBVIOUS
<1>2. QED
  BY <1>1 DEF Has, DeathsFollowSpawns

LEMMA DeathsTail ==
    ASSUME NEW q \in Seq(Calls), q # <<>>, DeathsFollowSpawns(q)
    PROVE  /\ Head(q) # "Death"
           /\ Head(q) # "Spawn" => DeathsFollowSpawns(Tail(q))
<1>1. /\ DOMAIN Tail(q) = 1 .. Len(q) - 1 /\ DOMAIN q = 1 .. Len(q)
      /\ Len(q) \in Nat \ {0} /\ Head(q) = q[1]
      /\ \A i \in 1 .. Len(q) - 1 : Tail(q)[i] = q[i + 1]
  OBVIOUS
<1>2. Head(q) # "Death"
  BY <1>1 DEF DeathsFollowSpawns
<1>3. ASSUME Head(q) # "Spawn", NEW i \in 1 .. Len(q) - 1, Tail(q)[i] = "Death"
      PROVE  \E j \in 1 .. i - 1 : Tail(q)[j] = "Spawn"
  <2>1. i + 1 \in 1 .. Len(q) /\ q[i + 1] = "Death"
    BY <1>1, <1>3
  <2>2. PICK k \in 1 .. (i + 1) - 1 : q[k] = "Spawn"
    BY <1>1, <2>1 DEF DeathsFollowSpawns
  <2>3. k # 1
    BY <1>1, <1>3, <2>2
  <2>4. k - 1 \in 1 .. i - 1 /\ k - 1 \in 1 .. Len(q) - 1 /\ (k - 1) + 1 = k
    BY <1>1, <2>2, <2>3
  <2>5. Tail(q)[k - 1] = "Spawn"
    BY <1>1, <2>2, <2>4
  <2>6. QED
    BY <2>4, <2>5
<1>4. QED
  BY <1>1, <1>2, <1>3 DEF DeathsFollowSpawns

-----------------------------------------------------------------------------
(* What holds of every client, whether scripts use players in a restart or   *)
(* not.                                                                      *)

\* A client without a slot has done nothing but ask for one.
OutsideInv ==
    /\ active \cup wasted \cup spectating \cup informed \cup cleared \cup waiting
         \subseteq slots
    /\ \A p \in Players \ slots : state[p] = "none" /\ up[p] \in {<<>>, <<"ClientJoin">>}

\* A client with a slot asked for it once.
InsideInv == \A p \in slots : ~Has(up[p], "ClientJoin")

\* Nobody spawns, or hopes to, without spawn info.
InformedInv == active \cup cleared \cup waiting \subseteq informed

BaseInv == OutsideInv /\ InsideInv /\ InformedInv

LEMMA InitBase == Init => BaseInv
  BY DEF Init, BaseInv, OutsideInv, InsideInv, InformedInv

\* A step of clients that have their slots.
LEMMA StepInside ==
    ASSUME BaseInv, slots' = slots,
           active' \cup wasted' \cup spectating' \cup informed' \cup cleared' \cup waiting'
             \subseteq slots,
           active' \cup cleared' \cup waiting' \subseteq informed',
           \A q \in Players \ slots : state'[q] = state[q] /\ up'[q] = up[q],
           \A q \in slots : ~Has(up'[q], "ClientJoin")
    PROVE  BaseInv'
  BY DEF BaseInv, OutsideInv, InsideInv, InformedInv

\* The head of a queue says whether its client has a slot.
LEMMA WhoCalls ==
    ASSUME TypeOK, BaseInv, NEW p \in Players, up[p] # <<>>
    PROVE  /\ p \in slots <=> Head(up[p]) # "ClientJoin"
           /\ Head(up[p]) = "ClientJoin" => Tail(up[p]) = <<>>
<1>1. up[p] \in Seq(Calls)
  BY DEF TypeOK
<1>2. ASSUME p \in slots
      PROVE  Head(up[p]) # "ClientJoin"
  BY <1>1, <1>2, HasTail DEF BaseInv, InsideInv
<1>3. ASSUME p \notin slots
      PROVE  Head(up[p]) = "ClientJoin" /\ Tail(up[p]) = <<>>
  <2>1. up[p] = <<"ClientJoin">>
    BY <1>3 DEF BaseInv, OutsideInv
  <2>2. Head(<<"ClientJoin">>) = "ClientJoin" /\ Tail(<<"ClientJoin">>) = <<>>
    OBVIOUS
  <2>3. QED
    BY <2>1, <2>2
<1>4. QED
  BY <1>2, <1>3

LEMMA NoJoinCalled ==
    ASSUME NEW queues \in [Players -> Seq(Calls)], NEW S, NEW call, call # "ClientJoin",
           NEW q \in Players, ~Has(queues[q], "ClientJoin")
    PROVE  ~Has(Called(queues, S, call)[q], "ClientJoin")
  BY HasAppend DEF Called

LEMMA NoJoinRest ==
    ASSUME TypeOK, BaseInv, NEW p \in slots, up[p] # <<>>
    PROVE  /\ \A q \in slots : ~Has(Rest(p)[q], "ClientJoin")
           /\ \A q \in Players \ slots : Rest(p)[q] = up[q]
<1>1. up \in [Players -> Seq(Calls)] /\ slots \subseteq Players
  BY DEF TypeOK, Linked
<1>2. ~Has(Tail(up[p]), "ClientJoin")
  BY <1>1, HasTail DEF BaseInv, InsideInv
<1>3. QED
  BY <1>1, <1>2 DEF Rest, BaseInv, InsideInv

\* Spawning in clients that have their slots.
LEMMA SpawnInside ==
    ASSUME TypeOK, BaseInv, NEW S \in SUBSET slots,
           NEW queues \in [Players -> Seq(Calls)], SpawnLocally(S, queues)
    PROVE  /\ active' \cup wasted' \cup waiting' \subseteq slots
           /\ active' \cup waiting' \subseteq informed
           /\ \A q \in Players \ slots : up'[q] = queues[q]
           /\ \A q \in Players : ~Has(queues[q], "ClientJoin") => ~Has(up'[q], "ClientJoin")
<1>1. /\ active' \cup wasted' \cup waiting' \subseteq slots
      /\ active' \cup waiting' \subseteq informed
  BY DEF SpawnLocally, SpawnAndEnd, BaseInv, OutsideInv, InformedInv
<1>2. up' = Called(queues, S \cap informed, "Spawn")
  BY DEF SpawnLocally, SpawnAndEnd
<1>3. \A q \in Players \ slots : up'[q] = queues[q]
  BY <1>2 DEF Called
<1>4. \A q \in Players : ~Has(queues[q], "ClientJoin") => ~Has(up'[q], "ClientJoin")
  BY <1>2, NoJoinCalled
<1>5. QED
  BY <1>1, <1>3, <1>4

LEMMA NextBase == TypeOK /\ BaseInv /\ [Next]_vars => BaseInv'
<1> SUFFICES ASSUME TypeOK, BaseInv, [Next]_vars
             PROVE  BaseInv'
  OBVIOUS
<1> USE DEF serverVars, localVars, viewVars
<1>u. up \in [Players -> Seq(Calls)] /\ slots \subseteq Players
  BY DEF TypeOK, Linked
<1>i. /\ active \cup wasted \cup spectating \cup informed \cup cleared \cup waiting
           \subseteq slots
      /\ active \cup cleared \cup waiting \subseteq informed
  BY DEF BaseInv, OutsideInv, InformedInv
<1>q. \A q \in slots : ~Has(up[q], "ClientJoin")
  BY DEF BaseInv, InsideInv
<1>1. ASSUME NEW p \in Players, Connect(p)
      PROVE  BaseInv'
  <2>1. p \notin slots
    BY <1>1 DEF Connect, TypeOK, Linked
  <2>2. OutsideInv'
    BY <1>1, <1>u, <2>1 DEF Connect, BaseInv, OutsideInv
  <2>3. InsideInv' /\ InformedInv'
    BY <1>1, <1>u, <1>i, <1>q, <2>1 DEF Connect, InsideInv, InformedInv
  <2>4. QED
    BY <2>2, <2>3 DEF BaseInv
<1>2. ASSUME NEW p \in Players, ClientJoin(p)
      PROVE  BaseInv'
  <2>1. up[p] # <<>> /\ Head(up[p]) = "ClientJoin"
    BY <1>2 DEF ClientJoin, Arrives
  <2>2. p \notin slots /\ Tail(up[p]) = <<>>
    BY <2>1, WhoCalls
  <2>3. up' = Called(Rest(p), {p}, "RequestClass")
    BY <1>2 DEF ClientJoin
  <2>4. /\ \A q \in Players \ {p} : up'[q] = up[q]
        /\ up'[p] = Append(<<>>, "RequestClass")
    BY <2>2, <2>3, <1>u DEF Called, Rest
  <2>5. ~Has(up'[p], "ClientJoin")
    <3>0. <<>> \in Seq(Calls)
      OBVIOUS
    <3>1. PICK none \in Seq(Calls) : none = <<>>
      BY <3>0
    <3>2. ~Has(none, "ClientJoin")
      BY <3>1 DEF Has
    <3>3. ~Has(Append(none, "RequestClass"), "ClientJoin")
      BY <3>2, HasAppend
    <3>4. QED
      BY <3>1, <3>3, <2>4
  <2>6. OutsideInv'
    BY <1>2, <2>4 DEF ClientJoin, BaseInv, OutsideInv
  <2>7. InsideInv' /\ InformedInv'
    BY <1>2, <1>i, <1>q, <1>u, <2>4, <2>5 DEF ClientJoin, InsideInv, InformedInv
  <2>8. QED
    BY <2>6, <2>7 DEF BaseInv
<1>3. ASSUME NEW p \in Players, Leave(p)
      PROVE  BaseInv'
  <2> DEFINE queues == [up EXCEPT ![p] = <<>>]
  <2>1. PICK watchers \in SUBSET (spectating \ {p}) :
           /\ SpawnAndEnd(watchers, {p}, queues)
           /\ spectating' = spectating \ (watchers \cup {p})
    BY <1>3 DEF Leave
  <2>2. /\ queues \in [Players -> Seq(Calls)] /\ queues[p] = <<>>
        /\ \A q \in Players \ {p} : queues[q] = up[q]
    BY <1>u
  <2> HIDE DEF queues
  <2>3. up' = Called(queues, watchers \cap informed, "Spawn")
    BY <2>1 DEF SpawnAndEnd
  <2>4. /\ up'[p] = <<>> /\ \A q \in Players \ slots : q # p => up'[q] = up[q]
        /\ \A q \in slots \ {p} : ~Has(up'[q], "ClientJoin")
    <3>1. up'[p] = <<>> /\ \A q \in Players \ slots : q # p => up'[q] = up[q]
      BY <2>2, <2>3, <1>i DEF Called
    <3>2. \A q \in slots \ {p} : ~Has(up'[q], "ClientJoin")
      BY <2>2, <2>3, <1>q, <1>u, NoJoinCalled
    <3>3. QED
      BY <3>1, <3>2
  <2>5. /\ active' \cup wasted' \cup waiting' \cup spectating' \subseteq slots \ {p}
        /\ active' \cup waiting' \subseteq informed \ {p}
    BY <2>1, <1>i DEF SpawnAndEnd
  <2>6. /\ slots' = slots \ {p} /\ state' = [state EXCEPT ![p] = "none"]
        /\ informed' = informed \ {p} /\ cleared' = cleared \ {p}
    BY <1>3 DEF Leave
  <2>7. OutsideInv'
    BY <2>4, <2>5, <2>6, <1>i DEF BaseInv, OutsideInv, TypeOK
  <2>8. InsideInv' /\ InformedInv'
    BY <2>4, <2>5, <2>6, <1>i DEF InsideInv, InformedInv
  <2>9. QED
    BY <2>7, <2>8 DEF BaseInv
<1>4. ASSUME NEW p \in slots, NEW call \in {"RequestSpawn", "RequestClass"},
             up' = Called(up, {p}, call)
      PROVE  /\ \A q \in slots : ~Has(up'[q], "ClientJoin")
             /\ \A q \in Players \ slots : up'[q] = up[q]
  BY <1>4, <1>u, <1>q, NoJoinCalled DEF Called
<1>5. ASSUME NEW p \in Players, PressSpawn(p) \/ PressArrow(p)
      PROVE  BaseInv'
  <2>1. p \in slots
    BY <1>5, <1>i DEF PressSpawn, PressArrow
  <2>2. /\ \A q \in slots : ~Has(up'[q], "ClientJoin")
        /\ \A q \in Players \ slots : up'[q] = up[q]
    BY <1>4, <1>5, <2>1 DEF PressSpawn, PressArrow
  <2>3. QED
    BY <1>5, <1>i, <2>1, <2>2, StepInside DEF PressSpawn, PressArrow
<1>6. ASSUME NEW p \in Players, Die(p)
      PROVE  BaseInv'
  <2> DEFINE queues == IF p \in spectating \cap informed THEN Called(up, {p}, "Spawn") ELSE up
  <2>1. p \in slots
    BY <1>6, <1>i DEF Die
  <2>2. /\ queues \in [Players -> Seq(Calls)]
        /\ \A q \in Players \ slots : queues[q] = up[q]
        /\ \A q \in slots : ~Has(queues[q], "ClientJoin")
    <3>1. "Spawn" \in Calls
      BY DEF Calls
    <3>2. queues \in [Players -> Seq(Calls)]
      BY <3>1, <1>u, CalledType
    <3>3. \A q \in Players \ slots : queues[q] = up[q]
      BY <2>1 DEF Called
    <3>4. \A q \in slots : ~Has(queues[q], "ClientJoin")
      BY <1>u, <1>q, NoJoinCalled
    <3>5. QED
      BY <3>2, <3>3, <3>4
  <2>3. up' = Called(queues, {p}, "Death")
    BY <1>6 DEF Die
  <2> HIDE DEF queues
  <2>4. \A q \in slots : ~Has(up'[q], "ClientJoin")
    BY <2>2, <2>3, <1>u, NoJoinCalled
  <2>5. \A q \in Players \ slots : up'[q] = up[q]
    BY <2>1, <2>2, <2>3 DEF Called
  <2>6. QED
    BY <1>6, <1>i, <2>1, <2>4, <2>5, StepInside DEF Die
<1>7. ASSUME NEW p \in Players, Respawn(p)
      PROVE  BaseInv'
  <2>1. p \in slots
    BY <1>7, <1>i DEF Respawn
  <2>2. CASE SpawnLocally({p}, up) /\ UNCHANGED cleared
    BY <1>7, <1>i, <1>u, <1>q, <2>1, <2>2, SpawnInside, StepInside DEF Respawn
  <2>3. CASE /\ wasted' = wasted \ {p} /\ cleared' = cleared \ {p}
             /\ up' = Called(up, {p}, "RequestClass") /\ Room
             /\ UNCHANGED <<active, waiting>>
    <3>1. /\ \A q \in slots : ~Has(up'[q], "ClientJoin")
          /\ \A q \in Players \ slots : up'[q] = up[q]
      BY <1>4, <2>1, <2>3
    <3>2. QED
      BY <1>7, <1>i, <2>1, <2>3, <3>1, StepInside DEF Respawn
  <2>4. QED
    BY <1>7, <2>2, <2>3 DEF Respawn
<1>8. ASSUME NEW p \in Players, NEW call, Arrives(p, call), call # "ClientJoin"
      PROVE  /\ p \in slots /\ Rest(p) \in [Players -> Seq(Calls)]
             /\ \A q \in slots : ~Has(Rest(p)[q], "ClientJoin")
             /\ \A q \in Players \ slots : Rest(p)[q] = up[q]
  BY <1>8, WhoCalls, NoJoinRest, RestType DEF Arrives
<1>9. ASSUME NEW p \in Players, Ignore(p)
      PROVE  BaseInv'
  <2>1. PICK call : Arrives(p, call) /\ call # "ClientJoin"
    BY <1>9 DEF Ignore, Served
  <2>2. QED
    BY <1>8, <1>9, <2>1, <1>i, StepInside DEF Ignore
<1>10. ASSUME NEW p \in Players, RequestClass(p)
       PROVE  BaseInv'
  BY <1>8, <1>10, <1>i, StepInside DEF RequestClass, Served
<1>11. ASSUME NEW p \in Players, RequestSpawn(p)
       PROVE  BaseInv'
  <2>1. /\ p \in slots /\ Rest(p) \in [Players -> Seq(Calls)]
        /\ \A q \in slots : ~Has(Rest(p)[q], "ClientJoin")
        /\ \A q \in Players \ slots : Rest(p)[q] = up[q]
    BY <1>8, <1>11 DEF RequestSpawn, Served
  <2>2. UNCHANGED <<serverVars, link, spectating, informed, cleared, viewVars>>
    BY <1>11 DEF RequestSpawn
  <2>3. CASE SpawnLocally({p}, Rest(p))
    <3>1. {p} \in SUBSET slots
      BY <2>1
    <3>2. /\ active' \cup wasted' \cup waiting' \subseteq slots
          /\ active' \cup waiting' \subseteq informed
          /\ \A q \in Players \ slots : up'[q] = Rest(p)[q]
          /\ \A q \in Players : ~Has(Rest(p)[q], "ClientJoin") => ~Has(up'[q], "ClientJoin")
      BY <2>1, <2>3, <3>1, SpawnInside
    <3>3. QED
      BY <1>i, <1>u, <2>1, <2>2, <3>2, StepInside
  <2>4. CASE waiting' = waiting \ {p} /\ up' = Rest(p) /\ UNCHANGED <<active, wasted>>
    BY <1>i, <2>1, <2>2, <2>4, StepInside
  <2>5. QED
    BY <1>11, <2>3, <2>4 DEF RequestSpawn
<1>12. ASSUME NEW p \in Players, Spawn(p) \/ Death(p)
       PROVE  BaseInv'
  BY <1>8, <1>12, <1>i, StepInside DEF Spawn, Death, Served, TypeOK
<1>13. ASSUME NEW p \in Players, Sync(p)
       PROVE  BaseInv'
  BY <1>13, <1>i, <1>q, StepInside DEF Sync, TypeOK
<1>14. ASSUME NEW p \in Players, TogglePlayerSpectating(p)
       PROVE  BaseInv'
  <2>1. p \in slots
    BY <1>14 DEF TogglePlayerSpectating, Reachable
  <2>2. CASE spectating' = spectating \cup {p} /\ UNCHANGED <<active, wasted, waiting, up>>
    BY <1>14, <1>i, <1>q, <2>1, <2>2, StepInside DEF TogglePlayerSpectating
  <2>3. CASE StopSpectating({p}, up)
    <3>1. {p} \cap spectating \in SUBSET slots
      BY <2>1
    <3>2. SpawnLocally({p} \cap spectating, up) /\ spectating' = spectating \ {p}
      BY <2>3 DEF StopSpectating
    <3>3. QED
      BY <1>14, <1>i, <1>u, <1>q, <3>1, <3>2, SpawnInside, StepInside
         DEF TogglePlayerSpectating
  <2>4. QED
    BY <1>14, <2>2, <2>3 DEF TogglePlayerSpectating
<1>15. ASSUME NEW p \in Players, SetSpawnInfo(p)
       PROVE  BaseInv'
  BY <1>15, <1>i, <1>q, StepInside DEF SetSpawnInfo, Reachable
<1>16. ASSUME NEW p \in Players, SpawnPlayer(p)
       PROVE  BaseInv'
  <2>1. {p} \in SUBSET slots
    BY <1>16 DEF SpawnPlayer, Reachable
  <2>2. QED
    BY <1>16, <1>i, <1>u, <1>q, <2>1, SpawnInside, StepInside DEF SpawnPlayer
<1>17. ASSUME Restart
       PROVE  BaseInv'
  <2>1. up' = Called(up, spectating \cap informed, "Spawn")
    BY <1>17 DEF Restart
  <2>2. /\ \A q \in slots : ~Has(up'[q], "ClientJoin")
        /\ \A q \in Players \ slots : up'[q] = up[q]
    <3>1. \A q \in slots : ~Has(up'[q], "ClientJoin")
      BY <2>1, <1>u, <1>q, NoJoinCalled
    <3>2. \A q \in Players \ slots : up'[q] = up[q]
      BY <2>1, <1>i DEF Called
    <3>3. QED
      BY <3>1, <3>2
  <2>3. \A q \in Players \ slots : state'[q] = state[q]
    BY <1>17 DEF Restart, BaseInv, OutsideInv
  <2>4. QED
    BY <1>17, <1>i, <2>2, <2>3, StepInside DEF Restart
<1>18. ASSUME ReInit
       PROVE  BaseInv'
  <2>1. /\ \A q \in slots : ~Has(up'[q], "ClientJoin")
        /\ \A q \in Players \ slots : up'[q] = up[q]
    <3>1. up' = Called(up, slots, "RequestClass")
      BY <1>18 DEF ReInit
    <3>2. \A q \in slots : ~Has(up'[q], "ClientJoin")
      BY <3>1, <1>u, <1>q, NoJoinCalled
    <3>3. QED
      BY <3>1, <3>2 DEF Called
  <2>2. QED
    BY <1>18, <1>i, <2>1, StepInside DEF ReInit
<1>19. ASSUME UNCHANGED vars
       PROVE  BaseInv'
  BY <1>19, <1>i, <1>q, StepInside DEF vars
<1>20. QED
  BY <1>1, <1>2, <1>3, <1>5, <1>6, <1>7, <1>9, <1>10, <1>11, <1>12, <1>13, <1>14,
     <1>15, <1>16, <1>17, <1>18, <1>19 DEF Next

-----------------------------------------------------------------------------
(* Answers to RequestSpawn. *)

AnswerStep ==
    \A p \in Players : WaitsInVain(p)' /\ ~WaitsInVain(p) => gameState # "running"

LEMMA HasCalled ==
    ASSUME NEW queues \in [Players -> Seq(Calls)], NEW S, NEW call, NEW other,
           NEW q \in Players, Has(queues[q], other)
    PROVE  Has(Called(queues, S, call)[q], other)
  BY HasAppend DEF Called

LEMMA HasRest ==
    ASSUME TypeOK, NEW p \in Players, up[p] # <<>>, NEW call, Head(up[p]) # call,
           NEW q \in Players, Has(up[q], call)
    PROVE  Has(Rest(p)[q], call)
<1>1. up \in [Players -> Seq(Calls)]
  BY DEF TypeOK
<1>2. CASE q = p
  BY <1>1, <1>2, HasTail DEF Rest
<1>3. CASE q # p
  BY <1>1, <1>3 DEF Rest
<1>4. QED
  BY <1>2, <1>3

\* A step after which whoever still waits has his request still on its way.
LEMMA StepWaiting ==
    ASSUME waiting' \subseteq waiting,
           \A q \in waiting' : Has(up[q], "RequestSpawn") => Has(up'[q], "RequestSpawn")
    PROVE  AnswerStep
  BY DEF AnswerStep, WaitsInVain, Has

LEMMA NextAnswer == TypeOK /\ BaseInv /\ [Next]_vars => AnswerStep
<1> SUFFICES ASSUME TypeOK, BaseInv, [Next]_vars
             PROVE  AnswerStep
  OBVIOUS
<1> USE DEF serverVars, localVars, viewVars
<1>u. up \in [Players -> Seq(Calls)] /\ slots \subseteq Players /\ waiting \subseteq slots
  BY DEF TypeOK, Linked, BaseInv, OutsideInv
<1>1. ASSUME NEW p \in Players, Connect(p)
      PROVE  AnswerStep
  <2>1. p \notin waiting /\ waiting' = waiting /\ \A q \in Players \ {p} : up'[q] = up[q]
    BY <1>1, <1>u DEF Connect, TypeOK, Linked
  <2>2. QED
    BY <2>1, <1>u, StepWaiting
<1>2. ASSUME NEW p \in Players, ClientJoin(p)
      PROVE  AnswerStep
  <2>1. p \notin slots
    BY <1>2, WhoCalls DEF ClientJoin, Arrives
  <2>2. waiting' = waiting /\ \A q \in Players \ {p} : up'[q] = up[q]
    BY <1>2, <1>u DEF ClientJoin, Called, Rest
  <2>3. QED
    BY <2>1, <2>2, <1>u, StepWaiting
<1>3. ASSUME NEW p \in Players, Leave(p)
      PROVE  AnswerStep
  <2> DEFINE queues == [up EXCEPT ![p] = <<>>]
  <2>1. PICK watchers \in SUBSET (spectating \ {p}) : SpawnAndEnd(watchers, {p}, queues)
    BY <1>3 DEF Leave
  <2>2. queues \in [Players -> Seq(Calls)] /\ \A q \in Players \ {p} : queues[q] = up[q]
    BY <1>u
  <2> HIDE DEF queues
  <2>3. /\ waiting' \subseteq waiting \ {p}
        /\ up' = Called(queues, watchers \cap informed, "Spawn")
    BY <2>1 DEF SpawnAndEnd
  <2>4. \A q \in Players \ {p} : Has(up[q], "RequestSpawn") => Has(up'[q], "RequestSpawn")
    BY <2>2, <2>3, HasCalled
  <2>5. QED
    BY <2>3, <2>4, <1>u, StepWaiting
<1>4. ASSUME NEW p \in Players, PressSpawn(p)
      PROVE  AnswerStep
  <2>1. up' = Called(up, {p}, "RequestSpawn") /\ waiting' = waiting \cup {p}
    BY <1>4 DEF PressSpawn
  <2>2. Has(up'[p], "RequestSpawn")
    BY <2>1, <1>u, HasAppend DEF Called
  <2>3. \A q \in Players : Has(up[q], "RequestSpawn") => Has(up'[q], "RequestSpawn")
    BY <2>1, <1>u, HasCalled
  <2>4. QED
    BY <2>1, <2>2, <2>3 DEF AnswerStep, WaitsInVain, Has
<1>5. ASSUME NEW p \in Players, PressArrow(p)
      PROVE  AnswerStep
  BY <1>5, <1>u, HasCalled, StepWaiting DEF PressArrow
<1>6. ASSUME NEW p \in Players, Die(p)
      PROVE  AnswerStep
  <2>1. PICK queues : /\ queues = Called(up, {p}, "Spawn") \/ queues = up
                      /\ up' = Called(queues, {p}, "Death")
    BY <1>6 DEF Die
  <2>2. queues \in [Players -> Seq(Calls)]
    BY <2>1, <1>u, CalledType DEF Calls
  <2>3. \A q \in Players : Has(up[q], "RequestSpawn") => Has(queues[q], "RequestSpawn")
    BY <2>1, <1>u, HasCalled
  <2>4. \A q \in Players : Has(queues[q], "RequestSpawn") => Has(up'[q], "RequestSpawn")
    BY <2>1, <2>2, HasCalled
  <2>5. QED
    BY <1>6, <1>u, <2>3, <2>4, StepWaiting DEF Die
\* Spawning ends waiting and calls no request back.
<1>7. ASSUME NEW S, SpawnLocally(S, up)
      PROVE  AnswerStep
  <2>1. waiting' \subseteq waiting /\ up' = Called(up, S \cap informed, "Spawn")
    BY <1>7 DEF SpawnLocally, SpawnAndEnd
  <2>2. QED
    BY <2>1, <1>u, HasCalled, StepWaiting
<1>8. ASSUME NEW p \in Players, Respawn(p)
      PROVE  AnswerStep
  <2>1. CASE /\ up' = Called(up, {p}, "RequestClass") /\ waiting' = waiting
    BY <2>1, <1>u, HasCalled, StepWaiting
  <2>2. QED
    BY <1>7, <1>8, <2>1 DEF Respawn
<1>9. ASSUME NEW p \in Players, NEW call, Arrives(p, call), call # "RequestSpawn",
             up' = Rest(p), waiting' = waiting
      PROVE  AnswerStep
  BY <1>9, <1>u, HasRest, StepWaiting DEF Arrives
<1>10. ASSUME NEW p \in Players, Ignore(p)
       PROVE  AnswerStep
  <2>1. CASE gameState # "running"
    BY <2>1 DEF AnswerStep
  <2>2. CASE gameState = "running"
    <3>1. PICK call : /\ Arrives(p, call) /\ call # "ClientJoin"
                      /\ p \notin slots \/ call = "Spawn"
      BY <1>10, <2>2 DEF Ignore, Served
    <3>2. p \in slots
      BY <3>1, WhoCalls DEF Arrives
    <3>3. QED
      BY <1>9, <1>10, <3>1, <3>2 DEF Ignore
  <2>3. QED
    BY <2>1, <2>2
<1>11. ASSUME NEW p \in Players, RequestClass(p) \/ Spawn(p) \/ Death(p)
       PROVE  AnswerStep
  BY <1>9, <1>11 DEF RequestClass, Spawn, Death, Served
<1>12. ASSUME NEW p \in Players, RequestSpawn(p)
       PROVE  AnswerStep
  <2>1. Rest(p) \in [Players -> Seq(Calls)] /\ \A q \in Players \ {p} : Rest(p)[q] = up[q]
    BY <1>12, <1>u, RestType DEF RequestSpawn, Served, Arrives, Rest
  <2>2. CASE p \in waiting /\ SpawnLocally({p}, Rest(p))
    <3>1. p \in informed
      BY <2>2 DEF BaseInv, InformedInv
    <3>2. waiting' = waiting \ {p} /\ up' = Called(Rest(p), {p} \cap informed, "Spawn")
      BY <2>2, <3>1 DEF SpawnLocally, SpawnAndEnd
    <3>3. \A q \in Players \ {p} : Has(up[q], "RequestSpawn") => Has(up'[q], "RequestSpawn")
      BY <2>1, <3>2, HasCalled
    <3>4. QED
      BY <3>2, <3>3, <1>u, StepWaiting
  <2>3. CASE waiting' = waiting \ {p} /\ up' = Rest(p)
    BY <2>1, <2>3, <1>u, StepWaiting
  <2>4. QED
    BY <1>12, <2>2, <2>3 DEF RequestSpawn
<1>13. CASE UNCHANGED <<waiting, up>>
  BY <1>13, StepWaiting
<1>14. ASSUME NEW p \in Players, TogglePlayerSpectating(p) \/ SpawnPlayer(p)
       PROVE  AnswerStep
  BY <1>7, <1>13, <1>14 DEF TogglePlayerSpectating, SpawnPlayer, StopSpectating
<1>15. ASSUME Restart
       PROVE  AnswerStep
  <2>1. waiting' \subseteq waiting /\ up' = Called(up, spectating \cap informed, "Spawn")
    BY <1>15 DEF Restart
  <2>2. QED
    BY <2>1, <1>u, HasCalled, StepWaiting
<1>16. ASSUME ReInit
       PROVE  AnswerStep
  BY <1>16 DEF ReInit, AnswerStep
<1>17. QED
  BY <1>1, <1>2, <1>3, <1>4, <1>5, <1>6, <1>8, <1>10, <1>11, <1>12, <1>13, <1>14,
     <1>15, <1>16 DEF Next, Sync, SetSpawnInfo, vars

\* A client comes to wait for an answer that nobody will send only by a request
\* that is served while there is no game: no join, departure, respawn, script or
\* late call makes one lose an answer (netrpc.cpp 255, localplayer.cpp 1253-1260).
THEOREM AnswersAreLostInRestarts == Spec => AnswerLostOnlyInRestart
<1>1. TypeOK /\ BaseInv /\ [Next]_vars
        => [\A p \in Players : WaitsInVain(p)' /\ ~WaitsInVain(p) => gameState # "running"]_vars
  BY NextAnswer DEF AnswerStep
<1>2. QED
  BY <1>1, InitType, NextType, InitBase, NextBase, PTL DEF Spec, AnswerLostOnlyInRestart

-----------------------------------------------------------------------------
(* The world that the clients share, where filter scripts leave players alone *)
(* while there is no game mode.                                              *)

\* Only a player whose first request for a class is on its way is unknown.
KnownInv == gameState = "running" =>
    \A p \in slots \ known : up[p] # <<>> /\ Head(up[p]) = "RequestClass"

\* A player whom the server does not take for active is about to tell it that
\* he is, before he tells it of a death.
AboutToTell(p) ==
    /\ p \in active \ spectating => Has(up[p], "Spawn")
    /\ DeathsFollowSpawns(up[p])
ActiveInv == gameState = "running" =>
    \A p \in slots : state[p] = "active" \/ AboutToTell(p)

\* The peds at each client are of those whom the server takes for active.
ShownInv == \A p, c \in slots : p # c => (p \in shown[c] <=> state[p] = "active")

\* Between two game modes nobody is in the world, not even for his own client.
EmptyInv == gameState = "restarting" =>
    active = {} /\ spectating = {} /\ \A p \in Players : link[p] # "connected"

WorldInv == KnownInv /\ ActiveInv /\ ShownInv /\ EmptyInv

LEMMA InitWorld == Init => WorldInv
  BY DEF Init, WorldInv, KnownInv, ActiveInv, ShownInv, EmptyInv

LEMMA NextEmpty ==
    ASSUME ~ScriptsInRestart, TypeOK, BaseInv, EmptyInv, [Next]_vars
    PROVE  EmptyInv'
<1> USE DEF EmptyInv, serverVars, localVars, viewVars
<1>1. CASE gameState' # "restarting"
  BY <1>1
<1>2. CASE Restart
  BY <1>2 DEF Restart, TypeOK
<1>3. CASE gameState = "restarting" /\ gameState' = "restarting"
  <2>1. ASSUME NEW p \in Players, ClientJoin(p)
        PROVE  EmptyInv'
    BY <1>3, <2>1 DEF ClientJoin, TypeOK
  <2>2. ASSUME NEW p \in Players, Leave(p)
        PROVE  EmptyInv'
    <3>1. PICK watchers \in SUBSET (spectating \ {p}) :
             /\ SpawnAndEnd(watchers, {p}, [up EXCEPT ![p] = <<>>])
             /\ spectating' = spectating \ (watchers \cup {p})
      BY <2>2 DEF Leave
    <3>2. watchers = {}
      BY <1>3, <3>1
    <3>3. active' = {} /\ spectating' = {}
      BY <1>3, <3>1, <3>2 DEF SpawnAndEnd
    <3>4. QED
      BY <1>3, <2>2, <3>3 DEF Leave, TypeOK
  <2>3. ASSUME NEW p \in Players, Connect(p)
        PROVE  EmptyInv'
    BY <1>3, <2>3 DEF Connect, TypeOK
  <2>4. ASSUME NEW p \in Players, Respawn(p)
        PROVE  EmptyInv'
    BY <1>3, <2>4 DEF Respawn
  <2>5. CASE UNCHANGED <<gameState, link, active, spectating>>
    BY <2>5
  <2>6. QED
    BY <1>3, <2>1, <2>2, <2>3, <2>4, <2>5
       DEF Next, Selecting, PressSpawn, PressArrow, Die, Ignore, RequestClass,
           RequestSpawn, Spawn, Death, Sync, Served, TogglePlayerSpectating,
           SetSpawnInfo, SpawnPlayer, Reachable, Restart, ReInit, vars
<1>4. gameState = "running" /\ gameState' = "restarting" => Restart
  BY DEF Next, Connect, ClientJoin, Leave, PressSpawn, PressArrow, Die, Respawn, Ignore,
         RequestClass, RequestSpawn, Spawn, Death, Sync, TogglePlayerSpectating,
         SetSpawnInfo, SpawnPlayer, ReInit, vars
<1>5. QED
  BY <1>1, <1>2, <1>3, <1>4 DEF TypeOK

LEMMA HeadCalled ==
    ASSUME NEW queues \in [Players -> Seq(Calls)], NEW S, NEW call,
           NEW q \in Players, queues[q] # <<>>
    PROVE  /\ Called(queues, S, call)[q] # <<>>
           /\ Head(Called(queues, S, call)[q]) = Head(queues[q])
  BY HeadAppend DEF Called

\* A step that only makes calls, or ends the unknown player's connection.
LEMMA StepKnown ==
    ASSUME KnownInv, gameState' = gameState,
           \A q \in slots' \ known' : /\ q \in slots \ known
                                      /\ up[q] # <<>> => up'[q] # <<>> /\ Head(up'[q]) = Head(up[q])
    PROVE  KnownInv'
  BY DEF KnownInv

LEMMA NextKnown == TypeOK /\ BaseInv /\ KnownInv /\ [Next]_vars => KnownInv'
<1> SUFFICES ASSUME TypeOK, BaseInv, KnownInv, [Next]_vars
             PROVE  KnownInv'
  OBVIOUS
<1> USE DEF serverVars, localVars, viewVars
<1>u. up \in [Players -> Seq(Calls)] /\ slots \subseteq Players /\ known \subseteq slots
  BY DEF TypeOK, Linked
<1>1. ASSUME NEW p \in Players, Connect(p)
      PROVE  KnownInv'
  BY <1>1, <1>u, StepKnown DEF Connect, TypeOK, Linked
<1>2. ASSUME NEW p \in Players, ClientJoin(p)
      PROVE  KnownInv'
  <2>1. up[p] # <<>> /\ Tail(up[p]) = <<>> /\ p \notin slots
    BY <1>2, WhoCalls DEF ClientJoin, Arrives
  <2>2. /\ \A q \in Players \ {p} : up'[q] = up[q]
        /\ up'[p] = Append(<<>>, "RequestClass")
    BY <1>2, <1>u, <2>1 DEF ClientJoin, Called, Rest
  <2>3. up'[p] # <<>> /\ Head(up'[p]) = "RequestClass"
    BY <2>2
  <2>4. QED
    BY <1>2, <1>u, <2>2, <2>3 DEF ClientJoin, KnownInv
<1>3. ASSUME NEW p \in Players, Leave(p)
      PROVE  KnownInv'
  <2>1. PICK watchers \in SUBSET (spectating \ {p}) :
           SpawnAndEnd(watchers, {p}, [up EXCEPT ![p] = <<>>])
    BY <1>3 DEF Leave
  <2>2. PICK queues : queues = [up EXCEPT ![p] = <<>>]
    OBVIOUS
  <2>3. queues \in [Players -> Seq(Calls)] /\ \A q \in Players \ {p} : queues[q] = up[q]
    BY <2>2, <1>u
  <2>4. up' = Called(queues, watchers \cap informed, "Spawn")
    BY <2>1, <2>2 DEF SpawnAndEnd
  <2>5. \A q \in Players \ {p} :
           up[q] # <<>> => up'[q] # <<>> /\ Head(up'[q]) = Head(up[q])
    BY <2>3, <2>4, HeadCalled
  <2>6. slots' = slots \ {p} /\ known' = known \ {p} /\ gameState' = gameState
    BY <1>3 DEF Leave
  <2>7. QED
    BY <2>5, <2>6, <1>u, StepKnown
<1>4. ASSUME NEW S, NEW call, up' = Called(up, S, call),
             UNCHANGED <<gameState, slots, known>>
      PROVE  KnownInv'
  BY <1>4, <1>u, HeadCalled, StepKnown
<1>5. ASSUME NEW p \in Players, Die(p)
      PROVE  KnownInv'
  <2>1. PICK queues : /\ queues = Called(up, {p}, "Spawn") \/ queues = up
                      /\ up' = Called(queues, {p}, "Death")
    BY <1>5 DEF Die
  <2>2. queues \in [Players -> Seq(Calls)]
    BY <2>1, <1>u, CalledType DEF Calls
  <2>3. \A q \in Players :
           up[q] # <<>> => queues[q] # <<>> /\ Head(queues[q]) = Head(up[q])
    BY <2>1, <1>u, HeadCalled
  <2>4. \A q \in Players :
           up[q] # <<>> => up'[q] # <<>> /\ Head(up'[q]) = Head(up[q])
    BY <2>1, <2>2, <2>3, HeadCalled
  <2>5. QED
    BY <1>5, <1>u, <2>4, StepKnown DEF Die
<1>6. ASSUME NEW p \in Players,
             PressSpawn(p) \/ PressArrow(p) \/ Respawn(p) \/ SpawnPlayer(p)
      PROVE  KnownInv'
  BY <1>4, <1>6 DEF PressSpawn, PressArrow, Respawn, SpawnPlayer, SpawnLocally, SpawnAndEnd
<1>7. CASE UNCHANGED <<gameState, slots, known, up>>
  BY <1>7, StepKnown
<1>8. ASSUME NEW p \in Players, TogglePlayerSpectating(p)
      PROVE  KnownInv'
  BY <1>4, <1>7, <1>8
     DEF TogglePlayerSpectating, StopSpectating, SpawnLocally, SpawnAndEnd
\* Only the request for a class arrives from an unknown player.
<1>9. ASSUME NEW p \in Players, NEW call, Arrives(p, call), call # "RequestClass",
             gameState = "running", p \in slots
      PROVE  p \in known /\ \A q \in Players \ {p} : Rest(p)[q] = up[q]
  BY <1>9, <1>u DEF Arrives, KnownInv, Rest
<1>10. ASSUME NEW p \in Players, Ignore(p)
       PROVE  KnownInv'
  <2>1. CASE gameState # "running"
    BY <1>10, <2>1 DEF Ignore, KnownInv
  <2>2. CASE gameState = "running"
    <3>1. CASE Served(p, "Spawn") /\ p \notin known
      BY <1>9, <2>2, <3>1 DEF Served
    <3>2. CASE \E call \in Calls \ {"ClientJoin"} : Arrives(p, call) /\ p \notin slots
      BY <3>2, WhoCalls DEF Arrives
    <3>3. QED
      BY <1>10, <2>2, <3>1, <3>2 DEF Ignore
  <2>3. QED
    BY <2>1, <2>2
<1>11. ASSUME NEW p \in Players, RequestClass(p)
       PROVE  KnownInv'
  <2>1. \A q \in Players \ {p} : up'[q] = up[q]
    BY <1>11, <1>u DEF RequestClass, Rest
  <2>2. QED
    BY <1>11, <1>u, <2>1, StepKnown DEF RequestClass
<1>12. ASSUME NEW p \in Players, Spawn(p) \/ Death(p)
       PROVE  KnownInv'
  BY <1>9, <1>12, <1>u, StepKnown DEF Spawn, Death, Served
<1>13. ASSUME NEW p \in Players, RequestSpawn(p)
       PROVE  KnownInv'
  <2>1. p \in known /\ \A q \in Players \ {p} : Rest(p)[q] = up[q]
    BY <1>9, <1>13 DEF RequestSpawn, Served
  <2>2. \A q \in Players \ {p} : up'[q] = up[q]
    BY <1>13, <2>1 DEF RequestSpawn, SpawnLocally, SpawnAndEnd, Called
  <2>3. QED
    BY <1>13, <1>u, <2>1, <2>2, StepKnown DEF RequestSpawn
<1>14. ASSUME NEW p \in Players, SetSpawnInfo(p)
       PROVE  KnownInv'
  BY <1>14, <1>u, StepKnown DEF SetSpawnInfo
<1>15. CASE Restart
  BY <1>15 DEF Restart, KnownInv
<1>16. CASE ReInit
  <2>1. \A q \in slots : up'[q] = Append(<<>>, "RequestClass")
    BY <1>16, <1>u DEF ReInit, Called
  <2>2. \A q \in slots : up'[q] # <<>> /\ Head(up'[q]) = "RequestClass"
    BY <2>1
  <2>3. QED
    BY <1>16, <2>2 DEF ReInit, KnownInv
<1>17. QED
  BY <1>1, <1>2, <1>3, <1>5, <1>6, <1>7, <1>8, <1>10, <1>11, <1>12, <1>13, <1>14,
     <1>15, <1>16 DEF Next, Sync, vars

\* What is known of the empty queue, and of queues with one call more.
LEMMA EmptyQueue == ~Has(<<>>, "Spawn") /\ DeathsFollowSpawns(<<>>)
  BY DEF Has, DeathsFollowSpawns

LEMMA TellCalled ==
    ASSUME NEW queues \in [Players -> Seq(Calls)], NEW S, NEW call, call # "Death",
           NEW q \in Players
    PROVE  /\ Has(queues[q], "Spawn") => Has(Called(queues, S, call)[q], "Spawn")
           /\ DeathsFollowSpawns(queues[q]) => DeathsFollowSpawns(Called(queues, S, call)[q])
           /\ q \in S /\ call = "Spawn" => Has(Called(queues, S, call)[q], "Spawn")
  BY HasAppend, DeathsAppend DEF Called

\* A player who stays in the world, or out of it, and whose calls are still to come.
LEMMA StepTell ==
    ASSUME NEW q \in slots, state[q] = "active" \/ AboutToTell(q), state'[q] = state[q],
           q \in active' \ spectating' => q \in active \ spectating,
           Has(up[q], "Spawn") => Has(up'[q], "Spawn"),
           DeathsFollowSpawns(up[q]) => DeathsFollowSpawns(up'[q])
    PROVE  state'[q] = "active" \/ AboutToTell(q)'
  BY DEF AboutToTell

\* A step in which clients in S spawn, and no others stop spectating.
LEMMA SpawnTell ==
    ASSUME TypeOK, BaseInv, NEW S, NEW gone, NEW queues \in [Players -> Seq(Calls)],
           SpawnAndEnd(S, gone, queues),
           NEW q \in slots \ gone, state[q] = "active" \/ AboutToTell(q),
           state'[q] = state[q], queues[q] = up[q],
           q \in spectating => q \in spectating' \/ q \in S
    PROVE  state'[q] = "active" \/ AboutToTell(q)'
<1> SUFFICES ASSUME AboutToTell(q)
             PROVE  AboutToTell(q)'
  OBVIOUS
<1>1. /\ up' = Called(queues, S \cap informed, "Spawn")
      /\ active' = (active \cup (S \cap informed)) \ gone
  BY DEF SpawnAndEnd
<1>2. q \in Players /\ (q \in active => q \in informed)
  BY DEF TypeOK, Linked, BaseInv, InformedInv
<1>3. DeathsFollowSpawns(up'[q])
  BY <1>1, <1>2, TellCalled DEF AboutToTell
<1>4. ASSUME q \in active' \ spectating'
      PROVE  Has(up'[q], "Spawn")
  <2>1. CASE q \in S \cap informed
    BY <1>1, <1>2, <2>1, TellCalled
  <2>2. CASE q \notin S \cap informed
    <3>1. q \in active \ spectating
      BY <1>1, <1>2, <1>4, <2>2
    <3>2. QED
      BY <1>1, <1>2, <3>1, TellCalled DEF AboutToTell
  <2>3. QED
    BY <2>1, <2>2
<1>5. QED
  BY <1>3, <1>4 DEF AboutToTell

LEMMA NextActive ==
    ASSUME ~ScriptsInRestart, TypeOK, BaseInv, WorldInv, [Next]_vars
    PROVE  ActiveInv'
<1> USE DEF serverVars, localVars, viewVars
<1>u. up \in [Players -> Seq(Calls)] /\ slots \subseteq Players
  BY DEF TypeOK, Linked
<1>r. gameState = "running" => \A q \in slots : state[q] = "active" \/ AboutToTell(q)
  BY DEF WorldInv, ActiveInv
<1>1. ASSUME NEW p \in Players, Connect(p)
      PROVE  ActiveInv'
  BY <1>1, <1>u, <1>r, StepTell DEF Connect, TypeOK, Linked, ActiveInv
<1>2. ASSUME NEW p \in Players, ClientJoin(p)
      PROVE  ActiveInv'
  <2>1. up[p] # <<>> /\ Tail(up[p]) = <<>> /\ p \notin slots
    BY <1>2, WhoCalls DEF ClientJoin, Arrives
  <2>2. /\ \A q \in Players \ {p} : up'[q] = up[q]
        /\ up'[p] = Append(<<>>, "RequestClass")
    BY <1>2, <1>u, <2>1 DEF ClientJoin, Called, Rest
  <2>3. AboutToTell(p)'
    <3>1. <<>> \in Seq(Calls)
      OBVIOUS
    <3>2. PICK none \in Seq(Calls) : none = <<>>
      BY <3>1
    <3>3. DeathsFollowSpawns(Append(none, "RequestClass"))
      BY <3>2, EmptyQueue, DeathsAppend
    <3>4. p \notin active'
      BY <1>2, <2>1 DEF ClientJoin, BaseInv, OutsideInv
    <3>5. QED
      BY <2>2, <3>2, <3>3, <3>4 DEF AboutToTell
  <2>4. ASSUME NEW q \in slots, gameState = "running"
        PROVE  state'[q] = "active" \/ AboutToTell(q)'
    BY <1>2, <1>u, <1>r, <2>1, <2>2, <2>4, StepTell DEF ClientJoin
  <2>5. gameState' = gameState /\ slots' = slots \cup {p}
    BY <1>2 DEF ClientJoin
  <2>6. QED
    BY <2>3, <2>4, <2>5 DEF ActiveInv
<1>3. ASSUME NEW p \in Players, Leave(p)
      PROVE  ActiveInv'
  <2>1. PICK watchers \in SUBSET (spectating \ {p}) :
           /\ SpawnAndEnd(watchers, {p}, [up EXCEPT ![p] = <<>>])
           /\ spectating' = spectating \ (watchers \cup {p})
    BY <1>3 DEF Leave
  <2>2. PICK queues : queues = [up EXCEPT ![p] = <<>>]
    OBVIOUS
  <2>3. queues \in [Players -> Seq(Calls)] /\ \A q \in Players \ {p} : queues[q] = up[q]
    BY <2>2, <1>u
  <2>4. /\ slots' = slots \ {p} /\ gameState' = gameState
        /\ \A q \in Players \ {p} : state'[q] = state[q]
    BY <1>3 DEF Leave, TypeOK
  <2>5. ASSUME NEW q \in slots \ {p}, gameState = "running"
        PROVE  state'[q] = "active" \/ AboutToTell(q)'
    <3>1. /\ queues[q] = up[q] /\ state'[q] = state[q]
          /\ state[q] = "active" \/ AboutToTell(q)
          /\ q \in spectating => q \in spectating' \/ q \in watchers
          /\ SpawnAndEnd(watchers, {p}, queues)
      BY <1>u, <1>r, <2>1, <2>2, <2>3, <2>4, <2>5
    <3>2. QED
      BY <2>3, <3>1, SpawnTell
  <2>6. QED
    BY <2>4, <2>5 DEF ActiveInv
<1>4. ASSUME NEW S, NEW call, call # "Death", up' = Called(up, S, call),
             active' \ spectating' \subseteq active \ spectating,
             UNCHANGED <<gameState, slots, state>>
      PROVE  ActiveInv'
  <2>1. ASSUME NEW q \in slots, gameState = "running"
        PROVE  state'[q] = "active" \/ AboutToTell(q)'
    BY <1>4, <1>u, <1>r, <2>1, TellCalled, StepTell
  <2>2. QED
    BY <1>4, <2>1 DEF ActiveInv
<1>5. ASSUME NEW S, SpawnLocally(S, up), spectating \subseteq spectating' \cup S,
             UNCHANGED <<gameState, slots, state>>
      PROVE  ActiveInv'
  <2>1. ASSUME NEW q \in slots, gameState = "running"
        PROVE  state'[q] = "active" \/ AboutToTell(q)'
    BY <1>5, <1>u, <1>r, <2>1, SpawnTell DEF SpawnLocally
  <2>2. QED
    BY <1>5, <2>1 DEF ActiveInv
<1>6. ASSUME NEW p \in Players,
             PressSpawn(p) \/ PressArrow(p) \/ Respawn(p) \/ SpawnPlayer(p)
      PROVE  ActiveInv'
  BY <1>4, <1>5, <1>6 DEF PressSpawn, PressArrow, Respawn, SpawnPlayer
<1>7. ASSUME NEW p \in Players, Die(p)
      PROVE  ActiveInv'
  <2>1. PICK queues : /\ queues = IF p \in spectating \cap informed
                                  THEN Called(up, {p}, "Spawn") ELSE up
                      /\ up' = Called(queues, {p}, "Death")
    BY <1>7 DEF Die
  <2>2. /\ p \in active \cap informed /\ active' = active \ {p} /\ spectating' = spectating \ {p}
        /\ UNCHANGED <<gameState, slots, state>>
    BY <1>7 DEF Die, BaseInv, InformedInv
  <2>3. queues \in [Players -> Seq(Calls)]
    BY <2>1, <1>u, CalledType DEF Calls
  <2>4. \A q \in Players \ {p} : up'[q] = up[q]
    BY <2>1 DEF Called
  <2>5. ASSUME AboutToTell(p)
        PROVE  AboutToTell(p)'
    <3>1. DeathsFollowSpawns(queues[p]) /\ Has(queues[p], "Spawn")
      BY <1>u, <2>1, <2>2, <2>5, TellCalled DEF AboutToTell
    <3>2. up'[p] = Append(queues[p], "Death")
      BY <2>1, <2>3 DEF Called
    <3>3. DeathsFollowSpawns(up'[p])
      BY <2>3, <3>1, <3>2, DeathsAppend
    <3>4. QED
      BY <2>2, <3>3 DEF AboutToTell
  <2>6. ASSUME NEW q \in slots \ {p}, gameState = "running"
        PROVE  state'[q] = "active" \/ AboutToTell(q)'
    BY <1>u, <1>r, <2>2, <2>4, <2>6, StepTell
  <2>7. QED
    BY <1>r, <2>2, <2>5, <2>6 DEF ActiveInv
<1>8. ASSUME NEW p \in Players, TogglePlayerSpectating(p)
      PROVE  ActiveInv'
  <2>1. UNCHANGED <<gameState, slots, state>>
    BY <1>8 DEF TogglePlayerSpectating
  <2>2. CASE spectating' = spectating \cup {p} /\ UNCHANGED <<active, wasted, waiting, up>>
    BY <1>u, <1>r, <2>1, <2>2, StepTell DEF ActiveInv
  <2>3. CASE StopSpectating({p}, up)
    BY <1>5, <2>1, <2>3 DEF StopSpectating
  <2>4. QED
    BY <1>8, <2>2, <2>3 DEF TogglePlayerSpectating
\* A call that is taken from its queue and tells of no spawn.
<1>9. ASSUME NEW p \in Players, NEW call, Arrives(p, call), call # "Spawn",
             NEW q \in Players
      PROVE  /\ Has(up[q], "Spawn") => Has(Rest(p)[q], "Spawn")
             /\ DeathsFollowSpawns(up[q]) => DeathsFollowSpawns(Rest(p)[q])
  <2>1. CASE q = p
    BY <1>u, <1>9, <2>1, HasTail, DeathsTail DEF Arrives, Rest
  <2>2. CASE q # p
    BY <1>u, <2>2 DEF Rest
  <2>3. QED
    BY <2>1, <2>2
<1>10. ASSUME NEW p \in Players, NEW call, Arrives(p, call), call # "Spawn",
              up' = Rest(p), active' \ spectating' \subseteq active \ spectating,
              UNCHANGED <<gameState, slots, state>>
       PROVE  ActiveInv'
  BY <1>9, <1>10, <1>u, <1>r, StepTell DEF ActiveInv
<1>11. ASSUME NEW p \in Players, Ignore(p)
       PROVE  ActiveInv'
  <2>1. CASE gameState # "running"
    BY <1>11, <2>1 DEF Ignore, ActiveInv
  <2>2. CASE gameState = "running"
    <3>1. CASE Served(p, "Spawn") /\ p \notin known
      BY <2>2, <3>1 DEF Served, Arrives, WorldInv, KnownInv
    <3>2. CASE \E call \in Calls \ {"ClientJoin"} : Arrives(p, call) /\ p \notin slots
      BY <3>2, WhoCalls DEF Arrives
    <3>3. QED
      BY <1>11, <2>2, <3>1, <3>2 DEF Ignore
  <2>3. QED
    BY <2>1, <2>2
<1>12. ASSUME NEW p \in Players, RequestClass(p)
       PROVE  ActiveInv'
  BY <1>10, <1>12 DEF RequestClass, Served
<1>13. ASSUME NEW p \in Players, RequestSpawn(p)
       PROVE  ActiveInv'
  <2>1. Arrives(p, "RequestSpawn") /\ UNCHANGED <<gameState, slots, state, spectating, informed>>
    BY <1>13 DEF RequestSpawn, Served
  <2>2. CASE SpawnLocally({p}, Rest(p))
    <3>1. Rest(p) \in [Players -> Seq(Calls)]
      BY <2>1, RestType DEF Arrives
    <3>2. /\ up' = Called(Rest(p), {p} \cap informed, "Spawn")
          /\ active' = active \cup ({p} \cap informed)
      BY <2>2 DEF SpawnLocally, SpawnAndEnd
    <3>3. ASSUME NEW q \in slots, AboutToTell(q)
          PROVE  AboutToTell(q)'
      <4>1. /\ Has(up[q], "Spawn") => Has(Rest(p)[q], "Spawn")
            /\ DeathsFollowSpawns(Rest(p)[q])
        BY <1>9, <1>u, <2>1, <3>3 DEF AboutToTell
      <4>2. DeathsFollowSpawns(up'[q])
        BY <1>u, <3>1, <3>2, <4>1, TellCalled
      <4>3. q \in active' \ spectating' => Has(up'[q], "Spawn")
        BY <1>u, <2>1, <3>1, <3>2, <3>3, <4>1, TellCalled DEF AboutToTell
      <4>4. QED
        BY <4>2, <4>3 DEF AboutToTell
    <3>4. QED
      BY <1>r, <2>1, <3>3 DEF ActiveInv
  <2>3. CASE waiting' = waiting \ {p} /\ up' = Rest(p) /\ UNCHANGED <<active, wasted>>
    BY <1>10, <2>1, <2>3
  <2>4. QED
    BY <1>13, <2>2, <2>3 DEF RequestSpawn
<1>14. ASSUME NEW p \in Players, Spawn(p) \/ Death(p)
       PROVE  ActiveInv'
  <2>1. /\ state' = [state EXCEPT ![p] = "active"] /\ up' = Rest(p)
        /\ UNCHANGED <<gameState, slots, active, spectating>>
    BY <1>14 DEF Spawn, Death
  <2>2. p \in slots => state'[p] = "active"
    BY <2>1 DEF TypeOK
  <2>3. ASSUME NEW q \in slots \ {p}, gameState = "running"
        PROVE  state'[q] = "active" \/ AboutToTell(q)'
    <3>1. state'[q] = state[q] /\ up'[q] = up[q]
      BY <2>1, <1>u DEF Rest, TypeOK
    <3>2. QED
      BY <1>r, <2>1, <2>3, <3>1, StepTell
  <2>4. QED
    BY <2>1, <2>2, <2>3 DEF ActiveInv
<1>15. ASSUME NEW p \in Players, Sync(p)
       PROVE  ActiveInv'
  <2>1. /\ up[p] = <<>> /\ up' = up /\ gameState = "running"
        /\ UNCHANGED <<gameState, slots, active, spectating>>
        /\ \A q \in Players \ {p} : state'[q] = state[q]
        /\ p \in spectating \/ state'[p] = "active"
    BY <1>15 DEF Sync, TypeOK
  <2>2. state'[p] = "active" \/ AboutToTell(p)'
    BY <2>1, EmptyQueue DEF AboutToTell
  <2>3. ASSUME NEW q \in slots \ {p}
        PROVE  state'[q] = "active" \/ AboutToTell(q)'
    BY <1>u, <1>r, <2>1, <2>3, StepTell
  <2>4. QED
    BY <2>1, <2>2, <2>3 DEF ActiveInv
<1>16. CASE UNCHANGED <<gameState, slots, state, active, spectating, up>>
  BY <1>16, <1>r, StepTell DEF ActiveInv
<1>17. CASE Restart
  BY <1>17 DEF Restart, ActiveInv
<1>18. CASE ReInit
  <2>1. /\ \A q \in slots : up'[q] = Append(up[q], "RequestClass") /\ up[q] = <<>>
        /\ active' = {} /\ slots' = slots
    BY <1>18, <1>u DEF ReInit, Called, WorldInv, EmptyInv
  <2>2. \A q \in slots : DeathsFollowSpawns(up'[q])
    BY <1>u, <2>1, EmptyQueue, DeathsAppend
  <2>3. QED
    BY <2>1, <2>2 DEF ActiveInv, AboutToTell
<1>19. QED
  BY <1>1, <1>2, <1>3, <1>6, <1>7, <1>8, <1>11, <1>12, <1>13, <1>14, <1>15, <1>16,
     <1>17, <1>18 DEF Next, SetSpawnInfo, vars

LEMMA NextShown ==
    ASSUME TypeOK, BaseInv, ListInv, WorldInv, [Next]_vars
    PROVE  ShownInv'
<1> USE DEF serverVars, localVars, viewVars
<1>t. /\ slots \subseteq Players /\ state \in [Players -> {"none", "active", "spectating"}]
      /\ shown \in [Players -> SUBSET Players]
  BY DEF TypeOK, Linked
<1>s. \A p, c \in slots : p # c => (p \in shown[c] <=> state[p] = "active")
  BY DEF WorldInv, ShownInv
<1>1. ASSUME NEW p \in Players, ClientJoin(p)
      PROVE  ShownInv'
  <2>1. p \notin slots /\ state[p] = "none"
    BY <1>1, WhoCalls DEF ClientJoin, Arrives, BaseInv, OutsideInv
  <2>2. /\ slots' = slots \cup {p} /\ state' = state
        /\ shown' = [c \in Players |-> IF c = p THEN SpawnedFor(p) ELSE shown[c] \ {p}]
    BY <1>1 DEF ClientJoin
  <2>3. /\ shown'[p] = {q \in slots \ {p} : state[q] = "active"}
        /\ \A c \in slots : shown'[c] = shown[c] \ {p}
    BY <1>t, <2>1, <2>2 DEF SpawnedFor
  <2>4. QED
    BY <1>s, <2>1, <2>2, <2>3 DEF ShownInv
<1>2. ASSUME NEW p \in Players, Leave(p)
      PROVE  ShownInv'
  <2>1. /\ slots' = slots \ {p}
        /\ \A q \in slots \ {p} : state'[q] = state[q] /\ shown'[q] = shown[q] \ {p}
    BY <1>2, <1>t DEF Leave, Forgetting
  <2>2. QED
    BY <1>s, <2>1 DEF ShownInv
<1>3. ASSUME NEW p \in Players, Spawn(p)
      PROVE  ShownInv'
  <2>1. /\ slots' = slots /\ p \in slots
        /\ state' = [state EXCEPT ![p] = "active"] /\ ShowToOthers(p)
    BY <1>3 DEF Spawn, Served
  <2>2. \A c \in slots \ {p} : shown'[c] = shown[c] \cup {p}
    BY <2>1, <1>t DEF ShowToOthers, ListInv
  <2>3. shown'[p] = shown[p]
    BY <2>1, <1>t DEF ShowToOthers
  <2>4. QED
    BY <1>s, <1>t, <2>1, <2>2, <2>3 DEF ShownInv
<1>4. ASSUME NEW p \in Players, Death(p)
      PROVE  ShownInv'
  <2>1. /\ up[p] # <<>> /\ Head(up[p]) = "Death" /\ up[p] \in Seq(Calls)
        /\ gameState = "running" /\ p \in slots
    BY <1>4 DEF Death, Served, Arrives, TypeOK
  <2>2. state[p] = "active"
    BY <2>1, DeathsTail DEF WorldInv, ActiveInv, AboutToTell
  <2>3. state' = state /\ shown' = shown /\ slots' = slots
    BY <1>4, <1>t, <2>2 DEF Death
  <2>4. QED
    BY <1>s, <2>3 DEF ShownInv
<1>5. ASSUME NEW p \in Players, Sync(p)
      PROVE  ShownInv'
  <2>1. gameState = "running" /\ p \in slots /\ up[p] = <<>> /\ slots' = slots
    BY <1>5 DEF Sync
  <2>2. p \in active \ spectating => state[p] = "active"
    BY <2>1, EmptyQueue DEF WorldInv, ActiveInv, AboutToTell
  <2>3. state' = [state EXCEPT ![p] = "spectating"] /\ HideFromOthers(p)
    BY <1>5, <2>2 DEF Sync
  <2>4. /\ \A c \in slots \ {p} : shown'[c] = shown[c] \ {p}
        /\ shown'[p] = shown[p]
    BY <2>1, <2>3, <1>t DEF HideFromOthers
  <2>5. QED
    BY <1>s, <1>t, <2>1, <2>3, <2>4 DEF ShownInv
<1>6. CASE Restart
  BY <1>6, <1>t DEF Restart, ShownInv
<1>7. CASE UNCHANGED <<slots, state, shown>>
  BY <1>7, <1>s DEF ShownInv
<1>8. QED
  BY <1>1, <1>2, <1>3, <1>4, <1>5, <1>6, <1>7
     DEF Next, Connect, PressSpawn, PressArrow, Die, Respawn, Ignore, RequestClass,
         RequestSpawn, TogglePlayerSpectating, SetSpawnInfo, SpawnPlayer, ReInit, vars

\* The clients agree on who is in the world, and who walks about in it on his own
\* client, with no call on its way, is there for the server and for everybody else
\* (netrpc.cpp 206-318, player.cpp 794-895, playerpool.cpp 184-240),
\* through joins, deaths, spectating and restarts, as long as scripts leave the
\* players alone while there is no game mode.
THEOREM TheWorldIsShared ==
    ASSUME ~ScriptsInRestart
    PROVE  Spec => []WorldIsShared
<1>1. TypeOK /\ BaseInv /\ ListInv /\ WorldInv /\ [Next]_vars => WorldInv'
  BY NextEmpty, NextKnown, NextActive, NextShown DEF WorldInv
<1>2. TypeOK /\ WorldInv => WorldIsShared
  <2> SUFFICES ASSUME TypeOK, WorldInv
               PROVE  WorldIsShared
    OBVIOUS
  <2>1. ActiveIsSeen
    <3> SUFFICES ASSUME NEW p \in active \ spectating, gameState = "running",
                        p \in slots, up[p] = <<>>
                 PROVE  p \in known /\ \A c \in slots \ {p} : p \in shown[c]
      BY DEF ActiveIsSeen
    <3>1. p \in known
      BY DEF WorldInv, KnownInv
    <3>2. state[p] = "active"
      BY EmptyQueue DEF WorldInv, ActiveInv, AboutToTell
    <3>3. QED
      BY <3>1, <3>2 DEF WorldInv, ShownInv
  <2>2. SameWorld
    BY DEF SameWorld, WorldInv, ShownInv
  <2>3. QED
    BY <2>1, <2>2 DEF WorldIsShared
<1>3. QED
  BY <1>1, <1>2, InitType, NextType, InitBase, NextBase, InitList, NextList, InitWorld,
     PTL DEF Spec
=============================================================================
