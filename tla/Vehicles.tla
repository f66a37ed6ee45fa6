------------------------------ MODULE Vehicles ------------------------------
(***************************************************************************)
(* The vehicle pool (server/vehiclepool.cpp), the life of a vehicle        *)
(* (server/vehicle.cpp) and the packets and natives that touch it          *)
(* (server/player.cpp, server/netrpc.cpp, server/scrcustom.cpp).           *)
(*                                                                         *)
(* A vehicle that somebody drove is put back to its spawn position when it *)
(* is left alone for its respawn delay, and a wreck about ten seconds      *)
(* after its death was announced.  What the server knows of the driver are *)
(* the synchronisation packets of the clients, which may come from several *)
(* of them and late.  A death is told to the filter scripts in the order   *)
(* of their slots and then to the game mode, and each of them may call     *)
(* natives before the next is told.  Time is counted in units of five      *)
(* seconds, and every age only up to the last value the code compares it   *)
(* with.                                                                   *)
(***************************************************************************)
EXTENDS Integers, FiniteSets

CONSTANTS Players,       \* the player slots
          Nobody,        \* INVALID_ID
          MaxVehicles,   \* MAX_VEHICLES; id 0 is never used
          Models,        \* valid vehicle models
          Trains,        \* those IsATrainPart knows
          NumScripts,    \* filter scripts and the game mode, which is the last
          Delay          \* iRespawnDelay, in units of time, or Never

UpdateGrace == 1         \* updates are ignored for 5 s after a respawn
IdleGrace == 2           \* no idle respawn for 10 s after a respawn
WreckTime == 2           \* a wreck stays for more than 10 s
Never == -1

ASSUME VehiclesAssumption ==
    /\ Nobody \notin Players
    /\ MaxVehicles \in Nat
    /\ Models # {} /\ Trains \subseteq Models
    /\ NumScripts \in Nat
    /\ Delay \in Nat \cup {Never}

Ids == 1 .. (MaxVehicles - 1)
Scripts == 1 .. NumScripts
AgeLimit == IF Delay > WreckTime THEN Delay ELSE WreckTime + 1

VARIABLES active,        \* m_bVehicleSlotState
          last,          \* m_iLastVehicleId
          used,          \* m_usVehicleModelsUsed
          vehicle,       \* the CVehicle of each id
          online,        \* occupied player slots
          seat, inside,  \* of each player: seated as what, m_VehicleID
          towing,        \* m_icSync.TrailerID of each player
          dying, told,   \* the vehicle whose death is announced, or 0, and how many
                         \* scripts have been told of it
          heard,         \* history: of each vehicle and script, the OnVehicleDeath calls
                         \* since the last OnVehicleSpawn, up to 3
          early,         \* history: the scripts that heard of the last spawn before the
                         \* death it ended
          reported       \* history: the vehicles VehicleDestroyed named since they spawned

poolVars == <<active, last, used>>
playerVars == <<online, seat, inside, towing>>
callVars == <<dying, told>>
lifeVars == <<heard, early, reported>>
vars == <<poolVars, vehicle, playerVars, callVars, lifeVars>>

Vehicle == [model : Models, driver : Players \cup {Nobody}, dead : BOOLEAN,
            notified : BOOLEAN, occupied : BOOLEAN,
            respawned : 0 .. AgeLimit, seen : 0 .. AgeLimit]

TypeOK ==
    /\ active \in SUBSET Ids
    /\ last \in Ids \cup {-1}
    /\ used \in [Models -> Int]
    /\ vehicle \in [Ids -> Vehicle]
    /\ online \in SUBSET Players
    /\ seat \in [Players -> {"none", "driver", "passenger"}]
    /\ inside \in [Players -> Ids \cup {0}]
    /\ towing \in [Players -> Ids \cup {0}]
    /\ dying \in active \cup {0} /\ told \in 0 .. NumScripts
    /\ heard \in [Ids -> [Scripts -> 0 .. 3]]
    /\ early \in [Ids -> SUBSET Scripts]
    /\ reported \in SUBSET Ids

\* CVehicle::CVehicle leaves m_dwLastSeenOccupiedTick alone; it is not read
\* before Update or the death announcement writes it.
Made(m) == [model |-> m, driver |-> Nobody, dead |-> FALSE, notified |-> FALSE,
            occupied |-> FALSE, respawned |-> 0, seen |-> 0]

Init ==
    /\ active = {} /\ last = -1
    /\ used = [m \in Models |-> 0]
    /\ vehicle = [v \in Ids |-> Made(CHOOSE m \in Models : TRUE)]
    /\ online = {}
    /\ seat = [p \in Players |-> "none"]
    /\ inside = [p \in Players |-> 0]
    /\ towing = [p \in Players |-> 0]
    /\ dying = 0 /\ told = 0
    /\ heard = [v \in Ids |-> [s \in Scripts |-> 0]]
    /\ early = [v \in Ids |-> {}]
    /\ reported = {}

\* Packets are read, and vehicles processed, between the announcements of deaths.
Idle == dying = 0

\* The scripts that have yet to be told of the death of v.
Untold(v) == {s \in Scripts : dying = v /\ s > told}

\* A new life of v begins.
Born(v) ==
    /\ heard' = [heard EXCEPT ![v] = [s \in Scripts |-> 0]]
    /\ early' = [early EXCEPT ![v] = Untold(v)]
    /\ reported' = reported \ {v}

-----------------------------------------------------------------------------
(* The pool. *)

LastOf(S) == IF S = {} THEN -1 ELSE CHOOSE v \in S : \A w \in S : w =< v

\* CVehiclePool::New takes the first free id.
CreateVehicle(m) ==
    /\ active # Ids
    /\ LET v == CHOOSE i \in Ids \ active : \A j \in Ids \ active : i =< j IN
       /\ active' = active \cup {v}
       /\ vehicle' = [vehicle EXCEPT ![v] = Made(m)]
       /\ Born(v)
    /\ last' = LastOf(active')
    /\ used' = [used EXCEPT ![m] = @ + 1]
    /\ UNCHANGED <<playerVars, callVars>>

\* CVehiclePool::Delete.  Players keep the id in m_VehicleID and m_icSync.  No script
\* destroys a vehicle in a callback of its death: Process goes on to use it.
DestroyVehicle(v) ==
    /\ v \in active /\ v # dying
    /\ active' = active \ {v}
    /\ last' = LastOf(active')
    /\ used' = [used EXCEPT ![vehicle[v].model] = @ - 1]
    /\ UNCHANGED <<vehicle, playerVars, callVars, lifeVars>>

\* A game mode restart: a new pool, and every player's state is reset.
Restart ==
    /\ Idle
    /\ active' = {} /\ last' = -1
    /\ used' = [m \in Models |-> 0]
    /\ seat' = [p \in Players |-> "none"]
    /\ UNCHANGED <<vehicle, online, inside, towing, callVars, lifeVars>>

-----------------------------------------------------------------------------
(* One vehicle: Update and Respawn. *)

\* CVehicle::Update by player p; wrecked tells that the health is not above 0.
Updated(r, p, wrecked) ==
    IF r.respawned < UpdateGrace THEN r
    ELSE [r EXCEPT !.driver = p, !.seen = 0, !.occupied = TRUE, !.dead = @ \/ wrecked]

\* CVehicle::Respawn.  The driver and the health stay as they were.  Every script is
\* told, also those that have yet to be told of the death.  No death is announced before
\* all of them know, and they call natives when the new life has begun, so the callbacks
\* are one step.
Respawned(r) ==
    [r EXCEPT !.dead = FALSE, !.notified = FALSE, !.occupied = FALSE, !.respawned = 0]

Respawn(v) ==
    /\ vehicle' = [vehicle EXCEPT ![v] = Respawned(@)]
    /\ Born(v)
    /\ UNCHANGED <<poolVars, playerVars, callVars>>

\* Of all the players the code looks only at the last driver.
IsOccupied(v) ==
    LET d == vehicle[v].driver IN
    d \in online /\ inside[d] = v /\ seat[d] # "none"

-----------------------------------------------------------------------------
(* What the clients send, while the game runs. *)

\* CPlayer::CPlayer does not initialise m_icSync, so the new player tows
\* whatever vehicle its memory names.
Join(p, t) ==
    /\ Idle /\ p \notin online
    /\ online' = online \cup {p}
    /\ seat' = [seat EXCEPT ![p] = "none"]
    /\ inside' = [inside EXCEPT ![p] = 0]
    /\ towing' = [towing EXCEPT ![p] = t]
    /\ UNCHANGED <<poolVars, vehicle, callVars, lifeVars>>

\* A script may kick as well.
Leave(p) ==
    /\ p \in online
    /\ online' = online \ {p}
    /\ UNCHANGED <<poolVars, vehicle, seat, inside, towing, callVars, lifeVars>>

\* StoreInCarFullSyncData.  The id the client names need not exist any more.
VehicleSync(p, v, t, wrecked) ==
    /\ Idle /\ p \in online
    /\ inside' = [inside EXCEPT ![p] = v]
    /\ towing' = [towing EXCEPT ![p] = t]
    /\ seat' = [seat EXCEPT ![p] = "driver"]
    /\ vehicle' = IF v \in active
                  THEN [vehicle EXCEPT ![v] = Updated(@, p, wrecked)]
                  ELSE vehicle
    /\ UNCHANGED <<poolVars, online, callVars, lifeVars>>

\* StoreTrailerFullSyncData takes the trailer from the last in-car packet and
\* writes full health.
TrailerSync(p) ==
    /\ Idle /\ p \in online /\ towing[p] \in active
    /\ vehicle' = [vehicle EXCEPT ![towing[p]] = Updated(@, p, FALSE)]
    /\ UNCHANGED <<poolVars, playerVars, callVars, lifeVars>>

\* StorePassengerFullSyncData tells the vehicle nothing.
PassengerSync(p, v) ==
    /\ Idle /\ p \in online
    /\ inside' = [inside EXCEPT ![p] = v]
    /\ seat' = [seat EXCEPT ![p] = "passenger"]
    /\ UNCHANGED <<poolVars, vehicle, online, towing, callVars, lifeVars>>

\* StoreOnFootFullSyncData and Spawn.
OnFoot(p) ==
    /\ Idle /\ p \in online
    /\ inside' = [inside EXCEPT ![p] = 0]
    /\ seat' = [seat EXCEPT ![p] = "none"]
    /\ UNCHANGED <<poolVars, vehicle, online, towing, callVars, lifeVars>>

\* EnterVehicle, ExitVehicle, HandleDeath and spectating change the state of
\* the player and not the vehicle it names.
LeaveSeat(p) ==
    /\ p \in online
    /\ seat' = [seat EXCEPT ![p] = "none"]
    /\ UNCHANGED <<poolVars, vehicle, online, inside, towing, callVars, lifeVars>>

\* The VehicleDestroyed call of any client, at any time after a respawn.
SetDead(r) == [r EXCEPT !.dead = TRUE]
VehicleDestroyed(v) ==
    /\ Idle /\ v \in active /\ online # {}
    /\ vehicle' = [vehicle EXCEPT ![v] = SetDead(@)]
    /\ reported' = reported \cup {v}
    /\ UNCHANGED <<poolVars, playerVars, callVars, heard, early>>

\* The native makes p the driver before p's client has heard of it.
PutPlayerInVehicle(p, v) ==
    /\ p \in online /\ v \in active
    /\ vehicle' = [vehicle EXCEPT ![v] = [@ EXCEPT !.driver = p]]
    /\ UNCHANGED <<poolVars, playerVars, callVars, lifeVars>>

SetVehicleToRespawn(v) == v \in active /\ Respawn(v)

-----------------------------------------------------------------------------
(* CVehicle::Process.  One call in twenty looks for an idle vehicle and does *)
(* nothing else; a wreck that has been announced is respawned by one in      *)
(* twenty.                                                                   *)

\* CheckForIdleRespawn.
IdleRespawn(v) ==
    /\ Idle /\ v \in active /\ ~vehicle[v].notified /\ Delay # Never
    /\ vehicle[v].model \notin Trains
    /\ vehicle[v].respawned >= IdleGrace
    /\ ~IsOccupied(v)
    /\ vehicle[v].occupied /\ vehicle[v].seen >= Delay
    /\ Respawn(v)

\* A mutant: the announcement is not remembered.
AnnounceDeath_Again(v) ==
    /\ Idle /\ v \in active /\ vehicle[v].dead /\ ~vehicle[v].notified
    /\ dying' = v /\ told' = 0
    /\ UNCHANGED <<poolVars, vehicle, playerVars, lifeVars>>

\* The flag is set before the first script is told.
AnnounceDeath(v) ==
    /\ Idle /\ v \in active /\ vehicle[v].dead /\ ~vehicle[v].notified
    /\ vehicle' = [vehicle EXCEPT ![v] = [@ EXCEPT !.notified = TRUE]]
    /\ dying' = v /\ told' = 0
    /\ UNCHANGED <<poolVars, playerVars, lifeVars>>

\* The next script is told; it calls natives afterwards.
OnVehicleDeath ==
    /\ ~Idle /\ told < NumScripts
    /\ told' = told + 1
    /\ heard' = [heard EXCEPT ![dying][told'] = IF @ = 3 THEN 3 ELSE @ + 1]
    /\ UNCHANGED <<poolVars, vehicle, playerVars, dying, early, reported>>

\* When all have been told the wait for the respawn begins.
DeathAnnounced ==
    /\ ~Idle /\ told = NumScripts
    /\ vehicle' = [vehicle EXCEPT ![dying] = [@ EXCEPT !.seen = 0]]
    /\ dying' = 0 /\ told' = 0
    /\ UNCHANGED <<poolVars, playerVars, lifeVars>>

\* A mutant: only a wreck that somebody drove is respawned.
WreckRespawn_Driven(v) ==
    /\ Idle /\ v \in active /\ vehicle[v].dead /\ vehicle[v].notified
    /\ vehicle[v].seen > WreckTime /\ vehicle[v].occupied
    /\ Respawn(v)

WreckRespawn(v) ==
    /\ Idle /\ v \in active /\ vehicle[v].dead /\ vehicle[v].notified
    /\ vehicle[v].seen > WreckTime
    /\ Respawn(v)

\* A mutant: the age outgrows what the code compares it with.
Older_Unbounded(age) == age + 1

\* Time passes for all vehicles.
Older(age) == IF age = AgeLimit THEN age ELSE age + 1
Aged(r) == [r EXCEPT !.respawned = Older(@), !.seen = Older(@)]
Tick ==
    /\ vehicle' = [v \in Ids |-> Aged(vehicle[v])]
    /\ UNCHANGED <<poolVars, playerVars, callVars, lifeVars>>

Next ==
    \/ \E m \in Models : CreateVehicle(m)
    \/ \E v \in Ids : DestroyVehicle(v)
    \/ Restart
    \/ \E p \in Players, t \in Ids \cup {0} : Join(p, t)
    \/ \E p \in Players : Leave(p)
    \/ \E p \in Players, v \in Ids, t \in Ids \cup {0}, w \in BOOLEAN :
          t # v /\ VehicleSync(p, v, t, w)
    \/ \E p \in Players : TrailerSync(p)
    \/ \E p \in Players, v \in Ids : PassengerSync(p, v)
    \/ \E p \in Players : OnFoot(p)
    \/ \E p \in Players : LeaveSeat(p)
    \/ \E v \in Ids : VehicleDestroyed(v)
    \/ \E p \in Players, v \in Ids : PutPlayerInVehicle(p, v)
    \/ \E v \in Ids : SetVehicleToRespawn(v)
    \/ \E v \in Ids : IdleRespawn(v)
    \/ \E v \in Ids : AnnounceDeath(v)
    \/ OnVehicleDeath
    \/ DeathAnnounced
    \/ \E v \in Ids : WreckRespawn(v)
    \/ Tick

Spec == Init /\ [][Next]_vars

\* The main loop processes every vehicle in every frame, each outcome of rand() comes up
\* again and again, and scripts return.  Fairness is strong where a vehicle waits for the
\* callbacks of another's death.
FairSpec ==
    /\ Spec
    /\ WF_vars(Tick) /\ WF_vars(OnVehicleDeath) /\ WF_vars(DeathAnnounced)
    /\ \A v \in Ids : SF_vars(AnnounceDeath(v)) /\ SF_vars(WreckRespawn(v))

-----------------------------------------------------------------------------
(* Properties. *)

\* GetVehiclePoolSize and GetVehicleModelsUsed tell scripts the truth after
\* any sequence of creations and destructions (vehiclepool.cpp 60-69, 87-100).
PoolCountsMatch ==
    /\ \A m \in Models : used[m] = Cardinality({v \in active : vehicle[v].model = m})
    /\ last = IF active = {} THEN -1 ELSE CHOOSE v \in active : \A w \in active : w =< v

\* However many clients report a wreck, and however late, a script hears of one death
\* between two spawns of the vehicle, and of a second only if a script that was told before
\* it respawned the vehicle in its OnVehicleDeath, so that it heard of the spawn first
\* (vehicle.cpp 218-229).
OneDeathPerLife ==
    \A v \in active, s \in Scripts : heard[v][s] =< IF s \in early[v] THEN 2 ELSE 1

\* Scripts that heard of a death hear of the respawn: the flag that silences the next
\* announcement stays set only as long as the wreck does, and all that have been told count
\* it.
NotifiedIsDead ==
    \A v \in active : vehicle[v].notified =>
        /\ vehicle[v].dead
        /\ \A s \in Scripts \ Untold(v) : heard[v][s] >= 1

\* Synchronisation packets that a client sent before it heard of a respawn cannot make the
\* vehicle count as used or wreck it again (vehicle.cpp 72).
FreshAfterRespawn ==
    \A v \in active : vehicle[v].respawned < UpdateGrace =>
        /\ ~vehicle[v].occupied
        /\ vehicle[v].dead => v \in reported

\* Two lives of a vehicle are apart as far as the code keeps them so: each has one death
\* for scripts, but for the order in which they hear of it; an announced wreck stays one
\* until it is respawned; and no late synchronisation packet reaches into the new life.  A
\* late VehicleDestroyed does: there is no grace for it (netrpc.cpp 711-714), and the fresh
\* vehicle is a wreck again.
LivesAreApart == OneDeathPerLife /\ NotifiedIsDead /\ FreshAfterRespawn

\* A vehicle that stays a wreck for ever is one that clients send updates for
\* again and again: every other wreck is respawned (vehicle.cpp 230-234).
WrecksComeBack ==
    \A v \in Ids :
        <>[](v \in active /\ vehicle[v].dead) => []<>(vehicle[v].seen = 0)
=============================================================================
