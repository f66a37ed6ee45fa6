--------------------------- MODULE VehiclesProofs ---------------------------
(***************************************************************************)
(* Proofs about Vehicles, for any number of players and vehicles, any      *)
(* models, any respawn delay and any number of scripts that are told of    *)
(* deaths.                                                                 *)
(***************************************************************************)
EXTENDS Vehicles, SlotLemmas, FiniteSetTheorems, TLAPS

-----------------------------------------------------------------------------
(* Ages and slots. *)

\* The age the code compares with is beyond every age it is compared with.
LEMMA AgeLimitType == AgeLimit \in Nat /\ AgeLimit > WreckTime
  BY VehiclesAssumption DEF AgeLimit, WreckTime, Never

LEMMA AgeType ==
    /\ 0 \in 0 .. AgeLimit
    /\ \A a \in 0 .. AgeLimit : Older(a) \in 0 .. AgeLimit /\ ~(Older(a) < UpdateGrace)
  BY AgeLimitType DEF Older, UpdateGrace, WreckTime

LEMMA IdsFinite == IsFiniteSet(Ids) /\ Ids \in SUBSET Int
<1>1. 1 \in Int /\ MaxVehicles - 1 \in Int
  BY VehiclesAssumption
<1>2. QED
  BY <1>1, FS_Interval DEF Ids

LEMMA LastOfIsMaximum ==
    ASSUME NEW S \in SUBSET Ids, S # {}
    PROVE  LastOf(S) \in S /\ \A q \in S : q =< LastOf(S)
<1>1. IsFiniteSet(S) /\ S \in SUBSET Int
  BY IdsFinite, FS_Subset
<1>2. PICK p \in S : \A q \in S : q =< p
  BY <1>1, FiniteMaximum
<1>3. QED
  BY <1>2 DEF LastOf

LEMMA LastOfType == \A S \in SUBSET Ids : LastOf(S) \in Ids \cup {-1}
  BY LastOfIsMaximum DEF LastOf

\* The id New takes is free.
LEMMA FirstFree ==
    ASSUME NEW S \in SUBSET Ids, S # Ids
    PROVE  LET v == CHOOSE i \in Ids \ S : \A j \in Ids \ S : i =< j
           IN  v \in Ids /\ v \notin S
<1>1. \E i \in Ids \ S : \A j \in Ids \ S : i =< j
  <2> DEFINE Back == {-i : i \in Ids \ S}
  <2>1. Ids \ S \in SUBSET Int /\ Ids \ S # {}
    BY IdsFinite
  <2>2. IsFiniteSet(Back)
    <3>1. 1 - MaxVehicles \in Int /\ -1 \in Int
      BY VehiclesAssumption
    <3>2. Back \in SUBSET ((1 - MaxVehicles) .. -1)
      BY VehiclesAssumption DEF Ids
    <3>3. QED
      BY <3>1, <3>2, FS_Interval, FS_Subset
  <2>3. Back \in SUBSET Int /\ Back # {}
    BY <2>1
  <2>4. PICK m \in Back : \A k \in Back : k =< m
    BY <2>2, <2>3, FiniteMaximum
  <2>5. PICK i \in Ids \ S : m = -i
    OBVIOUS
  <2>6. \A j \in Ids \ S : i =< j
    <3>1. SUFFICES ASSUME NEW j \in Ids \ S
                   PROVE  i =< j
      OBVIOUS
    <3>2. -j =< -i
      BY <2>4, <2>5
    <3>3. i \in Int /\ j \in Int
      BY <2>1
    <3>4. QED
      BY <3>2, <3>3
  <2>7. QED
    BY <2>6
<1>2. QED
  BY <1>1
-----------------------------------------------------------------------------
(* What an action may do to a vehicle. *)

LEMMA MadeType == \A m \in Models : Made(m) \in Vehicle
  BY AgeType DEF Made, Vehicle

LEMMA UpdatedType ==
    \A r \in Vehicle, p \in Players, w \in BOOLEAN : Updated(r, p, w) \in Vehicle
  BY AgeType DEF Updated, Vehicle

LEMMA RespawnedType == \A r \in Vehicle : Respawned(r) \in Vehicle
  BY AgeType DEF Respawned, Vehicle

LEMMA OtherTypes ==
    ASSUME NEW r \in Vehicle
    PROVE  /\ SetDead(r) \in Vehicle /\ Aged(r) \in Vehicle
           /\ [r EXCEPT !.notified = TRUE] \in Vehicle /\ [r EXCEPT !.seen = 0] \in Vehicle
           /\ \A p \in Players : [r EXCEPT !.driver = p] \in Vehicle
  BY AgeType DEF SetDead, Aged, Vehicle

LEMMA InitType == Init => TypeOK
<1>1. (CHOOSE m \in Models : TRUE) \in Models /\ 0 \in 0 .. NumScripts
  BY VehiclesAssumption
<1>2. QED
  BY <1>1, MadeType DEF Init, TypeOK

LEMMA BornType ==
    ASSUME TypeOK, NEW v \in Ids, Born(v)
    PROVE  /\ heard' \in [Ids -> [Scripts -> 0 .. 3]]
           /\ early' \in [Ids -> SUBSET Scripts] /\ reported' \in SUBSET Ids
<1>1. Untold(v) \in SUBSET Scripts /\ [s \in Scripts |-> 0] \in [Scripts -> 0 .. 3]
  BY DEF Untold
<1>2. QED
  BY <1>1 DEF Born, TypeOK

\* Every variable keeps its type: an update, a respawn and the clock leave a
\* vehicle a vehicle, and the greatest id in use is an id.
LEMMA NextType == TypeOK /\ [Next]_vars => TypeOK'
<1> SUFFICES ASSUME TypeOK, [Next]_vars
             PROVE  TypeOK'
  OBVIOUS
<1> USE DEF TypeOK
<1>1. ASSUME NEW m \in Models, CreateVehicle(m)
      PROVE  TypeOK'
  <2> DEFINE v == CHOOSE i \in Ids \ active : \A j \in Ids \ active : i =< j
  <2>1. v \in Ids /\ Born(v) /\ active' = active \cup {v}
    BY <1>1, FirstFree DEF CreateVehicle
  <2>2. /\ vehicle' = [vehicle EXCEPT ![v] = Made(m)] /\ last' = LastOf(active')
        /\ used' = [used EXCEPT ![m] = @ + 1]
        /\ UNCHANGED <<online, seat, inside, towing, dying, told>>
    BY <1>1 DEF CreateVehicle, playerVars, callVars
  <2> HIDE DEF v
  <2>3. heard' \in [Ids -> [Scripts -> 0 .. 3]] /\ early' \in [Ids -> SUBSET Scripts]
        /\ reported' \in SUBSET Ids
    BY <2>1, BornType
  <2>4. active' \in SUBSET Ids /\ last' \in Ids \cup {-1} /\ dying' \in active' \cup {0}
    BY <2>1, <2>2, LastOfType
  <2>5. vehicle' \in [Ids -> Vehicle]
    BY <2>2, MadeType
  <2>6. used' \in [Models -> Int]
    BY <2>2
  <2>7. QED
    BY <2>2, <2>3, <2>4, <2>5, <2>6
<1>2. ASSUME NEW v \in Ids, DestroyVehicle(v)
      PROVE  TypeOK'
  <2>1. active' \in SUBSET Ids /\ last' \in Ids \cup {-1}
    BY <1>2, LastOfType DEF DestroyVehicle
  <2>2. used' \in [Models -> Int]
    <3>1. vehicle[v].model \in Models
      BY DEF Vehicle
    <3>2. QED
      BY <1>2, <3>1 DEF DestroyVehicle
  <2>3. QED
    BY <1>2, <2>1, <2>2 DEF DestroyVehicle, playerVars, callVars, lifeVars
<1>3. CASE Restart
  BY <1>3 DEF Restart, Idle, callVars, lifeVars
<1>4. ASSUME NEW p \in Players, NEW t \in Ids \cup {0}, Join(p, t)
      PROVE  TypeOK'
  BY <1>4 DEF Join, poolVars, callVars, lifeVars
<1>5. ASSUME NEW p \in Players, Leave(p) \/ OnFoot(p) \/ LeaveSeat(p)
      PROVE  TypeOK'
  BY <1>5 DEF Leave, OnFoot, LeaveSeat, poolVars, callVars, lifeVars
<1>6. ASSUME NEW p \in Players, NEW v \in Ids, NEW t \in Ids \cup {0},
             NEW w \in BOOLEAN, VehicleSync(p, v, t, w)
      PROVE  TypeOK'
  BY <1>6, UpdatedType DEF VehicleSync, poolVars, callVars, lifeVars
<1>7. ASSUME NEW p \in Players, TrailerSync(p)
      PROVE  TypeOK'
  BY <1>7, UpdatedType DEF TrailerSync, poolVars, playerVars, callVars, lifeVars
<1>8. ASSUME NEW p \in Players, NEW v \in Ids, PassengerSync(p, v)
      PROVE  TypeOK'
  BY <1>8 DEF PassengerSync, poolVars, callVars, lifeVars
<1>9. ASSUME NEW v \in Ids, VehicleDestroyed(v)
      PROVE  TypeOK'
  BY <1>9, OtherTypes DEF VehicleDestroyed, poolVars, playerVars, callVars
<1>10. ASSUME NEW p \in Players, NEW v \in Ids, PutPlayerInVehicle(p, v)
       PROVE  TypeOK'
  BY <1>10, OtherTypes DEF PutPlayerInVehicle, poolVars, playerVars, callVars, lifeVars
<1>11. ASSUME NEW v \in Ids, Respawn(v)
       PROVE  TypeOK'
  <2>1. /\ heard' \in [Ids -> [Scripts -> 0 .. 3]] /\ early' \in [Ids -> SUBSET Scripts]
        /\ reported' \in SUBSET Ids
    BY <1>11, BornType DEF Respawn
  <2>2. QED
    BY <1>11, <2>1, RespawnedType DEF Respawn, poolVars, playerVars, callVars
<1>12. ASSUME NEW v \in Ids, AnnounceDeath(v)
       PROVE  TypeOK'
  <2>1. 0 \in 0 .. NumScripts
    BY VehiclesAssumption
  <2>2. QED
    BY <1>12, <2>1, OtherTypes DEF AnnounceDeath, poolVars, playerVars, lifeVars
<1>13. CASE OnVehicleDeath
  <2>1. told + 1 \in 0 .. NumScripts /\ told + 1 \in Scripts /\ dying \in Ids
    BY <1>13, VehiclesAssumption DEF OnVehicleDeath, Idle, Scripts
  <2>2. \A n \in 0 .. 3 : (IF n = 3 THEN 3 ELSE n + 1) \in 0 .. 3
    OBVIOUS
  <2>3. heard' \in [Ids -> [Scripts -> 0 .. 3]]
    <3>1. PICK h, k : h = heard[dying] /\ k = (IF h[told + 1] = 3 THEN 3 ELSE h[told + 1] + 1)
      OBVIOUS
    <3>2. h \in [Scripts -> 0 .. 3] /\ k \in 0 .. 3
      BY <2>1, <2>2, <3>1
    <3>3. [h EXCEPT ![told + 1] = k] \in [Scripts -> 0 .. 3]
      BY <3>2
    <3>4. heard' = [heard EXCEPT ![dying] = [h EXCEPT ![told + 1] = k]]
      BY <1>13, <3>1 DEF OnVehicleDeath
    <3>5. QED
      BY <2>1, <3>3, <3>4
  <2>4. QED
    BY <1>13, <2>1, <2>3 DEF OnVehicleDeath, poolVars, playerVars
<1>14. CASE DeathAnnounced
  <2>1. 0 \in 0 .. NumScripts /\ dying \in Ids
    BY <1>14, VehiclesAssumption DEF DeathAnnounced, Idle
  <2>2. vehicle' \in [Ids -> Vehicle]
    BY <1>14, <2>1, OtherTypes DEF DeathAnnounced
  <2>3. QED
    BY <1>14, <2>1, <2>2 DEF DeathAnnounced, poolVars, playerVars, lifeVars
<1>15. CASE Tick
  BY <1>15, OtherTypes DEF Tick, poolVars, playerVars, callVars, lifeVars
<1>16. CASE UNCHANGED vars
  BY <1>16 DEF vars, poolVars, playerVars, callVars, lifeVars
<1>17. QED
  BY <1>1, <1>2, <1>3, <1>4, <1>5, <1>6, <1>7, <1>8, <1>9, <1>10, <1>11, <1>12, <1>13,
     <1>14, <1>15, <1>16 DEF Next, SetVehicleToRespawn, IdleRespawn, WreckRespawn

\* Types, in every reachable state.
THEOREM TypeCorrect == Spec => []TypeOK
  BY InitType, NextType, PTL DEF Spec
-----------------------------------------------------------------------------
(* The record of one vehicle: an announced wreck is a wreck, and for the grace period *)
(* after a respawn the vehicle is unused, and a wreck only by a report.              *)

Sound(r, v, R) ==
    /\ r.notified => r.dead
    /\ r.respawned < UpdateGrace => ~r.occupied /\ (r.dead => v \in R)

RecordInv == \A v \in active : Sound(vehicle[v], v, reported)

LEMMA FreshSound ==
    \A v, R : /\ \A m \in Models : Sound(Made(m), v, R)
              /\ \A r \in Vehicle : Sound(Respawned(r), v, R)
  BY DEF Sound, Made, Respawned, Vehicle

LEMMA UpdatedSound ==
    ASSUME NEW r \in Vehicle, NEW v, NEW R, Sound(r, v, R),
           NEW p \in Players, NEW w \in BOOLEAN
    PROVE  Sound(Updated(r, p, w), v, R)
<1>1. CASE r.respawned < UpdateGrace
  BY <1>1 DEF Updated
<1>2. CASE ~(r.respawned < UpdateGrace)
  <2> DEFINE u == Updated(r, p, w)
  <2>1. u.respawned = r.respawned /\ u.notified = r.notified /\ u.dead = (r.dead \/ w)
    BY <1>2 DEF Updated, Vehicle
  <2>2. QED
    BY <1>2, <2>1 DEF Sound
<1>3. QED
  BY <1>1, <1>2

LEMMA OtherSound ==
    ASSUME NEW r \in Vehicle, NEW v, NEW R, Sound(r, v, R)
    PROVE  /\ Sound(SetDead(r), v, R \cup {v}) /\ Sound(Aged(r), v, R)
           /\ \A p \in Players : Sound([r EXCEPT !.driver = p], v, R)
           /\ r.dead => Sound([r EXCEPT !.notified = TRUE], v, R)
           /\ Sound([r EXCEPT !.seen = 0], v, R)
<1>1. Sound(SetDead(r), v, R \cup {v})
  BY DEF Sound, SetDead, Vehicle
<1>2. Sound(Aged(r), v, R)
  BY AgeType DEF Sound, Aged, Vehicle
<1>3. \A p \in Players : Sound([r EXCEPT !.driver = p], v, R)
  BY DEF Sound, Vehicle
<1>4. r.dead => Sound([r EXCEPT !.notified = TRUE], v, R)
  BY DEF Sound, Vehicle
<1>5. Sound([r EXCEPT !.seen = 0], v, R)
  BY DEF Sound, Vehicle
<1>6. QED
  BY <1>1, <1>2, <1>3, <1>4, <1>5

\* What is reported of other vehicles does not matter.
LEMMA SoundOfOne ==
    ASSUME NEW r, NEW v, NEW R, NEW T, Sound(r, v, R), v \in R => v \in T
    PROVE  Sound(r, v, T)
  BY DEF Sound

LEMMA InitRecord == Init => RecordInv
  BY DEF Init, RecordInv

LEMMA NextRecord == TypeOK /\ RecordInv /\ [Next]_vars => RecordInv'
<1> SUFFICES ASSUME TypeOK, RecordInv, [Next]_vars
             PROVE  RecordInv'
  OBVIOUS
<1> USE DEF TypeOK, RecordInv
<1>1. ASSUME NEW m \in Models, CreateVehicle(m)
      PROVE  RecordInv'
  <2> DEFINE v == CHOOSE i \in Ids \ active : \A j \in Ids \ active : i =< j
  <2>1. v \in Ids /\ v \notin active
    BY <1>1, FirstFree DEF CreateVehicle
  <2>2. active' = active \cup {v} /\ vehicle' = [vehicle EXCEPT ![v] = Made(m)]
        /\ reported' = reported \ {v}
    BY <1>1 DEF CreateVehicle, Born
  <2> HIDE DEF v
  <2>3. Sound(vehicle'[v], v, reported')
    BY <2>1, <2>2, FreshSound
  <2>4. \A w \in active : Sound(vehicle'[w], w, reported')
    BY <2>1, <2>2, SoundOfOne
  <2>5. QED
    BY <2>2, <2>3, <2>4
<1>2. ASSUME NEW v \in Ids, DestroyVehicle(v)
      PROVE  RecordInv'
  BY <1>2 DEF DestroyVehicle, lifeVars
<1>3. CASE Restart
  BY <1>3 DEF Restart
<1>4. CASE UNCHANGED <<active, vehicle, reported>>
  BY <1>4
<1>5. ASSUME NEW p \in Players, NEW v \in Ids, NEW t \in Ids \cup {0},
             NEW w \in BOOLEAN, VehicleSync(p, v, t, w)
      PROVE  RecordInv'
  BY <1>5, UpdatedSound DEF VehicleSync, poolVars, lifeVars
<1>6. ASSUME NEW p \in Players, TrailerSync(p)
      PROVE  RecordInv'
  BY <1>6, UpdatedSound DEF TrailerSync, poolVars, lifeVars
<1>7. ASSUME NEW v \in Ids, VehicleDestroyed(v)
      PROVE  RecordInv'
  <2>1. vehicle' = [vehicle EXCEPT ![v] = SetDead(@)] /\ active' = active
        /\ reported' = reported \cup {v} /\ v \in active
    BY <1>7 DEF VehicleDestroyed, poolVars
  <2>2. Sound(vehicle'[v], v, reported')
    BY <2>1, OtherSound
  <2>3. \A w \in active : w # v => Sound(vehicle'[w], w, reported')
    BY <2>1, SoundOfOne
  <2>4. QED
    BY <2>1, <2>2, <2>3
<1>8. ASSUME NEW p \in Players, NEW v \in Ids, PutPlayerInVehicle(p, v)
      PROVE  RecordInv'
  BY <1>8, OtherSound DEF PutPlayerInVehicle, poolVars, lifeVars
<1>9. ASSUME NEW v \in Ids, Respawn(v)
      PROVE  RecordInv'
  <2>1. vehicle' = [vehicle EXCEPT ![v] = Respawned(@)] /\ active' = active
        /\ reported' = reported \ {v}
    BY <1>9 DEF Respawn, Born, poolVars
  <2>2. Sound(vehicle'[v], v, reported')
    BY <2>1, FreshSound
  <2>3. \A w \in active : w # v => Sound(vehicle'[w], w, reported')
    BY <2>1, SoundOfOne
  <2>4. QED
    BY <2>1, <2>2, <2>3
<1>10. ASSUME NEW v \in Ids, AnnounceDeath(v)
       PROVE  RecordInv'
  BY <1>10, OtherSound DEF AnnounceDeath, poolVars, lifeVars
<1>11. CASE DeathAnnounced
  BY <1>11, OtherSound DEF DeathAnnounced, Idle, poolVars, lifeVars
<1>12. CASE Tick
  BY <1>12, OtherSound DEF Tick, poolVars, lifeVars
<1>13. QED
  <2>1. \A p \in Players, t \in Ids \cup {0} :
           Join(p, t) => UNCHANGED <<active, vehicle, reported>>
    BY DEF Join, poolVars, lifeVars
  <2>2. \A p \in Players : Leave(p) \/ OnFoot(p) \/ LeaveSeat(p)
                              => UNCHANGED <<active, vehicle, reported>>
    BY DEF Leave, OnFoot, LeaveSeat, poolVars, lifeVars
  <2>3. \A p \in Players, v \in Ids :
           PassengerSync(p, v) => UNCHANGED <<active, vehicle, reported>>
    BY DEF PassengerSync, poolVars, lifeVars
  <2>4. OnVehicleDeath \/ UNCHANGED vars => UNCHANGED <<active, vehicle, reported>>
    BY DEF OnVehicleDeath, vars, poolVars, lifeVars
  <2>5. QED
    BY <1>1, <1>2, <1>3, <1>4, <1>5, <1>6, <1>7, <1>8, <1>9, <1>10, <1>11, <1>12, <2>1,
       <2>2, <2>3, <2>4 DEF Next, SetVehicleToRespawn, IdleRespawn, WreckRespawn
-----------------------------------------------------------------------------
(* What the scripts heard of one vehicle: n tells that its death is announced, h how  *)
(* often each heard of a death, E who heard of the spawn early and U who has yet to   *)
(* be told.                                                                           *)

Expected(n, inE, inU) ==
    IF n THEN (IF inE THEN 1 ELSE 0) + (IF inU THEN 0 ELSE 1)
         ELSE IF inE /\ ~inU THEN 1 ELSE 0

Counted(n, h, E, U) ==
    /\ \A s \in Scripts : h[s] = Expected(n, s \in E, s \in U)
    /\ ~n => U \subseteq E

HeardInv == \A v \in active : Counted(vehicle[v].notified, heard[v], early[v], Untold(v))

\* A new life: who has yet to be told of the death hears of the spawn early.
LEMMA BornCounted ==
    ASSUME NEW U \in SUBSET Scripts
    PROVE  Counted(FALSE, [s \in Scripts |-> 0], U, U)
  BY DEF Counted, Expected

\* The announcement starts when nobody has anything left to be told of.
LEMMA StartCounted ==
    ASSUME NEW h, NEW E \in SUBSET Scripts, Counted(FALSE, h, E, {})
    PROVE  Counted(TRUE, h, E, Scripts)
  BY DEF Counted, Expected

\* The next script is told.
LEMMA TellCounted ==
    ASSUME NEW h \in [Scripts -> 0 .. 3], NEW n \in BOOLEAN, NEW E \in SUBSET Scripts,
           NEW U \in SUBSET Scripts, Counted(n, h, E, U), NEW s \in U
    PROVE  Counted(n, [h EXCEPT ![s] = IF @ = 3 THEN 3 ELSE @ + 1], E, U \ {s})
<1> DEFINE g == [h EXCEPT ![s] = IF @ = 3 THEN 3 ELSE @ + 1]
<1>1. g[s] = Expected(n, s \in E, s \in U \ {s})
  <2>1. h[s] = Expected(n, s \in E, TRUE) /\ (~n => s \in E)
    BY DEF Counted
  <2>2. g[s] = IF h[s] = 3 THEN 3 ELSE h[s] + 1
    OBVIOUS
  <2> HIDE DEF g
  <2>3. g[s] = Expected(n, s \in E, FALSE)
    BY <2>1, <2>2 DEF Expected
  <2>4. QED
    BY <2>3 DEF Expected
<1>2. \A t \in Scripts : t # s => g[t] = Expected(n, t \in E, t \in U \ {s})
  <2>1. SUFFICES ASSUME NEW t \in Scripts, t # s
                 PROVE  g[t] = Expected(n, t \in E, t \in U \ {s})
    OBVIOUS
  <2>2. g[t] = h[t] /\ h[t] = Expected(n, t \in E, t \in U)
    BY <2>1 DEF Counted
  <2>3. t \in U \ {s} <=> t \in U
    BY <2>1
  <2> HIDE DEF g
  <2>4. QED
    BY <2>2, <2>3 DEF Expected
<1> HIDE DEF g
<1>3. Counted(n, g, E, U \ {s})
  BY <1>1, <1>2 DEF Counted
<1>4. QED
  BY <1>3 DEF g

\* Of vehicles whose death is not being announced nobody has yet to be told.
LEMMA UntoldType ==
    ASSUME NEW v
    PROVE  Untold(v) \in SUBSET Scripts /\ (dying # v => Untold(v) = {})
  BY DEF Untold

LEMMA InitHeard == Init => HeardInv
  BY DEF Init, HeardInv

\* Most actions change nothing the scripts heard and no announcement.
LEMMA SameHeard ==
    ASSUME TypeOK, HeardInv, active' \subseteq active, UNCHANGED <<heard, early, dying, told>>,
           \A v \in active' : vehicle'[v].notified = vehicle[v].notified
    PROVE  HeardInv'
<1>1. \A v : Untold(v)' = Untold(v)
  BY DEF Untold
<1>2. QED
  BY <1>1 DEF HeardInv

LEMMA NotifiedStays ==
    ASSUME NEW r \in Vehicle
    PROVE  /\ SetDead(r).notified = r.notified /\ Aged(r).notified = r.notified
           /\ \A p \in Players : [r EXCEPT !.driver = p].notified = r.notified
           /\ [r EXCEPT !.seen = 0].notified = r.notified
           /\ \A p \in Players, w \in BOOLEAN : Updated(r, p, w).notified = r.notified
  BY DEF SetDead, Aged, Updated, Vehicle

\* A vehicle that is made or respawned starts a life.
LEMMA BirthHeard ==
    ASSUME TypeOK, HeardInv, NEW v \in Ids, Born(v), UNCHANGED <<dying, told>>,
           active' = active \cup {v}, vehicle'[v].notified = FALSE,
           \A w \in active : w # v => vehicle'[w] = vehicle[w]
    PROVE  HeardInv'
<1>1. \A w : Untold(w)' = Untold(w)
  BY DEF Untold
<1>2. Counted(vehicle'[v].notified, heard'[v], early'[v], Untold(v)')
  <2>1. heard'[v] = [s \in Scripts |-> 0] /\ early'[v] = Untold(v)
    BY DEF Born, TypeOK
  <2>2. Counted(FALSE, [s \in Scripts |-> 0], Untold(v), Untold(v))
    BY BornCounted, UntoldType
  <2>3. QED
    BY <1>1, <2>1, <2>2
<1>3. \A w \in active : w # v => Counted(vehicle'[w].notified, heard'[w], early'[w], Untold(w)')
  BY <1>1 DEF HeardInv, Born, TypeOK
<1>4. QED
  BY <1>2, <1>3 DEF HeardInv

LEMMA CreateHeard ==
    ASSUME TypeOK, HeardInv, NEW m \in Models, CreateVehicle(m)
    PROVE  HeardInv'
<1> DEFINE v == CHOOSE i \in Ids \ active : \A j \in Ids \ active : i =< j
<1>1. v \in Ids /\ v \notin active
  BY FirstFree DEF CreateVehicle, TypeOK
<1>2. active' = active \cup {v} /\ vehicle' = [vehicle EXCEPT ![v] = Made(m)] /\ Born(v)
      /\ UNCHANGED <<dying, told>>
  BY DEF CreateVehicle, callVars
<1> HIDE DEF v
<1>3. vehicle'[v].notified = FALSE /\ \A w \in active : w # v => vehicle'[w] = vehicle[w]
  BY <1>1, <1>2 DEF Made, TypeOK
<1>4. QED
  BY <1>1, <1>2, <1>3, BirthHeard

LEMMA RespawnHeard ==
    ASSUME TypeOK, HeardInv, NEW v \in active, Respawn(v)
    PROVE  HeardInv'
<1>1. v \in Ids /\ active' = active \cup {v} /\ Born(v) /\ UNCHANGED <<dying, told>>
  BY DEF Respawn, poolVars, callVars, TypeOK
<1>2. vehicle' = [vehicle EXCEPT ![v] = Respawned(@)] /\ vehicle[v] \in Vehicle
  BY DEF Respawn, TypeOK
<1>3. vehicle'[v].notified = FALSE /\ \A w \in active : w # v => vehicle'[w] = vehicle[w]
  BY <1>1, <1>2 DEF Respawned, Vehicle, TypeOK
<1>4. QED
  BY <1>1, <1>3, BirthHeard

LEMMA AnnounceHeard ==
    ASSUME TypeOK, HeardInv, NEW v \in Ids, AnnounceDeath(v)
    PROVE  HeardInv'
<1>1. v \in active /\ active' = active /\ dying = 0 /\ dying' = v /\ told' = 0
      /\ vehicle' = [vehicle EXCEPT ![v] = [@ EXCEPT !.notified = TRUE]]
      /\ vehicle[v].notified = FALSE /\ UNCHANGED <<heard, early>>
  BY DEF AnnounceDeath, Idle, poolVars, lifeVars, TypeOK, Vehicle
<1>2. vehicle'[v].notified = TRUE /\ \A w \in active : w # v => vehicle'[w] = vehicle[w]
  BY <1>1 DEF TypeOK, Vehicle
<1>3. Untold(v)' = Scripts
  BY <1>1, VehiclesAssumption DEF Untold, Scripts
<1>4. \A w \in active : Untold(w) = {} /\ (w # v => Untold(w)' = {})
  BY <1>1 DEF Untold, TypeOK, Ids
<1>5. Counted(vehicle'[v].notified, heard'[v], early'[v], Untold(v)')
  <2>1. Counted(FALSE, heard[v], early[v], {})
    BY <1>1, <1>4 DEF HeardInv
  <2>2. early[v] \in SUBSET Scripts
    BY DEF TypeOK
  <2>3. Counted(TRUE, heard[v], early[v], Scripts)
    BY <2>1, <2>2, StartCounted
  <2>4. QED
    BY <1>1, <1>2, <1>3, <2>3
<1>6. \A w \in active : w # v => Counted(vehicle'[w].notified, heard'[w], early'[w], Untold(w)')
  BY <1>1, <1>2, <1>4 DEF HeardInv
<1>7. QED
  BY <1>1, <1>5, <1>6 DEF HeardInv

LEMMA TellHeard ==
    ASSUME TypeOK, HeardInv, OnVehicleDeath
    PROVE  HeardInv'
<1>1. PICK v \in active, s \in Scripts : v = dying /\ s = told + 1
  BY VehiclesAssumption DEF OnVehicleDeath, Idle, Scripts, TypeOK
<1>2. PICK h \in [Scripts -> 0 .. 3], n \in BOOLEAN, E \in SUBSET Scripts,
           U \in SUBSET Scripts :
           h = heard[v] /\ n = vehicle[v].notified /\ E = early[v] /\ U = Untold(v)
  BY <1>1, UntoldType DEF TypeOK, Vehicle
<1>3. s \in U /\ Untold(v)' = U \ {s}
  BY <1>1, <1>2 DEF OnVehicleDeath, Untold, Scripts, TypeOK
<1>4. heard' = [heard EXCEPT ![v] = [h EXCEPT ![s] = IF @ = 3 THEN 3 ELSE @ + 1]]
      /\ UNCHANGED <<active, vehicle, early, dying>>
  BY <1>1, <1>2 DEF OnVehicleDeath, poolVars
<1>5. Counted(n, [h EXCEPT ![s] = IF @ = 3 THEN 3 ELSE @ + 1], E, U \ {s})
  <2>1. Counted(n, h, E, U)
    BY <1>2 DEF HeardInv
  <2>2. QED
    BY <1>3, <2>1, TellCounted
<1>6. Counted(vehicle'[v].notified, heard'[v], early'[v], Untold(v)')
  <2>1. heard'[v] = [h EXCEPT ![s] = IF @ = 3 THEN 3 ELSE @ + 1]
    BY <1>4 DEF TypeOK
  <2>2. QED
    BY <1>2, <1>3, <1>4, <1>5, <2>1
<1>7. \A w \in active : w # v => Counted(vehicle'[w].notified, heard'[w], early'[w], Untold(w)')
  <2>1. \A w \in active : w # v => Untold(w) = {} /\ Untold(w)' = {}
    BY <1>1, <1>4 DEF Untold
  <2>2. QED
    BY <1>4, <2>1 DEF HeardInv, TypeOK
<1>8. QED
  BY <1>4, <1>6, <1>7 DEF HeardInv

LEMMA AnnouncedHeard ==
    ASSUME TypeOK, HeardInv, DeathAnnounced
    PROVE  HeardInv'
<1>1. \A w \in active : Untold(w) = {} /\ Untold(w)' = {}
  BY VehiclesAssumption DEF DeathAnnounced, Untold, Scripts, TypeOK, Ids
<1>2. UNCHANGED <<active, heard, early>>
      /\ vehicle' = [vehicle EXCEPT ![dying] = [@ EXCEPT !.seen = 0]]
  BY DEF DeathAnnounced, poolVars, lifeVars
<1>3. \A w \in active : vehicle'[w].notified = vehicle[w].notified
  BY <1>2, NotifiedStays DEF TypeOK
<1>4. QED
  BY <1>1, <1>2, <1>3 DEF HeardInv

LEMMA NextHeard == TypeOK /\ HeardInv /\ [Next]_vars => HeardInv'
<1> SUFFICES ASSUME TypeOK, HeardInv, [Next]_vars
             PROVE  HeardInv'
  OBVIOUS
<1>0. \A v \in active : v \in Ids /\ vehicle[v] \in Vehicle
  BY DEF TypeOK
<1> DEFINE Keeps == /\ active' \subseteq active /\ UNCHANGED <<heard, early, dying, told>>
                    /\ \A v \in active' : vehicle'[v].notified = vehicle[v].notified
<1>1. ASSUME NEW v \in Ids, DestroyVehicle(v)
      PROVE  Keeps
  BY <1>1 DEF DestroyVehicle, callVars, lifeVars
<1>2. CASE Restart
  <2>1. Keeps
    BY <1>2 DEF Restart, callVars, lifeVars
  <2>2. QED
    BY <2>1, SameHeard
<1>3. ASSUME NEW p \in Players, NEW t \in Ids \cup {0}, Join(p, t)
      PROVE  Keeps
  BY <1>3 DEF Join, poolVars, callVars, lifeVars
<1>4. ASSUME NEW p \in Players, Leave(p) \/ OnFoot(p) \/ LeaveSeat(p)
      PROVE  Keeps
  BY <1>4 DEF Leave, OnFoot, LeaveSeat, poolVars, callVars, lifeVars
<1>5. ASSUME NEW p \in Players, NEW v \in Ids, NEW t \in Ids \cup {0},
             NEW w \in BOOLEAN, VehicleSync(p, v, t, w)
      PROVE  Keeps
  BY <1>0, <1>5, NotifiedStays DEF VehicleSync, poolVars, callVars, lifeVars, TypeOK
<1>6. ASSUME NEW p \in Players, TrailerSync(p)
      PROVE  Keeps
  <2>1. PICK v \in active : v = towing[p]
    BY <1>6 DEF TrailerSync
  <2>2. vehicle' = [vehicle EXCEPT ![v] = Updated(@, p, FALSE)]
        /\ UNCHANGED <<active, heard, early, dying, told>>
    BY <1>6, <2>1 DEF TrailerSync, poolVars, callVars, lifeVars
  <2>3. Updated(vehicle[v], p, FALSE).notified = vehicle[v].notified
    BY <1>0, NotifiedStays
  <2>4. \A w \in active : vehicle'[w].notified = vehicle[w].notified
    BY <1>0, <2>2, <2>3 DEF TypeOK
  <2>5. QED
    BY <2>2, <2>4
<1>7. ASSUME NEW p \in Players, NEW v \in Ids, PassengerSync(p, v)
      PROVE  Keeps
  BY <1>7 DEF PassengerSync, poolVars, callVars, lifeVars
<1>8. ASSUME NEW v \in Ids, VehicleDestroyed(v)
      PROVE  Keeps
  BY <1>0, <1>8, NotifiedStays DEF VehicleDestroyed, poolVars, callVars, TypeOK
<1>9. ASSUME NEW p \in Players, NEW v \in Ids, PutPlayerInVehicle(p, v)
      PROVE  Keeps
  BY <1>0, <1>9, NotifiedStays DEF PutPlayerInVehicle, poolVars, callVars, lifeVars, TypeOK
<1>10. CASE Tick
  <2>1. Keeps
    BY <1>0, <1>10, NotifiedStays DEF Tick, poolVars, callVars, lifeVars
  <2>2. QED
    BY <2>1, SameHeard
<1>11. CASE UNCHANGED vars
  <2>1. Keeps
    BY <1>11 DEF vars, poolVars, callVars, lifeVars
  <2>2. QED
    BY <2>1, SameHeard
<1>12. QED
  <2>1. Keeps => HeardInv'
    BY SameHeard
  <2> HIDE DEF Keeps
  <2>2. QED
    BY <1>1, <1>2, <1>3, <1>4, <1>5, <1>6, <1>7, <1>8, <1>9, <1>10, <1>11, <2>1,
       CreateHeard, RespawnHeard, AnnounceHeard, TellHeard, AnnouncedHeard
       DEF Next, SetVehicleToRespawn, IdleRespawn, WreckRespawn

\* However many clients report a wreck, and however late, a script hears of one death
\* between two spawns, but for the one whose respawn it heard of first; all that have been
\* told of an announced wreck count it, and it stays one until it is respawned; and late
\* synchronisation packets neither wreck the respawned vehicle nor make it count as used.
THEOREM LivesDoNotMix == Spec => []LivesAreApart
<1>1. TypeOK /\ HeardInv => OneDeathPerLife
  BY DEF TypeOK, Vehicle, HeardInv, Counted, Expected, OneDeathPerLife
<1>2. TypeOK /\ RecordInv /\ HeardInv => NotifiedIsDead
  BY DEF TypeOK, Vehicle, RecordInv, Sound, HeardInv, Counted, Expected, NotifiedIsDead
<1>3. RecordInv => FreshAfterRespawn
  BY DEF RecordInv, Sound, FreshAfterRespawn
<1>4. TypeOK /\ RecordInv /\ HeardInv => LivesAreApart
  BY <1>1, <1>2, <1>3 DEF LivesAreApart
<1>5. QED
  BY InitType, InitRecord, InitHeard, NextType, NextRecord, NextHeard, <1>4, PTL DEF Spec
-----------------------------------------------------------------------------
(* The counts beside the slots. *)

OfModel(m) == {v \in active : vehicle[v].model = m}

CountInv ==
    /\ \A m \in Models : used[m] = Cardinality(OfModel(m))
    /\ last = LastOf(active)

LEMMA OfModelFinite == TypeOK => \A m \in Models : IsFiniteSet(OfModel(m))
  BY IdsFinite, FS_Subset DEF TypeOK, OfModel

\* No action changes the model of a vehicle.
LEMMA ModelStays ==
    ASSUME NEW r \in Vehicle
    PROVE  /\ Respawned(r).model = r.model /\ [r EXCEPT !.notified = TRUE].model = r.model
           /\ [r EXCEPT !.seen = 0].model = r.model
           /\ SetDead(r).model = r.model /\ Aged(r).model = r.model
           /\ \A p \in Players : [r EXCEPT !.driver = p].model = r.model
           /\ \A p \in Players, w \in BOOLEAN : Updated(r, p, w).model = r.model
  BY DEF Respawned, SetDead, Aged, Updated, Vehicle

LEMMA InitCount == Init => CountInv
<1>1. Init => \A m \in Models : OfModel(m) = {}
  BY DEF Init, OfModel
<1>2. QED
  BY <1>1, FS_EmptySet DEF Init, CountInv, LastOf

\* New adds the vehicle to the count of its model ...
LEMMA CreateCount ==
    ASSUME TypeOK, CountInv, NEW m \in Models, CreateVehicle(m)
    PROVE  CountInv'
<1> DEFINE v == CHOOSE i \in Ids \ active : \A j \in Ids \ active : i =< j
<1>1. v \in Ids /\ v \notin active
  BY FirstFree DEF CreateVehicle, TypeOK
<1>2. active' = active \cup {v} /\ vehicle' = [vehicle EXCEPT ![v] = Made(m)]
      /\ used' = [used EXCEPT ![m] = @ + 1] /\ last' = LastOf(active')
  BY DEF CreateVehicle
<1> HIDE DEF v
<1>3. vehicle'[v].model = m /\ \A w \in active : vehicle'[w] = vehicle[w]
  BY <1>1, <1>2 DEF Made, TypeOK
<1>4. OfModel(m)' = OfModel(m) \cup {v} /\ v \notin OfModel(m)
  BY <1>1, <1>2, <1>3 DEF OfModel
<1>5. Cardinality(OfModel(m)') = Cardinality(OfModel(m)) + 1
  BY <1>4, OfModelFinite, FS_AddElement
<1>6. \A n \in Models : n # m => OfModel(n)' = OfModel(n)
  BY <1>1, <1>2, <1>3 DEF OfModel
<1>7. \A n \in Models : used'[n] = Cardinality(OfModel(n)')
  BY <1>2, <1>5, <1>6 DEF CountInv, TypeOK
<1>8. QED
  BY <1>2, <1>7 DEF CountInv, OfModel

\* ... and Delete takes it away.
LEMMA DestroyCount ==
    ASSUME TypeOK, CountInv, NEW v \in Ids, DestroyVehicle(v)
    PROVE  CountInv'
<1>2. PICK m \in Models : m = vehicle[v].model
  BY DEF TypeOK, Vehicle
<1>1. v \in active /\ active' = active \ {v} /\ vehicle' = vehicle
      /\ used' = [used EXCEPT ![m] = @ - 1] /\ last' = LastOf(active')
  BY <1>2 DEF DestroyVehicle
<1>3. OfModel(m)' = OfModel(m) \ {v} /\ v \in OfModel(m)
  BY <1>1, <1>2 DEF OfModel, TypeOK
<1>4. \A n \in Models : n # m => OfModel(n)' = OfModel(n)
  BY <1>1, <1>2 DEF OfModel
<1>5. Cardinality(OfModel(m)') = Cardinality(OfModel(m)) - 1
  BY <1>2, <1>3, OfModelFinite, FS_RemoveElement
<1>6. \A n \in Models : used'[n] = Cardinality(OfModel(n)')
  <2>1. used'[m] = used[m] - 1 /\ used[m] = Cardinality(OfModel(m))
    BY <1>1, <1>2 DEF CountInv, TypeOK
  <2>2. \A n \in Models : n # m => used'[n] = used[n] /\ used[n] = Cardinality(OfModel(n))
    BY <1>1 DEF CountInv, TypeOK
  <2>3. QED
    BY <1>4, <1>5, <2>1, <2>2
<1>7. QED
  BY <1>1, <1>6 DEF CountInv, OfModel

LEMMA SameCount ==
    ASSUME CountInv, UNCHANGED poolVars,
           \A v \in active : vehicle'[v].model = vehicle[v].model
    PROVE  CountInv'
<1>1. \A m \in Models : OfModel(m)' = OfModel(m)
  BY DEF OfModel, poolVars
<1>2. QED
  BY <1>1 DEF CountInv, poolVars

LEMMA NextCount == TypeOK /\ CountInv /\ [Next]_vars => CountInv'
<1> SUFFICES ASSUME TypeOK, CountInv, [Next]_vars
             PROVE  CountInv'
  OBVIOUS
<1>1. \A v \in Ids : vehicle[v] \in Vehicle
  BY DEF TypeOK
<1>2. \A v \in active : v \in Ids
  BY DEF TypeOK
<1>3. CASE Restart
  <2>1. \A m \in Models : OfModel(m)' = {} /\ used'[m] = 0
    BY <1>3 DEF Restart, OfModel
  <2>2. last' = LastOf(active')
    BY <1>3 DEF Restart, LastOf
  <2>3. QED
    BY <2>1, <2>2, FS_EmptySet DEF CountInv
<1> DEFINE Keeps == /\ UNCHANGED poolVars
                    /\ \A v \in active : vehicle'[v].model = vehicle[v].model
<1>4. ASSUME NEW p \in Players, NEW t \in Ids \cup {0}, Join(p, t)
      PROVE  Keeps
  BY <1>4 DEF Join
<1>5. ASSUME NEW p \in Players, Leave(p) \/ OnFoot(p) \/ LeaveSeat(p)
      PROVE  Keeps
  BY <1>5 DEF Leave, OnFoot, LeaveSeat
<1>6. ASSUME NEW p \in Players, NEW v \in Ids, NEW t \in Ids \cup {0},
             NEW w \in BOOLEAN, VehicleSync(p, v, t, w)
      PROVE  Keeps
  BY <1>1, <1>2, <1>6, ModelStays DEF VehicleSync, TypeOK
<1>7. ASSUME NEW p \in Players, TrailerSync(p)
      PROVE  Keeps
  <2>1. towing[p] \in Ids
    BY <1>2, <1>7 DEF TrailerSync
  <2>2. Updated(vehicle[towing[p]], p, FALSE).model = vehicle[towing[p]].model
    BY <1>1, <2>1, ModelStays
  <2>3. \A v \in active : vehicle'[v].model = vehicle[v].model
    <3>1. vehicle' = [vehicle EXCEPT ![towing[p]] = Updated(@, p, FALSE)]
      BY <1>7 DEF TrailerSync
    <3>2. QED
      BY <1>2, <2>1, <2>2, <3>1 DEF TypeOK
  <2>4. QED
    BY <1>7, <2>3 DEF TrailerSync
<1>8. ASSUME NEW p \in Players, NEW v \in Ids, PassengerSync(p, v)
      PROVE  Keeps
  BY <1>8 DEF PassengerSync
<1>9. ASSUME NEW v \in Ids, VehicleDestroyed(v)
      PROVE  Keeps
  BY <1>1, <1>2, <1>9, ModelStays DEF VehicleDestroyed, TypeOK
<1>10. ASSUME NEW p \in Players, NEW v \in Ids, PutPlayerInVehicle(p, v)
       PROVE  Keeps
  BY <1>1, <1>2, <1>10, ModelStays DEF PutPlayerInVehicle, TypeOK
<1>11. ASSUME NEW v \in Ids, Respawn(v)
       PROVE  Keeps
  BY <1>1, <1>2, <1>11, ModelStays DEF Respawn, TypeOK
<1>12. ASSUME NEW v \in Ids, AnnounceDeath(v)
       PROVE  Keeps
  BY <1>1, <1>2, <1>12, ModelStays DEF AnnounceDeath, TypeOK
<1>13. CASE Tick
  <2>1. Keeps
    BY <1>1, <1>2, <1>13, ModelStays DEF Tick
  <2>2. QED
    BY <2>1, SameCount
<1>14. CASE UNCHANGED vars
  BY <1>14, SameCount DEF vars
<1>15. CASE OnVehicleDeath
  BY <1>15, SameCount DEF OnVehicleDeath
<1>16. CASE DeathAnnounced
  <2>1. Keeps
    BY <1>1, <1>2, <1>16, ModelStays DEF DeathAnnounced, TypeOK
  <2>2. QED
    BY <2>1, SameCount
<1>17. QED
  <2>1. Keeps => CountInv'
    BY SameCount
  <2> HIDE DEF Keeps
  <2>2. QED
    BY <1>3, <1>4, <1>5, <1>6, <1>7, <1>8, <1>9, <1>10, <1>11, <1>12, <1>13, <1>14,
       <1>15, <1>16, <2>1, CreateCount, DestroyCount DEF Next, SetVehicleToRespawn, IdleRespawn, WreckRespawn

\* The counts that scripts read agree with the pool.
THEOREM CountsAreRight == Spec => []PoolCountsMatch
<1>1. CountInv => PoolCountsMatch
  BY DEF CountInv, PoolCountsMatch, OfModel, LastOf
<1>2. QED
  BY InitType, InitCount, NextType, NextCount, <1>1, PTL DEF Spec
=============================================================================
