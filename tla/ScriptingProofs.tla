--------------------------- MODULE ScriptingProofs ---------------------------
(***************************************************************************)
(* Proofs about what scripts make and the server keeps for them: objects   *)
(* (ObjectPool), menus (Menus), timers (ScriptTimers), and the scripts     *)
(* themselves (GameModeRotation, which extends FilterScripts).  The four   *)
(* share no variable: each has its own invariant and its own theorems.     *)
(***************************************************************************)
EXTENDS ObjectPool, Menus, ScriptTimers, GameModeRotation, SlotLemmas, TLAPS

\* The least element that the code's scans for the first free slot, or for the
\* next timer, come to.
LEMMA FirstInRange ==
    ASSUME NEW b \in Int, NEW S, S \subseteq 0 .. b, S # {}
    PROVE  \E p \in S : \A q \in S : p =< q
<1>1. S \in SUBSET Int
  OBVIOUS
<1>2. IsFiniteSet(S)
  BY 0 \in Int, FS_Interval, FS_Subset
<1>3. QED
  BY <1>1, <1>2, FiniteMinimum

-----------------------------------------------------------------------------
(* Objects. *)

\* The inductive invariant of the slots.  FlagMeansHeld is what makes them
\* disjoint: New(iPlayer, ...) never looks at the flag of the slot it takes and
\* New(...) never at the players' rows.
SlotInv ==
    ObjectsTypeOK /\ FlagMeansHeld /\ NeverBothKinds /\ NoOrphans

\* With the clients' views: a player inside New's callbacks was told exactly
\* of its own objects and of some of the global ones.
ViewInv ==
    /\ ClientsMirrorBelowBound
    /\ joining # NoPlayer =>
         /\ joining \in connected
         /\ playerObjects[joining] \subseteq known[joining]
         /\ known[joining] \subseteq objects \cup playerObjects[joining]
    /\ \A p \in Players : p \notin connected => known[p] = {}

LEMMA InitSlotInv ==
    ObjectsInit => SlotInv
BY DEF ObjectsInit, SlotInv, ObjectsTypeOK, FlagMeansHeld,
       NeverBothKinds, NoOrphans

LEMMA NextSlotInv ==
    SlotInv /\ [ObjectsNext]_objectVars => SlotInv'
<1> SUFFICES ASSUME SlotInv, [ObjectsNext]_objectVars
             PROVE  SlotInv'
  OBVIOUS
<1> USE DEF SlotInv, ObjectsTypeOK, FlagMeansHeld, NeverBothKinds, NoOrphans,
            ObjectIds
<1>1. ASSUME CreateObject
      PROVE  SlotInv'
  BY <1>1 DEF CreateObject, FirstOf, FreeForAll
<1>2. ASSUME NEW j \in ObjectIds, DestroyObject(j)
      PROVE  SlotInv'
  BY <1>2 DEF DestroyObject, GetSlotState
<1>3. ASSUME NEW p \in Players, NEW j \in ObjectIds, CreatePlayerObject(p, j)
      PROVE  SlotInv'
  BY <1>3 DEF CreatePlayerObject, FirstOf, FreeForPlayer
<1>4. ASSUME NEW p \in Players, NEW j \in ObjectIds, DestroyPlayerObject(p, j)
      PROVE  SlotInv'
  BY <1>4 DEF DestroyPlayerObject, FlagsWithout
<1>5. ASSUME NEW p \in Players, Connect(p)
      PROVE  SlotInv'
  BY <1>5 DEF Connect
<1>6. ASSUME InitForPlayer
      PROVE  SlotInv'
  BY <1>6, ObjectPoolAssumption DEF InitForPlayer
<1>7. ASSUME NEW p \in Players, ObjectsDisconnect(p)
      PROVE  SlotInv'
  <2>1. playerObjects'[p] = {}
    BY <1>7 DEF ObjectsDisconnect
  <2>2. QED
    BY <1>7, <2>1 DEF ObjectsDisconnect, FlagsWithout
<1>8. ASSUME ObjectsRestart
      PROVE  SlotInv'
  BY <1>8 DEF ObjectsRestart
<1>9. ASSUME UNCHANGED objectVars
      PROVE  SlotInv'
  BY <1>9 DEF objectVars
<1>10. QED
  BY <1>1, <1>2, <1>3, <1>4, <1>5, <1>6, <1>7, <1>8, <1>9 DEF ObjectsNext

\* The pool never loses track of who holds a slot: the flag m_bPlayersObject
\* agrees with the players' rows, no id names a global and a personal object
\* at once, and nobody's objects outlive the connection.
THEOREM SlotsAreDisjoint ==
    ObjectsSpec => [](ObjectsTypeOK /\ FlagMeansHeld /\ SlotsHaveOneOwner)
<1>1. SlotInv => ObjectsTypeOK /\ FlagMeansHeld /\ SlotsHaveOneOwner
  BY DEF SlotInv, SlotsHaveOneOwner
<1>2. QED
  BY InitSlotInv, NextSlotInv, <1>1, PTL DEF ObjectsSpec

\* The slots keep their types: the scans of New stay inside the arrays.
THEOREM ObjectsTypeCorrect ==
    ObjectsSpec => []ObjectsTypeOK
<1>1. ObjectsSpec => [](ObjectsTypeOK /\ FlagMeansHeld /\ SlotsHaveOneOwner)
  BY SlotsAreDisjoint
<1>2. QED
  BY <1>1, PTL

-----------------------------------------------------------------------------
LEMMA InitViewInv ==
    ObjectsInit => ViewInv
BY ObjectPoolAssumption DEF ObjectsInit, ViewInv, ClientsMirrorBelowBound

LEMMA NextViewInv ==
    SlotInv /\ ViewInv /\ [ObjectsNext]_objectVars => ViewInv'
<1> SUFFICES ASSUME SlotInv, ViewInv, [ObjectsNext]_objectVars
             PROVE  ViewInv'
  OBVIOUS
<1> USE DEF ViewInv, ClientsMirrorBelowBound, SlotInv, ObjectsTypeOK,
            NeverBothKinds, NoOrphans, ObjectIds
<1>1. ASSUME CreateObject
      PROVE  ViewInv'
  BY <1>1 DEF CreateObject, FirstOf, FreeForAll
<1>2. ASSUME NEW j \in ObjectIds, DestroyObject(j)
      PROVE  ViewInv'
  BY <1>2 DEF DestroyObject, GetSlotState
<1>3. ASSUME NEW p \in Players, NEW j \in ObjectIds, CreatePlayerObject(p, j)
      PROVE  ViewInv'
  BY <1>3 DEF CreatePlayerObject, FirstOf, FreeForPlayer
<1>4. ASSUME NEW p \in Players, NEW j \in ObjectIds, DestroyPlayerObject(p, j)
      PROVE  ViewInv'
  BY <1>4 DEF DestroyPlayerObject
<1>5. ASSUME NEW p \in Players, Connect(p)
      PROVE  ViewInv'
  BY <1>5, ObjectPoolAssumption DEF Connect
<1>6. ASSUME InitForPlayer
      PROVE  ViewInv'
  BY <1>6, ObjectPoolAssumption DEF InitForPlayer, GetSlotState
<1>7. ASSUME NEW p \in Players, ObjectsDisconnect(p)
      PROVE  ViewInv'
  BY <1>7 DEF ObjectsDisconnect
<1>8. ASSUME ObjectsRestart
      PROVE  ViewInv'
  BY <1>8 DEF ObjectsRestart
<1>9. ASSUME UNCHANGED objectVars
      PROVE  ViewInv'
  BY <1>9 DEF objectVars
<1>10. QED
  BY <1>1, <1>2, <1>3, <1>4, <1>5, <1>6, <1>7, <1>8, <1>9 DEF ObjectsNext

\* Every client that has finished joining shows exactly the objects the pool
\* holds for it, for the ids GetSlotState admits: creations and destructions
\* sent during the join are neither lost nor doubled by InitForPlayer.
THEOREM ClientsMirrorThePool ==
    ObjectsSpec => []ClientsMirrorBelowBound
<1>1. SlotInv /\ ViewInv => ClientsMirrorBelowBound
  BY DEF ViewInv
<1>2. QED
  BY InitSlotInv, NextSlotInv, InitViewInv, NextViewInv, <1>1, PTL DEF ObjectsSpec

-----------------------------------------------------------------------------
(* Menus. *)

\* A player who has a menu has not answered it, but for the answer that scripts
\* are being told of: what the handlers of answers rely on when they look at
\* m_bytePlayerMenu.
AnswerInv ==
    \A p \in Players : /\ playerMenu[p] # None /\ telling # {p} => answers[p] = 0
                       /\ answers[p] =< 1

MenuInv == MenusTypeOK /\ TextIsCurrent /\ AnswerInv

LEMMA InitMenuInv ==
    MenusInit => MenuInv
BY MenusAssumption DEF MenusInit, MenuInv, MenusTypeOK, TextIsCurrent,
       AnswerInv, Menus, None, Nobody, Somebody

\* CMenuPool::New finds a menu.
LEMMA FirstFreeMenu ==
    ASSUME active \subseteq Menus, active # Menus
    PROVE  (CHOOSE i \in Menus \ active :
               \A j \in Menus \ active : i =< j) \in Menus
<1>1. PICK free \in SUBSET Menus : free = Menus \ active
  OBVIOUS
<1>2. PICK b \in Int : b = MaxMenus - 1
  BY MenusAssumption
<1>3. free # {}
  BY <1>1
<1>4. free \subseteq 0 .. b
  BY <1>2 DEF Menus
<1>5. \E i \in free : \A j \in free : i =< j
  BY <1>2, <1>3, <1>4, FirstInRange
<1>6. QED
  BY <1>1, <1>5

LEMMA NextMenuInv ==
    MenuInv /\ [MenusNext]_menuVars => MenuInv'
<1> SUFFICES ASSUME MenuInv, [MenusNext]_menuVars
             PROVE  MenuInv'
  OBVIOUS
<1> USE MenusAssumption DEF MenuInv, MenusTypeOK, TextIsCurrent, AnswerInv,
            poolVars, clientVars, None, Nobody, Somebody, Idle
<1>1. ASSUME CreateMenu
      PROVE  MenuInv'
  <2>1. PICK m \in Menus :
          /\ active' = active \cup {m}
          /\ texts' = texts + 1
          /\ text' = [text EXCEPT ![m] = texts']
          /\ inited' = [inited EXCEPT ![m] = {}]
    BY <1>1, FirstFreeMenu DEF CreateMenu
  <2>2. QED
    BY <1>1, <2>1 DEF CreateMenu
<1>2. ASSUME NEW m \in Menus, DestroyMenu(m)
      PROVE  MenuInv'
  BY <1>2 DEF DestroyMenu
<1>3. ASSUME NEW m \in Menus, ChangeMenu(m)
      PROVE  MenuInv'
  BY <1>3 DEF ChangeMenu
<1>4. ASSUME NEW m \in Menus, NEW p \in Players, ShowMenuForPlayer(m, p)
      PROVE  MenuInv'
  <2>1. MenusTypeOK'
    <3>1. text[m] \in 0 .. texts
      OBVIOUS
    <3>2. has' \in [Players -> [Menus -> 0 .. texts]]
      BY <1>4, <3>1 DEF ShowMenuForPlayer
    <3>3. inited' \in [Menus -> SUBSET Players]
      BY <1>4 DEF ShowMenuForPlayer
    <3>4. playerMenu' \in [Players -> Menus \cup {None}]
          /\ shown' \in [Players -> Menus \cup {None}]
          /\ answers' \in [Players -> 0 .. 2]
      BY <1>4 DEF ShowMenuForPlayer
    <3>5. active' = active /\ text' = text /\ texts' = texts /\ online' = online
          /\ sent' = sent /\ connecting' = connecting /\ telling' = telling
      BY <1>4 DEF ShowMenuForPlayer
    <3>6. QED
      BY <3>2, <3>3, <3>4, <3>5
  <2>2. TextIsCurrent'
    <3>1. \A i \in Menus, q \in Players : <<i, q>> # <<m, p>> =>
             has'[q][i] = has[q][i] /\ (q \in inited'[i] <=> q \in inited[i])
      BY <1>4 DEF ShowMenuForPlayer
    <3>2. p \in online \ connecting => has'[p][m] = text[m]
      BY <1>4 DEF ShowMenuForPlayer
    <3>3. active' = active /\ text' = text /\ online' = online /\ connecting' = connecting
      BY <1>4 DEF ShowMenuForPlayer
    <3>4. QED
      BY <3>1, <3>2, <3>3
  <2>3. AnswerInv'
    BY <1>4 DEF ShowMenuForPlayer
  <2>4. QED
    BY <2>1, <2>2, <2>3
<1>5. ASSUME NEW m \in Menus, NEW p \in Players, HideMenuForPlayer(m, p)
      PROVE  MenuInv'
  <2>1. MenusTypeOK'
    BY <1>5 DEF HideMenuForPlayer
  <2>2. TextIsCurrent'
    BY <1>5 DEF HideMenuForPlayer
  <2>3. AnswerInv'
    BY <1>5 DEF HideMenuForPlayer
  <2>4. QED
    BY <2>1, <2>2, <2>3
<1>6. ASSUME NEW p \in Players, ClientJoin(p)
      PROVE  MenuInv'
  BY <1>6 DEF ClientJoin
<1>7. ASSUME NEW p \in Players, MenusDisconnect(p)
      PROVE  MenuInv'
  BY <1>7 DEF MenusDisconnect
<1>8. ASSUME NEW p \in Players, Answer(p)
      PROVE  MenuInv'
  BY <1>8 DEF Answer
<1>9. ASSUME NEW p \in Players, MenuAnswered(p)
      PROVE  MenuInv'
  BY <1>9 DEF MenuAnswered, Told
<1>10. ASSUME NEW p \in Players, AnswerTold(p)
       PROVE  MenuInv'
  BY <1>10 DEF AnswerTold, MenuForgotten
<1>11. ASSUME NEW p \in Players, MenuIgnored(p)
       PROVE  MenuInv'
  BY <1>11 DEF MenuIgnored, MenuForgotten
<1>12. ASSUME MenusRestart
       PROVE  MenuInv'
  BY <1>12 DEF MenusRestart
<1>13. ASSUME UNCHANGED menuVars
       PROVE  MenuInv'
  BY <1>13 DEF menuVars
<1>14. ASSUME NEW p \in Players, ProcessClientJoin(p)
       PROVE  MenuInv'
  BY <1>14 DEF ProcessClientJoin, ResetPlayer
<1>15. QED
  BY <1>1, <1>2, <1>3, <1>4, <1>5, <1>6, <1>7, <1>8, <1>9, <1>10, <1>11, <1>12, <1>13, <1>14
     DEF MenusNext

\* Menus, their texts and the answers keep their types through any showing,
\* answering, leaving and restarting.
THEOREM MenusTypeCorrect ==
    MenusSpec => []MenusTypeOK
<1>1. MenuInv => MenusTypeOK
  BY DEF MenuInv
<1>2. QED
  BY InitMenuInv, NextMenuInv, <1>1, PTL DEF MenusSpec

\* A client that CMenu believes to have a menu was sent the text the menu has
\* now, through every change, deletion and re-use of the id, every menu shown to an
\* empty slot and every change of the player in the slot.
THEOREM NoOutdatedMenu ==
    MenusSpec => []TextIsCurrent
<1>1. MenuInv => TextIsCurrent
  BY DEF MenuInv
<1>2. QED
  BY InitMenuInv, NextMenuInv, <1>1, PTL DEF MenusSpec

\* Scripts are told of one answer at most for each time they showed or hid a
\* menu, whatever crosses on the way and whatever they do while they are told.
THEOREM MenusAreAnsweredOnce ==
    MenusSpec => []OneAnswerPerMenu
<1>1. MenuInv => OneAnswerPerMenu
  BY DEF MenuInv, AnswerInv, OneAnswerPerMenu
<1>2. QED
  BY InitMenuInv, NextMenuInv, <1>1, PTL DEF MenusSpec

-----------------------------------------------------------------------------
(* Timers. *)

\* The iterators of Process stand where it left them: a scan is at a timer that is
\* in the map, and the timer after the one whose function runs has a later key.
ScanInv ==
    /\ phase = "scan" => itor \in live
    /\ phase = "callback" => itor \in TimerIds /\ tmp > itor

\* Ids are handed out in order, those that were not have no past, killed timers stay
\* killed and every timer's program is there.
BookInv ==
    /\ dead \subseteq 1 .. timerCount
    /\ \A i \in TimerIds : i > timerCount => fires[i] = 0
    /\ \A i \in dead \cap live : timer[i].killed
    /\ NoOrphanTimer

TimerInv == TimersTypeOK /\ ScanInv /\ BookInv

\* The iterator that ++ moves to.
LEMMA AfterIsNext ==
    ASSUME live \subseteq TimerIds, NEW i \in Int
    PROVE  LET n == After(i) IN
           /\ n \in live \cup {End}
           /\ n # End => n > i
           /\ (\E j \in live : j > i) => n \in live
<1>1. PICK later \in SUBSET TimerIds : later = {j \in live : j > i}
  OBVIOUS
<1>2. CASE later = {}
  <2>1. ~ \E j \in live : j > i
    BY <1>1, <1>2
  <2>2. QED
    BY <2>1 DEF After
<1>3. CASE later # {}
  <2>1. PICK b \in Int : b = MaxTimers
    BY ScriptTimersAssumption
  <2>2. later \subseteq 0 .. b
    BY <2>1 DEF TimerIds
  <2>3. PICK n \in later : \A q \in later : n =< q
    BY <1>3, <2>1, <2>2, FirstInRange
  <2>4. n \in live /\ n > i /\ \A k \in live : k > i => n =< k
    BY <1>1, <2>3
  <2>5. After(i) \in live /\ After(i) > i
    BY <2>4 DEF After
  <2>6. End \notin live
    BY ScriptTimersAssumption DEF TimerIds, End
  <2>7. QED
    BY <2>5, <2>6
<1>4. QED
  BY <1>2, <1>3

LEMMA InitTimerInv ==
    TimersInit => TimerInv
<1>1. NoTimer \in Timer
  BY ScriptTimersAssumption DEF NoTimer, Timer
<1>2. QED
  BY <1>1, ScriptTimersAssumption DEF TimersInit, TimerInv, TimersTypeOK, ScanInv,
              BookInv, NoOrphanTimer, TimerIds, End

LEMMA KilledTimer ==
    ASSUME NEW u \in Timer
    PROVE  [u EXCEPT !.remaining = 0, !.killed = TRUE, !.repeating = FALSE] \in Timer
<1>1. PICK a \in Timer : a = [u EXCEPT !.remaining = 0]
  <2>1. \A z \in Int : [u EXCEPT !.remaining = z] \in Timer
    BY DEF Timer
  <2>2. 0 \in Int
    OBVIOUS
  <2>3. QED
    BY <2>1, <2>2, Zenon
<1>2. PICK b \in Timer : b = [a EXCEPT !.killed = TRUE]
  BY DEF Timer
<1>3. [b EXCEPT !.repeating = FALSE] \in Timer
  BY DEF Timer
<1>4. QED
  BY <1>1, <1>2, <1>3

\* A step that scripts make between or inside the passes of Process.
LEMMA ScriptsKeepTimerInv ==
    ASSUME TimerInv,
           \/ \E s \in Scripts, n \in Intervals, r \in BOOLEAN : SetTimer(s, n, r)
           \/ \E i \in TimerIds : Kill(i)
           \/ \E s \in Scripts : Unload(s)
           \/ \E s \in Scripts : Load(s)
    PROVE  TimerInv'
<1> USE ScriptTimersAssumption
    DEF TimerInv, TimersTypeOK, ScanInv, BookInv, NoOrphanTimer, TimerIds, scanVars, ScriptsRun
<1>1. ASSUME NEW s \in Scripts, NEW n \in Intervals, NEW r \in BOOLEAN, SetTimer(s, n, r)
      PROVE  TimerInv'
  <2>1. PICK i \in TimerIds : i = timerCount + 1
    BY <1>1 DEF SetTimer
  <2> DEFINE t == [owner |-> s, total |-> n, remaining |-> n, repeating |-> r, killed |-> FALSE]
  <2>2. t \in Timer
    BY DEF Timer
  <2>3. /\ timerCount' = i /\ live' = live \cup {i} /\ timer' = [timer EXCEPT ![i] = t]
        /\ UNCHANGED <<loaded, scanVars, fires, dead>>
    BY <1>1, <2>1 DEF SetTimer
  <2>4. TimersTypeOK'
    BY <2>1, <2>2, <2>3
  <2>5. BookInv'
    <3>1. i \notin dead
      BY <2>1
    <3>2. \A j \in live' : timer'[j].owner \in loaded'
      BY <1>1, <2>1, <2>3 DEF SetTimer
    <3>3. QED
      BY <2>1, <2>3, <3>1, <3>2
  <2>6. QED
    BY <2>3, <2>4, <2>5
<1>2. ASSUME NEW i \in TimerIds, Kill(i)
      PROVE  TimerInv'
  <2>1. /\ i \in live /\ dead' = dead \cup {i}
        /\ timer' = [timer EXCEPT ![i].remaining = 0, ![i].killed = TRUE,
                                  ![i].repeating = FALSE]
        /\ UNCHANGED <<live, timerCount, loaded, scanVars, fires>>
    BY <1>2 DEF Kill
  <2>2. timer' \in [TimerIds -> Timer]
    <3> DEFINE t == [timer[i] EXCEPT !.remaining = 0, !.killed = TRUE, !.repeating = FALSE]
    <3>1. t \in Timer
      <4>1. timer[i] \in Timer
        OBVIOUS
      <4>2. QED
        BY <4>1, KilledTimer
    <3>2. timer' = [timer EXCEPT ![i] = t]
      BY <2>1
    <3> HIDE DEF t
    <3>3. QED
      BY <3>1, <3>2
  <2>3. timer'[i].killed
        /\ \A j \in TimerIds : /\ timer'[j].owner = timer[j].owner
                               /\ j # i => timer'[j] = timer[j]
    BY <2>1 DEF Timer
  <2>4. TimersTypeOK' /\ ScanInv'
    BY <2>1, <2>2
  <2>5. BookInv'
    BY <2>1, <2>3
  <2>6. QED
    BY <2>4, <2>5
<1>3. ASSUME NEW s \in Scripts, Unload(s)
      PROVE  TimerInv'
  <2>1. /\ loaded' = loaded \ {s}
        /\ live' = live \ OwnedBy(s) /\ dead' = dead \cup OwnedBy(s)
        /\ phase # "scan"
        /\ UNCHANGED <<timer, timerCount, scanVars, fires>>
    BY <1>3 DEF Unload, OwnedBy
  <2>2. OwnedBy(s) \subseteq live /\ \A i \in live \ OwnedBy(s) : timer[i].owner # s
    BY DEF OwnedBy
  <2>3. dead' \subseteq 1 .. timerCount
    <3>1. dead \subseteq 1 .. timerCount /\ live \subseteq 1 .. timerCount
      OBVIOUS
    <3>2. QED
      BY <2>1, <2>2, <3>1
  <2>4. TimersTypeOK' /\ ScanInv'
    <3>1. 1 .. timerCount \subseteq TimerIds
      OBVIOUS
    <3>2. live' \subseteq 1 .. timerCount
      BY <2>1
    <3>3. QED
      BY <2>1, <2>3, <3>1, <3>2
  <2>5. BookInv'
    BY <2>1, <2>2, <2>3
  <2>6. QED
    BY <2>4, <2>5
<1>4. ASSUME NEW s \in Scripts, Load(s)
      PROVE  TimerInv'
  BY <1>4 DEF Load
<1>5. QED
  BY <1>1, <1>2, <1>3, <1>4

\* Process goes on where it says, which is not at a timer it deletes.
LEMMA GoingOn ==
    ASSUME NEW n, n \in live' \cup {End},
           live' \subseteq TimerIds, ContinueAt(n), elapsed \in Nat
    PROVE  /\ ScanInv' /\ phase' \in {"idle", "scan"}
           /\ itor' \in TimerIds \cup {End} /\ tmp' \in TimerIds \cup {End}
           /\ elapsed' \in Nat
BY DEF ContinueAt, ScanInv

LEMMA ProcessKeepsTimerInv ==
    ASSUME TimerInv,
           \/ \E e \in Frames : Process(e)
           \/ Pass \/ Call \/ Reap \/ Return
    PROVE  TimerInv'
<1> USE ScriptTimersAssumption DEF TimerInv, TimersTypeOK, BookInv, NoOrphanTimer
<1>0. live \subseteq TimerIds /\ TimerIds \subseteq Int
  BY DEF TimerIds
<1>1. ASSUME NEW e \in Frames, Process(e)
      PROVE  TimerInv'
  <2>1. \E j \in live : j > 0
    <3>1. PICK j \in live : j \in 1 .. timerCount
      BY <1>1 DEF Process
    <3>2. QED
      BY <3>1
  <2>2. After(0) \in live
    BY <1>0, <2>1, AfterIsNext
  <2>3. QED
    BY <1>0, <1>1, <2>2 DEF Process, ScanInv
<1>2. ASSUME Pass
      PROVE  TimerInv'
  <2>1. itor \in live /\ itor \in TimerIds /\ itor \in Int
    BY <1>0, <1>2 DEF Pass, ScanInv
  <2>2. After(itor) \in live \cup {End}
    BY <1>0, <2>1, AfterIsNext
  <2>3. timer' = [timer EXCEPT ![itor].remaining = Left] /\ Left \in Int
    BY <1>2, <2>1 DEF Pass, Left, Timer
  <2>4. timer' \in [TimerIds -> Timer]
        /\ \A j \in TimerIds :
              timer'[j].owner = timer[j].owner /\ timer'[j].killed = timer[j].killed
    BY <2>1, <2>3 DEF Timer
  <2>5. UNCHANGED <<live, timerCount, loaded, fires, dead>> /\ ContinueAt(After(itor))
    BY <1>2 DEF Pass
  <2>6. ScanInv' /\ phase' \in {"idle", "scan"} /\ itor' \in TimerIds \cup {End}
        /\ tmp' \in TimerIds \cup {End} /\ elapsed' \in Nat
    BY <1>0, <2>2, <2>5, GoingOn
  <2>7. QED
    BY <1>0, <2>4, <2>5, <2>6
<1>3. ASSUME Call
      PROVE  TimerInv'
  <2>1. itor \in live /\ itor \in TimerIds /\ itor \in Int
    BY <1>0, <1>3 DEF Call, ScanInv
  <2>2. After(itor) \in live \cup {End}
    BY <1>0, <2>1, AfterIsNext
  <2>3. timer' = [timer EXCEPT ![itor].remaining = Left] /\ Left \in Int
    BY <1>3, <2>1 DEF Call, Left, Timer
  <2>4. timer' \in [TimerIds -> Timer]
        /\ \A j \in TimerIds :
              timer'[j].owner = timer[j].owner /\ timer'[j].killed = timer[j].killed
    BY <2>1, <2>3 DEF Timer
  <2>5. /\ UNCHANGED <<live, timerCount, loaded, itor, elapsed, dead>>
        /\ phase' = "callback" /\ tmp' = After(itor)
        /\ fires' = [fires EXCEPT ![itor] = IF @ = 2 THEN 2 ELSE @ + 1]
    BY <1>3 DEF Call
  <2>6. fires' \in [TimerIds -> 0 .. 2]
    BY <2>1, <2>5
  <2>7. itor =< timerCount
    BY <2>1
  <2>8. \A j \in TimerIds : j > timerCount => fires'[j] = 0
    BY <1>0, <2>1, <2>5, <2>7
  <2>9. tmp' > itor
    <3>1. End > itor
      BY <2>1 DEF End, TimerIds
    <3>2. QED
      BY <1>0, <2>1, <2>5, <3>1, AfterIsNext
  <2>10. QED
    BY <1>0, <2>1, <2>2, <2>4, <2>5, <2>6, <2>8, <2>9 DEF ScanInv
<1>4. ASSUME Reap
      PROVE  TimerInv'
  <2>1. itor \in live /\ itor \in Int
    BY <1>0, <1>4 DEF Reap, ScanInv
  <2>2. PICK n \in live \cup {End} : n = After(itor) /\ (n # End => n > itor)
    BY <1>0, <2>1, AfterIsNext
  <2>3. live' = live \ {itor} /\ UNCHANGED <<timer, timerCount, loaded, fires, dead>>
        /\ SkipTo(n)
    BY <1>4, <2>2 DEF Reap
  <2>4. PICK k \in live' \cup {End} : ContinueAt(k)
    <3>1. CASE n = End
      BY <2>3, <3>1 DEF SkipTo
    <3>2. CASE n # End
      <4>1. n \in Int /\ n > itor
        BY <1>0, <2>2, <3>2
      <4>2. After(n) \in live \cup {End}
            /\ (After(n) # End => After(n) > n)
        BY <1>0, <4>1, AfterIsNext
      <4>3. After(n) # itor \/ After(n) = End
        BY <1>0, <2>1, <4>1, <4>2
      <4>4. QED
        BY <2>3, <3>2, <4>2, <4>3 DEF SkipTo
    <3>3. QED
      BY <3>1, <3>2
  <2>5. ScanInv' /\ phase' \in {"idle", "scan"} /\ itor' \in TimerIds \cup {End}
        /\ tmp' \in TimerIds \cup {End} /\ elapsed' \in Nat
    BY <1>0, <2>3, <2>4, GoingOn
  <2>6. QED
    BY <1>0, <2>3, <2>5
<1>5. ASSUME Return
      PROVE  TimerInv'
  <2>0. UNCHANGED <<timerCount, loaded, fires, dead>> /\ phase = "callback"
    BY <1>5 DEF Return
  <2>1. CASE ~IteratorsValid
    BY <1>0, <1>5, <2>0, <2>1 DEF Return, ScanInv
  <2>2. CASE IteratorsValid
    <3>1. itor \in live /\ tmp \in live \cup {End} /\ Expired /\ SkipTo(tmp)
      BY <1>5, <2>0, <2>2 DEF Return, IteratorsValid
    <3>2. itor \in TimerIds /\ itor \in Int
      BY <1>0, <3>1
    <3>3. /\ live' \in SUBSET live
          /\ timer' \in [TimerIds -> Timer]
          /\ \A j \in TimerIds :
                timer'[j].owner = timer[j].owner /\ timer'[j].killed = timer[j].killed
      BY <3>1, <3>2 DEF Expired, Timer
    <3>4. PICK n \in live' \cup {End} : ContinueAt(n)
      <4>1. CASE tmp = End
        BY <3>1, <4>1 DEF SkipTo
      <4>2. CASE tmp # End
        <5>1. tmp \in Int /\ tmp > itor
          BY <1>0, <2>0, <3>1, <4>2 DEF ScanInv
        <5>2. PICK n \in live \cup {End} : n = After(tmp) /\ (n # End => n > tmp)
          BY <1>0, <5>1, AfterIsNext
        <5>3. n # End => n \in Int /\ n # itor
          BY <1>0, <3>2, <5>1, <5>2
        <5>4. n \in live' \cup {End}
          BY <3>1, <5>2, <5>3 DEF Expired
        <5>5. QED
          BY <3>1, <4>2, <5>2, <5>4 DEF SkipTo
      <4>3. QED
        BY <4>1, <4>2
    <3>5. ScanInv' /\ phase' \in {"idle", "scan"} /\ itor' \in TimerIds \cup {End}
          /\ tmp' \in TimerIds \cup {End} /\ elapsed' \in Nat
      BY <1>0, <3>3, <3>4, GoingOn
    <3>6. QED
      BY <1>0, <2>0, <3>3, <3>5
  <2>3. QED
    BY <2>1, <2>2
<1>6. QED
  BY <1>1, <1>2, <1>3, <1>4, <1>5

LEMMA NextTimerInv == TimerInv /\ [TimersNext]_timerVars => TimerInv'
<1> SUFFICES ASSUME TimerInv, [TimersNext]_timerVars
             PROVE  TimerInv'
  OBVIOUS
<1>1. CASE UNCHANGED timerVars
  BY <1>1 DEF timerVars, scanVars, TimerInv, TimersTypeOK, ScanInv, BookInv, NoOrphanTimer
<1>2. CASE TimersNext
  BY <1>2, ScriptsKeepTimerInv, ProcessKeepsTimerInv DEF TimersNext
<1>3. QED
  BY <1>1, <1>2

\* While functions of timers unload no scripts, what they do leaves the two iterators
\* of Process alone, and no timer is between its only call and its removal but the
\* one whose function runs.
CallInv ==
    /\ phase # "crashed"
    /\ phase = "callback" => itor \in live /\ tmp \in live \cup {End}
    /\ OneShotFiresOnce

LEMMA InitCallInv == TimersInit => CallInv
  BY DEF TimersInit, CallInv, OneShotFiresOnce

\* One-shot timers stay as they are in a step that changes none of them but one that is
\* then killed, gone or repeating.
LEMMA NextCallInv ==
    ASSUME ~UnloadInCallback
    PROVE  TimerInv /\ CallInv /\ [TimersNext]_timerVars => CallInv'
<1> SUFFICES ASSUME TimerInv, CallInv, [TimersNext]_timerVars
             PROVE  CallInv'
  OBVIOUS
<1> USE ScriptTimersAssumption DEF CallInv, OneShotFiresOnce, scanVars
<1>0. /\ live \subseteq TimerIds /\ timer \in [TimerIds -> Timer]
      /\ fires \in [TimerIds -> 0 .. 2] /\ TimerIds \subseteq Int
      /\ timerCount \in Int /\ \A i \in live : i =< timerCount
      /\ \A i \in TimerIds : i > timerCount => fires[i] = 0
      /\ phase = "scan" => itor \in live
  BY DEF TimerInv, TimersTypeOK, BookInv, ScanInv, TimerIds
<1>1. ASSUME NEW s \in Scripts, NEW n \in Intervals, NEW r \in BOOLEAN, SetTimer(s, n, r)
      PROVE  CallInv'
  <2>1. PICK i \in TimerIds : i = timerCount + 1
    BY <1>1, <1>0 DEF SetTimer, TimerIds, TimerInv, TimersTypeOK
  <2>2. /\ live' = live \cup {i} /\ UNCHANGED <<scanVars, fires>>
        /\ \A j \in TimerIds : j # i => timer'[j] = timer[j]
    BY <1>0, <1>1, <2>1 DEF SetTimer
  <2>3. fires[i] = 0
    BY <1>0, <2>1
  <2>4. QED
    BY <1>0, <2>2, <2>3
<1>2. ASSUME NEW i \in TimerIds, Kill(i)
      PROVE  CallInv'
  <2>1. UNCHANGED <<live, scanVars, fires>>
    BY <1>2 DEF Kill
  <2>2. timer'[i].killed /\ \A j \in TimerIds : j # i => timer'[j] = timer[j]
    BY <1>0, <1>2 DEF Kill, Timer
  <2>3. QED
    BY <1>0, <2>1, <2>2
<1>3. ASSUME NEW s \in Scripts, Unload(s)
      PROVE  CallInv'
  BY <1>0, <1>3 DEF Unload
<1>4. ASSUME NEW s \in Scripts, Load(s)
      PROVE  CallInv'
  BY <1>4 DEF Load
<1>5. ASSUME NEW e \in Frames, Process(e)
      PROVE  CallInv'
  BY <1>5 DEF Process
<1>6. ASSUME Pass
      PROVE  CallInv'
  <2>1. /\ phase = "scan" /\ phase' \in {"idle", "scan"} /\ UNCHANGED <<live, fires>>
        /\ \A j \in TimerIds : /\ timer'[j].repeating = timer[j].repeating
                               /\ timer'[j].killed = timer[j].killed
    BY <1>0, <1>6 DEF Pass, ContinueAt, Timer
  <2>2. QED
    BY <1>0, <2>1
<1>7. ASSUME Call
      PROVE  CallInv'
  <2>1. /\ phase = "scan" /\ itor \in live /\ ~timer[itor].killed
        /\ phase' = "callback" /\ itor' = itor /\ tmp' = After(itor) /\ live' = live
        /\ \A j \in TimerIds : /\ timer'[j].repeating = timer[j].repeating
                               /\ timer'[j].killed = timer[j].killed
                               /\ j # itor => fires'[j] = fires[j]
        /\ fires[itor] = 0 => fires'[itor] = 1
    BY <1>0, <1>7 DEF Call, Timer
  <2>2. After(itor) \in live \cup {End}
    BY <1>0, <2>1, AfterIsNext
  <2>3. QED
    BY <1>0, <2>1, <2>2
<1>8. ASSUME Reap
      PROVE  CallInv'
  <2>1. /\ phase = "scan" /\ phase' \in {"idle", "scan"} /\ live' \subseteq live
        /\ UNCHANGED <<timer, fires>>
    BY <1>8 DEF Reap, SkipTo, ContinueAt
  <2>2. QED
    BY <2>1
<1>9. ASSUME Return
      PROVE  CallInv'
  <2>1. /\ phase = "callback" /\ itor \in live /\ Expired /\ SkipTo(tmp) /\ UNCHANGED fires
    BY <1>9 DEF Return, IteratorsValid
  <2>2. phase' \in {"idle", "scan"}
    BY <2>1 DEF SkipTo, ContinueAt
  <2>3. /\ live' \subseteq live
        /\ itor \in live' => timer'[itor].repeating
        /\ \A j \in TimerIds : /\ timer'[j].repeating = timer[j].repeating
                               /\ timer'[j].killed = timer[j].killed
    BY <1>0, <2>1 DEF Expired, Timer
  <2>4. QED
    BY <1>0, <2>1, <2>2, <2>3
<1>10. ASSUME UNCHANGED timerVars
       PROVE  CallInv'
  BY <1>10 DEF timerVars
<1>11. QED
  BY <1>1, <1>2, <1>3, <1>4, <1>5, <1>6, <1>7, <1>8, <1>9, <1>10 DEF TimersNext

\* Timers, the iterators of Process and what was called keep their types, also when
\* functions of timers unload scripts.
THEOREM TimersTypeCorrect == TimersSpec => []TimersTypeOK
<1>1. TimerInv => TimersTypeOK
  BY DEF TimerInv
<1>2. QED
  BY InitTimerInv, NextTimerInv, <1>1, PTL DEF TimersSpec

\* Process reads nothing that was freed: its iterators stand at timers that are in the
\* map when a function returns, and the program of each timer is in memory.  That no
\* function of a timer unloads a script is needed: DeleteForMode erases timers without
\* regard to the iterators (scrtimers.cpp 54-71, 234-279).
THEOREM IteratorsStayValid == ASSUME ~UnloadInCallback
                              PROVE  TimersSpec => []NothingDangles
<1>1. TimerInv /\ CallInv => NothingDangles
  BY DEF TimerInv, CallInv, BookInv, NothingDangles, IteratorsValid
<1>2. TimerInv /\ CallInv /\ [TimersNext]_timerVars => CallInv'
  BY NextCallInv
<1>3. QED
  BY InitTimerInv, NextTimerInv, InitCallInv, <1>1, <1>2, PTL DEF TimersSpec

\* No function of a timer is called after the timer was killed or its script unloaded,
\* whatever other functions do, and one that does not repeat is called once.
THEOREM NobodyIsCalledTooOften == ASSUME ~UnloadInCallback
                                  PROVE  TimersSpec => NoCallTooMany
<1>1. TimerInv /\ [TimersNext]_timerVars
        => [\A i \in dead : fires'[i] = fires[i]]_timerVars
  <2> SUFFICES ASSUME TimerInv, TimersNext
               PROVE  \A i \in dead : fires'[i] = fires[i]
    OBVIOUS
  <2>1. CASE Call
    <3>1. itor \in live /\ ~timer[itor].killed
      BY <2>1 DEF Call, TimerInv, ScanInv
    <3>2. itor \notin dead
      BY <3>1 DEF TimerInv, BookInv
    <3>3. fires' = [fires EXCEPT ![itor] = IF @ = 2 THEN 2 ELSE @ + 1]
      BY <2>1 DEF Call
    <3>4. fires \in [TimerIds -> 0 .. 2] /\ dead \subseteq TimerIds
      BY DEF TimerInv, TimersTypeOK
    <3>5. QED
      BY <3>2, <3>3, <3>4
  <2>2. CASE ~Call
    BY <2>2 DEF TimersNext, SetTimer, Kill, Unload, Load, Process, Pass, Reap, Return
  <2>3. QED
    BY <2>1, <2>2
<1>2. CallInv => OneShotFiresOnce
  BY DEF CallInv
<1>3. TimerInv /\ CallInv /\ [TimersNext]_timerVars => CallInv'
  BY NextCallInv
<1>4. QED
  BY InitTimerInv, NextTimerInv, InitCallInv, <1>1, <1>2, <1>3, PTL
     DEF TimersSpec, NoCallTooMany, DeadStaysDead

-----------------------------------------------------------------------------
(* Scripts. *)

\* What slots may hold: programs under their names, or an AMX without a program if a
\* file without one was tried.
FilterState(progs, nms) ==
    /\ progs \in [Slots -> Names \cup {Empty, "blank"}]
    /\ nms \in [Slots -> Names \cup {Empty}]
    /\ \A s \in Slots : \A n \in Names : progs[s] = n <=> nms[s] = n
    /\ (\E s \in Slots : progs[s] = "blank") => blankTried

FilterInv ==
    /\ FilterState(scripts, names)
    /\ scriptCount \in 0 .. MaxFilterScripts /\ blankTried \in BOOLEAN

\* With the game mode: it has a program unless a file without one was loaded.
RotationInv == RotationTypeOK /\ FilterInv /\ (initialised \/ unloadable)

\* LoadFilterScript, from whatever slots it starts.
LEMMA LoadKeepsFilterInv ==
    ASSUME NEW n \in FilterNames, NEW progs, NEW nms, FilterState(progs, nms), FilterInv,
           LoadInto(n, progs, nms)
    PROVE  FilterInv'
<1> USE FilterScriptsAssumption DEF FilterInv, FilterState
<1>1. CASE ~HasRoom(scriptCount) \/ n \notin Readable \/ SpareSlot(n, progs, nms) = {}
  BY <1>1 DEF LoadInto
<1>2. CASE ~(~HasRoom(scriptCount) \/ n \notin Readable \/ SpareSlot(n, progs, nms) = {})
  <2>1. PICK s \in SpareSlot(n, progs, nms) :
        IF n \in Loadable
        THEN /\ scripts' = [progs EXCEPT ![s] = n] /\ names' = [nms EXCEPT ![s] = n]
             /\ scriptCount' = scriptCount + 1
             /\ UNCHANGED blankTried
        ELSE /\ scripts' = [progs EXCEPT ![s] = "blank"] /\ names' = nms
             /\ blankTried' = TRUE
             /\ UNCHANGED scriptCount
    BY <1>2 DEF LoadInto
  <2>2. s \in Slots /\ progs[s] = Empty /\ n \in Names /\ scriptCount < MaxFilterScripts
    BY <1>2, <2>1 DEF SpareSlot, HasRoom
  <2>3. CASE n \in Loadable
    BY <2>1, <2>2, <2>3
  <2>4. CASE n \notin Loadable
    BY <2>1, <2>2, <2>4
  <2>5. QED
    BY <2>3, <2>4
<1>3. QED
  BY <1>1, <1>2

\* RemoveFilterScript empties slot and name together.
LEMMA RemovalKeepsFilterState ==
    ASSUME NEW n \in FilterNames, FilterInv
    PROVE  FilterState(ScriptsWithout(n), NamesWithout(n))
BY FilterScriptsAssumption DEF FilterInv, FilterState, ScriptsWithout, NamesWithout

LEMMA FilterStepKeepsInv ==
    ASSUME FilterInv, up \in BOOLEAN, FilterNext
    PROVE  FilterInv' /\ up' \in BOOLEAN
<1>1. ASSUME NEW n \in FilterNames, LoadFilterScript(n)
      PROVE  FilterInv' /\ up' \in BOOLEAN
  <2>1. PICK progs, nms : progs = scripts /\ nms = names
    OBVIOUS
  <2>2. FilterState(progs, nms) /\ LoadInto(n, progs, nms)
    BY <1>1, <2>1 DEF FilterInv, LoadFilterScript
  <2>3. QED
    BY <1>1, <2>2, LoadKeepsFilterInv DEF LoadFilterScript
<1>2. ASSUME NEW n \in FilterNames, UnloadOneFilterScript(n)
      PROVE  FilterInv' /\ up' \in BOOLEAN
  <2>1. PICK progs, nms : progs = ScriptsWithout(n) /\ nms = NamesWithout(n)
    OBVIOUS
  <2>2. FilterState(progs, nms)
    BY <2>1, RemovalKeepsFilterState
  <2>3. scripts' = progs /\ names' = nms /\ UNCHANGED <<scriptCount, blankTried, up>>
    BY <1>2, <2>1 DEF UnloadOneFilterScript
  <2>4. QED
    BY <2>2, <2>3 DEF FilterInv, FilterState
<1>3. ASSUME NEW n \in FilterNames, ReloadFs(n)
      PROVE  FilterInv' /\ up' \in BOOLEAN
  <2>1. PICK progs, nms : progs = ScriptsWithout(n) /\ nms = NamesWithout(n)
    OBVIOUS
  <2>2. FilterState(progs, nms)
    BY <2>1, RemovalKeepsFilterState
  <2>3. LoadInto(n, progs, nms) /\ up' = up
    BY <1>3, <2>1 DEF ReloadFs
  <2>4. QED
    BY <2>2, <2>3, LoadKeepsFilterInv
<1>4. ASSUME CallPublic
      PROVE  FilterInv' /\ up' \in BOOLEAN
  <2>1. CallOutcomes \subseteq BOOLEAN
    BY DEF CallOutcomes
  <2>2. QED
    BY <1>4, <2>1 DEF CallPublic, filterVars, FilterInv, FilterState
<1>5. QED
  BY <1>1, <1>2, <1>3, <1>4 DEF FilterNext

\* Without an AMX that has no program nothing stops a callback.
LEMMA CallbacksReturn ==
    ASSUME FilterInv, ~blankTried
    PROVE  CallOutcomes = {TRUE}
BY DEF FilterInv, FilterState, CallOutcomes

\* The entries of the configuration.
LEMMA Entries ==
    /\ Len(Config) \in Nat /\ Len(Config) > 0
    /\ \A i \in 0 .. (Len(Config) - 1) : Entry(i).name \in Names
<1>1. Config \in Seq([name : Names, repeats : Nat]) /\ Len(Config) > 0
  BY GameModeRotationAssumption
<1>2. Len(Config) \in Nat
  BY <1>1
<1>3. ASSUME NEW i \in 0 .. (Len(Config) - 1)
      PROVE  Entry(i).name \in Names
  <2>1. i + 1 \in 1 .. Len(Config)
    BY <1>2
  <2>2. PICK E : E = [name : Names, repeats : Nat]
    OBVIOUS
  <2>3. Config \in Seq(E)
    BY <1>1, <2>2
  <2>4. Config[i + 1] \in E
    BY <2>1, <2>3
  <2>5. QED
    BY <2>2, <2>4 DEF Entry
<1>4. QED
  BY <1>1, <1>2, <1>3

\* The rotation goes to an entry, and the counter stays between its bounds.
LEMMA RotationStaysInside ==
    ASSUME RotationTypeOK
    PROVE  /\ RotateTo \in 0 .. (Len(Config) - 1)
           /\ NextIndex(index) \in 0 .. (Len(Config) - 1)
           /\ RepeatAfter \in RepeatFloor .. 0
<1>1. index \in 0 .. (Len(Config) - 1) /\ repeat \in RepeatFloor .. 0
  BY DEF RotationTypeOK
<1>2. NextIndex(index) \in 0 .. (Len(Config) - 1)
  BY <1>1, Entries DEF NextIndex
<1>3. RepeatAfter \in RepeatFloor .. 0
  BY <1>1 DEF RepeatAfter, CountDown, ConfigRepeat, RepeatFloor
<1>4. QED
  BY <1>1, <1>2, <1>3 DEF RotateTo

LEMMA InitRotationInv == RotationInit => RotationInv
<1> SUFFICES ASSUME RotationInit
             PROVE  RotationInv
  OBVIOUS
<1>1. FilterInv
  <2>1. FilterState(scripts, names)
    BY FilterScriptsAssumption DEF RotationInit, FilterInit, FilterState
  <2>2. scriptCount \in 0 .. MaxFilterScripts
    BY FilterScriptsAssumption DEF RotationInit, FilterInit
  <2>3. blankTried \in BOOLEAN
    BY DEF RotationInit, FilterInit
  <2>4. QED
    BY <2>1, <2>2, <2>3 DEF FilterInv
<1>2. RotationTypeOK
  <2>1. Entry(0).name \in Names /\ 0 \in 0 .. (Len(Config) - 1)
    BY Entries
  <2>2. FilterTypeOK
    BY <1>1 DEF FilterTypeOK, FilterInv, FilterState
  <2>3. repeat \in RepeatFloor .. 0
    BY DEF RotationInit, CountDown, ConfigRepeat, RepeatFloor
  <2>4. index \in 0 .. (Len(Config) - 1) /\ plays \in 0 .. 3
    BY <2>1 DEF RotationInit
  <2>5. /\ file \in Names /\ running \in Names
        /\ finished \in BOOLEAN /\ initialised \in BOOLEAN
        /\ unloadable \in BOOLEAN /\ up \in BOOLEAN
    BY <2>1 DEF RotationInit
  <2>6. QED
    BY <2>2, <2>3, <2>4, <2>5 DEF RotationTypeOK
<1>3. QED
  BY <1>1, <1>2 DEF RotationInit, RotationInv

LEMMA NextRotationInv == RotationInv /\ [RotationNext]_rotationVars => RotationInv'
<1> SUFFICES ASSUME RotationInv, [RotationNext]_rotationVars
             PROVE  RotationInv'
  OBVIOUS
<1>0. RotationTypeOK /\ FilterInv /\ (initialised \/ unloadable)
  BY DEF RotationInv
<1>a. ASSUME FilterInv'
      PROVE  FilterTypeOK'
  BY <1>a DEF FilterTypeOK, FilterInv, FilterState
<1>b. ASSUME UNCHANGED filterVars
      PROVE  FilterInv'
  BY <1>0, <1>b DEF filterVars, FilterInv, FilterState
<1>1. ASSUME GameModeExit
      PROVE  RotationInv'
  <2>1. PICK i \in 0 .. (Len(Config) - 1) : i = RotateTo
    BY <1>0, RotationStaysInside
  <2>2. index' = i /\ file' = Entry(i).name /\ file' \in Names
    BY <1>1, <2>1, Entries DEF GameModeExit
  <2>3. FilterInv' /\ UNCHANGED <<running, initialised, unloadable>>
    BY <1>1, <1>b DEF GameModeExit
  <2>4. CASE Entry(RotateTo).name \in Readable
    <3>1. plays' \in 0 .. 3
      <4>1. plays \in 0 .. 3
        BY <1>0 DEF RotationTypeOK
      <4>2. plays' = IF index' # index THEN 1 ELSE IF plays = 3 THEN 3 ELSE plays + 1
        BY <1>1, <2>4 DEF GameModeExit
      <4>3. QED
        BY <4>1, <4>2
    <3>2. repeat' \in RepeatFloor .. 0
      BY <1>0, <1>1, <2>4, RotationStaysInside DEF GameModeExit
    <3>3. finished' \in BOOLEAN /\ up' \in BOOLEAN
      BY <1>1, <2>4 DEF GameModeExit
    <3>4. QED
      BY <1>0, <1>a, <2>2, <2>3, <3>1, <3>2, <3>3 DEF RotationInv, RotationTypeOK
  <2>5. CASE Entry(RotateTo).name \notin Readable
    <3>1. up' \in BOOLEAN /\ UNCHANGED <<repeat, finished, plays>>
      BY <1>1, <2>5 DEF GameModeExit
    <3>2. QED
      BY <1>0, <1>a, <2>2, <2>3, <3>1 DEF RotationInv, RotationTypeOK
  <2>6. QED
    BY <2>4, <2>5
<1>2. ASSUME NEW n \in Names, SetNextScriptFile(n), index' \in 0 .. (Len(Config) - 1), plays' = 0,
             UNCHANGED <<running, initialised, unloadable, filterVars, up>>
      PROVE  RotationInv'
  <2>0. file' = n /\ repeat \in RepeatFloor .. 0 /\ 0 \in RepeatFloor .. 0 /\ finished \in BOOLEAN
    BY <1>0, <1>2 DEF SetNextScriptFile, RotationTypeOK, RepeatFloor
  <2>1. file' = n /\ repeat' \in RepeatFloor .. 0 /\ finished' \in BOOLEAN
    BY <1>2, <2>0 DEF SetNextScriptFile
  <2>2. QED
    BY <1>0, <1>2, <1>a, <1>b, <2>1 DEF RotationInv, RotationTypeOK
<1>3. ASSUME Gmx
      PROVE  RotationInv'
  <2>1. PICK i \in 0 .. (Len(Config) - 1) : i = NextIndex(index)
    BY <1>0, RotationStaysInside
  <2>2. SetNextScriptFile(Entry(i).name) /\ Entry(i).name \in Names /\ index' = i
    BY <1>3, <2>1, Entries DEF Gmx
  <2>3. QED
    BY <1>2, <1>3, <2>2 DEF Gmx
<1>4. ASSUME NEW n \in Named, ChangeMode(n)
      PROVE  RotationInv'
  <2>1. n \in Names /\ index' \in 0 .. (Len(Config) - 1)
    BY <1>0, <1>4, GameModeRotationAssumption DEF ChangeMode, RotationTypeOK
  <2>2. QED
    BY <1>2, <1>4, <2>1 DEF ChangeMode
<1>5. ASSUME Restart
      PROVE  RotationInv'
  <2>1. CallOutcomes \subseteq BOOLEAN
    BY DEF CallOutcomes
  <2>2. up' \in BOOLEAN /\ finished' = FALSE /\ running' = file /\ initialised' \in BOOLEAN
        /\ unloadable' \in BOOLEAN /\ (initialised' \/ unloadable') /\ UNCHANGED choice
    BY <1>0, <1>5, <2>1 DEF Restart, RotationTypeOK
  <2>3. FilterInv'
    BY <1>5, <1>b DEF Restart
  <2>4. QED
    BY <1>0, <1>a, <2>2, <2>3 DEF RotationInv, RotationTypeOK, choice
<1>6. ASSUME FilterStep
      PROVE  RotationInv'
  <2>1. FilterInv' /\ up' \in BOOLEAN
    BY <1>0, <1>6, FilterStepKeepsInv DEF FilterStep, RotationTypeOK
  <2>2. QED
    BY <1>0, <1>6, <1>a, <2>1 DEF FilterStep, RotationInv, RotationTypeOK, choice
<1>7. ASSUME UNCHANGED rotationVars
      PROVE  RotationInv'
  BY <1>0, <1>7, <1>a, <1>b DEF rotationVars, RotationInv, RotationTypeOK, choice
<1>8. QED
  BY <1>1, <1>3, <1>4, <1>5, <1>6, <1>7 DEF RotationNext

\* Indices, counters and slots keep their types through any rotation and any loading.
THEOREM RotationTypeCorrect == RotationSpec => []RotationTypeOK
<1>1. RotationInv => RotationTypeOK
  BY DEF RotationInv
<1>2. QED
  BY InitRotationInv, NextRotationInv, <1>1, PTL DEF RotationSpec

\* What unloadfs finds by its name runs, and what runs can be found, also after loads
\* that failed and when a script was loaded a second time behind a gap.
THEOREM ScriptsAreFoundByName == RotationSpec => []NamesMatch
<1>1. RotationInv => NamesMatch
  BY DEF RotationInv, FilterInv, FilterState, NamesMatch
<1>2. QED
  BY InitRotationInv, NextRotationInv, <1>1, PTL DEF RotationSpec

\* No callback follows a null program unless a file was loaded that holds none.
THEOREM OnlyBadFilesStopTheServer == RotationSpec => StopsForBadFilesOnly
<1>1. RotationInv /\ [RotationNext]_rotationVars
        => [(Restart \/ FilterStep) /\ ~up' => blankTried \/ unloadable]_rotationVars
  <2> SUFFICES ASSUME RotationInv, Restart \/ FilterStep, ~up', ~blankTried, ~unloadable
               PROVE  FALSE
    OBVIOUS
  <2>1. CallOutcomes = {TRUE} /\ initialised
    BY CallbacksReturn DEF RotationInv
  <2>2. CASE Restart
    BY <2>1, <2>2 DEF Restart
  <2>3. CASE FilterStep
    <3>1. \/ up /\ up' = up
          \/ CallPublic
      BY <2>3 DEF FilterStep, FilterNext, LoadFilterScript, UnloadOneFilterScript, ReloadFs
    <3>2. CASE up /\ up' = up
      BY <3>2
    <3>3. CASE CallPublic
      <4>1. up' \in {TRUE}
        BY <2>1, <3>3 DEF CallPublic
      <4>2. QED
        BY <4>1
    <3>4. QED
      BY <3>1, <3>2, <3>3
  <2>4. QED
    BY <2>2, <2>3
<1>2. QED
  BY InitRotationInv, NextRotationInv, <1>1, PTL DEF RotationSpec, StopsForBadFilesOnly

\* A script that runs and is reloaded runs afterwards, while fewer loads have succeeded
\* than there are slots: the slot it leaves, or one before it, is free.
THEOREM ReloadedScriptsRun == RotationSpec => ReloadKeepsRunning
<1>1. ASSUME RotationInv, NEW n \in FilterNames \cap Loadable, ReloadFs(n), Running(n),
             scriptCount < MaxFilterScripts
      PROVE  \E s \in Slots : scripts'[s] = n
  <2>1. PICK b \in Int : b = MaxFilterScripts - 1
    BY FilterScriptsAssumption
  <2>2. n \in Names /\ n \in Readable /\ n # Empty /\ Slots \subseteq Int
    BY FilterScriptsAssumption DEF Slots
  <2>3. FilterState(scripts, names)
    BY <1>1 DEF RotationInv, FilterInv
  <2>4. PICK named \in SUBSET Slots : named = {s \in Slots : names[s] = n}
    OBVIOUS
  <2>5. named # {} /\ named \subseteq 0 .. b
    BY <1>1, <2>1, <2>2, <2>3, <2>4 DEF Running, FilterState, Slots
  <2>6. PICK old \in named : \A q \in named : old =< q
    BY <2>1, <2>5, FirstInRange
  <2>7. PICK progs, nms : progs = ScriptsWithout(n) /\ nms = NamesWithout(n)
    OBVIOUS
  <2>8. old \in FirstNamed(n)
    BY <2>2, <2>4, <2>6 DEF FirstNamed
  <2>9. progs[old] = Empty /\ \A r \in Slots : r < old => nms[r] # n
    BY <2>2, <2>4, <2>6, <2>7, <2>8 DEF ScriptsWithout, NamesWithout
  <2>10. PICK free \in SUBSET Slots : free = {s \in Slots : progs[s] = Empty}
    OBVIOUS
  <2>11. old \in free /\ free \subseteq 0 .. b
    BY <2>1, <2>4, <2>9, <2>10 DEF Slots
  <2>12. PICK s \in free : \A q \in free : s =< q
    BY <2>1, <2>11, FirstInRange
  <2>13. s \in SpareSlot(n, progs, nms)
    BY <2>2, <2>4, <2>9, <2>10, <2>11, <2>12 DEF SpareSlot
  <2>14. LoadInto(n, progs, nms) /\ HasRoom(scriptCount)
    BY <1>1, <2>7 DEF ReloadFs, HasRoom
  <2>15. PICK t \in SpareSlot(n, progs, nms) : scripts' = [progs EXCEPT ![t] = n]
    BY <2>2, <2>13, <2>14 DEF LoadInto
  <2>16. progs \in [Slots -> Names \cup {Empty, "blank"}] /\ t \in Slots
    BY <2>7, <2>15, <1>1, RemovalKeepsFilterState DEF RotationInv, FilterState, SpareSlot
  <2>17. QED
    BY <2>15, <2>16
<1>2. RotationInv /\ [RotationNext]_rotationVars
        => [\A n \in FilterNames \cap Loadable :
               ReloadFs(n) /\ Running(n) /\ scriptCount < MaxFilterScripts
                   => \E s \in Slots : scripts'[s] = n]_filterVars
  BY <1>1
<1>3. QED
  BY InitRotationInv, NextRotationInv, <1>2, PTL DEF RotationSpec, ReloadKeepsRunning

=============================================================================
