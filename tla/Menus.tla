------------------------------- MODULE Menus -------------------------------
(***************************************************************************)
(* The menu pool (server/menupool.cpp, server/menupool.h), the menus       *)
(* (server/menu.cpp), their natives (server/scrcustom.cpp), the handlers   *)
(* of a player's answer (server/netrpc.cpp) and what the client does with  *)
(* a menu (client/net/menupool.cpp).                                       *)
(*                                                                         *)
(* A menu's text is sent to a client once, before the menu is first shown  *)
(* to it, and again after it changed.  A client answers a menu that it     *)
(* displays by selecting a row or by leaving, even by both, and an answer  *)
(* may cross whatever the server sends meanwhile.  Scripts may show and    *)
(* hide menus to an empty slot and to a player who is only joining: the    *)
(* natives do not ask.  What is sent arrives in the order it was sent in.  *)
(* The text of a menu is abstracted to a number that every change raises.  *)
(***************************************************************************)
EXTENDS Integers, PlayerIds

CONSTANTS MaxMenus,      \* MAX_MENUS; id 0 is never used
          MaxTexts,      \* bound on the number of changes to texts
          MaxSent,       \* bound on a client's answers on their way
          Nested         \* do scripts show and hide menus while they are told of an answer?

ASSUME MenusAssumption ==
    /\ MaxMenus \in Nat
    /\ MaxTexts \in Nat
    /\ MaxSent \in Nat
    /\ Nested \in BOOLEAN

Menus == 1 .. (MaxMenus - 1)
None == 0                \* INVALID_MENU_ID

VARIABLES active,        \* m_bMenuSlotState
          text,          \* the text of each menu
          texts,         \* how many texts there have been
          inited,        \* m_bInitedForPlayer of each menu
          playerMenu,    \* m_bytePlayerMenu
          online,        \* occupied player slots
          has,           \* the text each client was last sent for each menu
          shown,         \* the menu each client displays
          sent,          \* how many answers of each client are on their way
          connecting,    \* the player whose join is being handled
          telling,       \* the player of whose answer scripts are being told
          answers        \* answers told to scripts since the last Show or Hide

poolVars == <<active, text, texts, inited>>
clientVars == <<online, has, shown, sent>>
menuVars == <<poolVars, playerMenu, clientVars, connecting, telling, answers>>

Nobody == {}             \* connecting and telling, when no handler runs
Somebody == {Nobody} \cup {{p} : p \in Players}

MenusTypeOK ==
    /\ active \in SUBSET Menus
    /\ text \in [Menus -> 0 .. texts]
    /\ texts \in 0 .. MaxTexts
    /\ inited \in [Menus -> SUBSET Players]
    /\ playerMenu \in [Players -> Menus \cup {None}]
    /\ online \in SUBSET Players
    /\ has \in [Players -> [Menus -> 0 .. texts]]
    /\ shown \in [Players -> Menus \cup {None}]
    /\ sent \in [Players -> 0 .. MaxSent]
    /\ connecting \in Somebody /\ telling \in Somebody
    /\ answers \in [Players -> 0 .. 2]

MenusInit ==
    /\ active = {} /\ text = [m \in Menus |-> 0] /\ texts = 0
    /\ inited = [m \in Menus |-> {}]
    /\ playerMenu = [p \in Players |-> None]
    /\ online = {} /\ sent = [p \in Players |-> 0]
    /\ has = [p \in Players |-> [m \in Menus |-> 0]]
    /\ shown = [p \in Players |-> None]
    /\ connecting = Nobody /\ telling = Nobody
    /\ answers = [p \in Players |-> 0]

\* The server handles one packet at a time.
Idle == connecting = Nobody /\ telling = Nobody

\* Scripts call natives between the handlers, in the callbacks of a join, and in
\* those of an answer if Nested allows it.
MayShow == telling = Nobody \/ Nested

-----------------------------------------------------------------------------
(* The natives that make, change and destroy menus. *)

\* CMenuPool::New takes the first free id; nobody has seen the new menu.
CreateMenu ==
    /\ active # Menus /\ texts < MaxTexts
    /\ LET m == CHOOSE i \in Menus \ active : \A j \in Menus \ active : i =< j IN
       /\ active' = active \cup {m}
       /\ texts' = texts + 1
       /\ text' = [text EXCEPT ![m] = texts']
       /\ inited' = [inited EXCEPT ![m] = {}]
    /\ UNCHANGED <<playerMenu, clientVars, connecting, telling, answers>>

\* CMenuPool::Delete: clients that display the menu are not told, and
\* m_bytePlayerMenu keeps the id.
DestroyMenu(m) ==
    /\ m \in active
    /\ active' = active \ {m}
    /\ UNCHANGED <<text, texts, inited, playerMenu, clientVars, connecting, telling, answers>>

\* A mutant: the text is changed before it is counted.
ChangeMenu_Uncounted(m) ==
    /\ m \in active /\ texts < MaxTexts
    /\ text' = [text EXCEPT ![m] = texts + 1]
    /\ inited' = [inited EXCEPT ![m] = {}]
    /\ UNCHANGED <<active, texts, playerMenu, clientVars, connecting, telling, answers>>

\* AddMenuItem and SetColumnTitle: ResetForAll.
ChangeMenu(m) ==
    /\ m \in active /\ texts < MaxTexts
    /\ texts' = texts + 1
    /\ text' = [text EXCEPT ![m] = texts']
    /\ inited' = [inited EXCEPT ![m] = {}]
    /\ UNCHANGED <<active, playerMenu, clientVars, connecting, telling, answers>>

-----------------------------------------------------------------------------
(* The natives that show and hide menus, which both note the menu with       *)
(* SetPlayerMenu.                                                            *)

\* ShowForPlayer sends the text first, unless the client is believed to have it.
\* What is sent to an empty slot reaches nobody, and a client ignores a menu that
\* it does not know.
ShowMenuForPlayer(m, p) ==
    /\ MayShow /\ m \in active
    /\ inited' = [inited EXCEPT ![m] = @ \cup {p}]
    /\ IF p \in online \ inited[m]
       THEN has' = [has EXCEPT ![p][m] = text[m]]
       ELSE has' = has
    /\ IF p \in online /\ has'[p][m] # 0
       THEN shown' = [shown EXCEPT ![p] = m]
       ELSE shown' = shown
    /\ playerMenu' = [playerMenu EXCEPT ![p] = m]
    /\ answers' = [answers EXCEPT ![p] = 0]
    /\ UNCHANGED <<active, text, texts, online, sent, connecting, telling>>

\* The client hides whatever it displays, if it knows menu m.
HideMenuForPlayer(m, p) ==
    /\ MayShow /\ m \in active
    /\ IF p \in online /\ has[p][m] # 0
       THEN shown' = [shown EXCEPT ![p] = None]
       ELSE shown' = shown
    /\ playerMenu' = [playerMenu EXCEPT ![p] = m]
    /\ answers' = [answers EXCEPT ![p] = 0]
    /\ UNCHANGED <<poolVars, online, has, sent, connecting, telling>>

-----------------------------------------------------------------------------
(* Clients. *)

\* New has taken the slot, and OnPlayerConnect is called.
ClientJoin(p) ==
    /\ Idle /\ p \notin online
    /\ online' = online \cup {p} /\ connecting' = {p}
    /\ UNCHANGED <<poolVars, playerMenu, has, shown, sent, telling, answers>>

\* A mutant: the new client in the slot is taken for the one that left.
ResetPlayer_Missing(p) == inited

\* CMenuPool::ResetPlayer visits the menus that there are.
ResetPlayer(p) == [m \in Menus |-> IF m \in active THEN inited[m] \ {p} ELSE inited[m]]

\* ProcessClientJoin ends with ResetPlayer, which marks the player as requiring
\* menus; m_bytePlayerMenu is left alone.
ProcessClientJoin(p) ==
    /\ connecting = {p}
    /\ connecting' = Nobody
    /\ inited' = ResetPlayer(p)
    /\ UNCHANGED <<active, text, texts, playerMenu, clientVars, telling, answers>>

\* Nothing in the menu pool changes when a player leaves; his client is gone, and
\* the next one in the slot has nothing.
MenusDisconnect(p) ==
    /\ Idle /\ p \in online
    /\ online' = online \ {p}
    /\ has' = [has EXCEPT ![p] = [m \in Menus |-> 0]]
    /\ shown' = [shown EXCEPT ![p] = None]
    /\ sent' = [sent EXCEPT ![p] = 0]
    /\ UNCHANGED <<poolVars, playerMenu, connecting, telling, answers>>

\* The client sends MenuSelect or MenuQuit.  It hides the menu in the next frame,
\* unless in that frame the player presses the other key.
Answer(p) ==
    /\ p \in online /\ shown[p] # None
    /\ sent[p] < MaxSent
    /\ sent' = [sent EXCEPT ![p] = @ + 1]
    /\ \E again \in BOOLEAN : shown' = IF again THEN shown ELSE [shown EXCEPT ![p] = None]
    /\ UNCHANGED <<poolVars, playerMenu, online, has, connecting, telling, answers>>

-----------------------------------------------------------------------------
(* The handlers of an answer. *)

Told(p) == answers' = [answers EXCEPT ![p] = IF @ = 2 THEN 2 ELSE @ + 1]

\* A mutant: the player's menu is forgotten only if scripts were not told.
MenuForgotten_IfInvalid(p) == playerMenu

\* CMenuPool::ResetForPlayer.
MenuForgotten(p) == [playerMenu EXCEPT ![p] = None]

\* MenuSelect and MenuQuit tell scripts about players who have a menu.
MenuAnswered(p) ==
    /\ Idle /\ sent[p] > 0
    /\ playerMenu[p] # None
    /\ sent' = [sent EXCEPT ![p] = @ - 1]
    /\ telling' = {p} /\ Told(p)
    /\ UNCHANGED <<poolVars, playerMenu, online, has, shown, connecting>>

\* ... and the menu is reset when the scripts' callbacks have returned.
AnswerTold(p) ==
    /\ telling = {p}
    /\ playerMenu' = MenuForgotten(p)
    /\ telling' = Nobody
    /\ UNCHANGED <<poolVars, clientVars, connecting, answers>>

\* An answer that scripts are not told of: the player has no menu, or the menu
\* is gone or has no such row.
MenuIgnored(p) ==
    /\ Idle /\ sent[p] > 0
    /\ sent' = [sent EXCEPT ![p] = @ - 1]
    /\ playerMenu' = MenuForgotten(p)
    /\ UNCHANGED <<poolVars, online, has, shown, connecting, telling, answers>>

\* A game mode restart: the server's pool is deleted and made anew, and the
\* clients reset theirs when they are told.
MenusRestart ==
    /\ Idle
    /\ active' = {}
    /\ inited' = [m \in Menus |-> {}]
    /\ playerMenu' = [p \in Players |-> None]
    /\ has' = [p \in Players |-> [m \in Menus |-> 0]]
    /\ shown' = [p \in Players |-> None]
    /\ UNCHANGED <<text, texts, online, sent, connecting, telling, answers>>

MenusNext ==
    \/ CreateMenu
    \/ \E m \in Menus : DestroyMenu(m)
    \/ \E m \in Menus : ChangeMenu(m)
    \/ \E m \in Menus, p \in Players : ShowMenuForPlayer(m, p)
    \/ \E m \in Menus, p \in Players : HideMenuForPlayer(m, p)
    \/ \E p \in Players : ClientJoin(p)
    \/ \E p \in Players : ProcessClientJoin(p)
    \/ \E p \in Players : MenusDisconnect(p)
    \/ \E p \in Players : Answer(p)
    \/ \E p \in Players : MenuAnswered(p)
    \/ \E p \in Players : AnswerTold(p)
    \/ \E p \in Players : MenuIgnored(p)
    \/ MenusRestart

MenusSpec == MenusInit /\ [][MenusNext]_menuVars

-----------------------------------------------------------------------------
(* Properties. *)

\* Whoever has joined and has a menu, as m_bInitedForPlayer says, was last sent the
\* text the menu has now, whatever was changed, destroyed and made again under the
\* same id, shown to an empty slot or in the callbacks of a join, and whoever left
\* and joined; so a client is never shown an outdated menu.
TextIsCurrent ==
    \A m \in active : \A p \in (inited[m] \cap online) \ connecting : has[p][m] = text[m]

\* Scripts hear of at most one answer for each time they show or hide a menu,
\* although the player may answer one menu twice, and one while the next is on its
\* way.
OneAnswerPerMenu == \A p \in Players : answers[p] =< 1
=============================================================================
