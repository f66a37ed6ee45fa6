---------------------------- MODULE MCScriptItems ----------------------------
(* Instance of ScriptItems for TLC: two players, two pickups of which one is a
   player's, one text draw with two texts.  The pools share nothing but the clients and
   the restarts, so that one of them is in use at a time. *)
EXTENDS ScriptItems

TopId == {1}

NoPickups ==
    /\ Active = {} /\ \A p \in Players : handles[p] = {} /\ count[p] = 0
    /\ \A p \in Players : /\ OnWay(p) \cap PickupMessages = {}
                           /\ \A i \in Ids : <<"pickups", i>> \notin crossed[p]
NoTextDraws ==
    /\ texts = NoTexts /\ \A p \in Players : drawn[p] = NoTexts
    /\ \A p \in Players : /\ OnWay(p) \cap TextMessages = {}
                           /\ \A w \in TextDraws : <<"textdraws", w>> \notin crossed[p]

MCSpec == Init /\ [][Next /\ (NoPickups \/ NoTextDraws)']_vars
=============================================================================
