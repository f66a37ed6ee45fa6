-------------------------- MODULE ScriptItemsProofs --------------------------
(***************************************************************************)
(* Proofs about ScriptItems, for any numbers of players, pickups and text  *)
(* draws, any texts and any bound on the messages on their way.            *)
(*                                                                         *)
(* Both properties are about clients at which everything has arrived.      *)
(* They become inductive when they say what is on its way as well: that a  *)
(* message about an item that was not crossed will leave the client as the *)
(* property wants it.  A message that is sent makes the earlier ones about *)
(* its item wrong, and the item is then crossed, or there were none.       *)
(***************************************************************************)
EXTENDS ScriptItems, FiniteSetTheorems, TLAPS

Messages == PickupMessages \cup TextMessages \cup {Restart}

\* Mail is typed, and there is none for a client that is gone.
MailInv ==
    /\ ArrivalsTypeOK
    /\ \A p \in Players : OnWay(p) \subseteq Messages
    /\ \A p \in Players \ online : OnWay(p) = {}

-----------------------------------------------------------------------------
(* Messages and mail. *)

LEMMA MessagesDiffer ==
    /\ \A i, j : /\ ShowPickup(i) # HidePickup(j)
                 /\ ShowPickup(i) = ShowPickup(j) => i = j
                 /\ HidePickup(i) = HidePickup(j) => i = j
    /\ \A i : /\ Item(ShowPickup(i)) = <<"pickups", i>> /\ ShowPickup(i) # Restart
              /\ Item(HidePickup(i)) = <<"pickups", i>> /\ HidePickup(i) # Restart
    /\ \A w, t : /\ Item(ShowText(w, t)) = <<"textdraws", w>> /\ ShowText(w, t) # Restart
                 /\ Item(EditText(w, t)) = <<"textdraws", w>> /\ EditText(w, t) # Restart
                 /\ Item(HideText(w)) = <<"textdraws", w>> /\ HideText(w) # Restart
    /\ \A w, v, t, u : /\ ShowText(w, t) # HideText(v) /\ EditText(w, t) # HideText(v)
                       /\ ShowText(w, t) # EditText(v, u)
                       /\ ShowText(w, t) = ShowText(v, u) => t = u
                       /\ EditText(w, t) = EditText(v, u) => t = u
    /\ \A i, w : <<"pickups", i>> # <<"textdraws", w>>
<1>1. \A i, j : /\ ShowPickup(i).say = "show" /\ HidePickup(j).say = "hide"
                /\ ShowPickup(i).id = i /\ HidePickup(i).id = i
                /\ ShowPickup(i).pool = "pickups" /\ HidePickup(i).pool = "pickups"
  BY DEF ShowPickup, HidePickup
<1>2. \A w, t : /\ ShowText(w, t).say = "show" /\ EditText(w, t).say = "edit"
                /\ HideText(w).say = "hide"
                /\ ShowText(w, t).id = w /\ EditText(w, t).id = w /\ HideText(w).id = w
                /\ ShowText(w, t).text = t /\ EditText(w, t).text = t
                /\ ShowText(w, t).pool = "textdraws" /\ EditText(w, t).pool = "textdraws"
                /\ HideText(w).pool = "textdraws"
  BY DEF ShowText, EditText, HideText
<1>3. Restart.pool = "all"
  BY DEF Restart
<1>4. \A i, j : /\ ShowPickup(i) # HidePickup(j)
                /\ ShowPickup(i) = ShowPickup(j) => i = j
                /\ HidePickup(i) = HidePickup(j) => i = j
  <2> SUFFICES ASSUME NEW i, NEW j
               PROVE  /\ ShowPickup(i) # HidePickup(j)
                      /\ ShowPickup(i) = ShowPickup(j) => i = j
                      /\ HidePickup(i) = HidePickup(j) => i = j
    OBVIOUS
  <2>1. /\ ShowPickup(i).say # HidePickup(j).say
        /\ ShowPickup(i).id = i /\ ShowPickup(j).id = j
        /\ HidePickup(i).id = i /\ HidePickup(j).id = j
    BY <1>1
  <2>2. QED
    BY Zenon, <2>1
<1>5. \A i : /\ Item(ShowPickup(i)) = <<"pickups", i>> /\ ShowPickup(i) # Restart
             /\ Item(HidePickup(i)) = <<"pickups", i>> /\ HidePickup(i) # Restart
  <2> SUFFICES ASSUME NEW i
               PROVE  /\ Item(ShowPickup(i)) = <<"pickups", i>> /\ ShowPickup(i) # Restart
                      /\ Item(HidePickup(i)) = <<"pickups", i>> /\ HidePickup(i) # Restart
    OBVIOUS
  <2>1. /\ ShowPickup(i).pool # Restart.pool /\ HidePickup(i).pool # Restart.pool
        /\ ShowPickup(i).pool = "pickups" /\ HidePickup(i).pool = "pickups"
        /\ ShowPickup(i).id = i /\ HidePickup(i).id = i
    BY <1>1, <1>3
  <2>2. QED
    BY Zenon, <2>1 DEF Item
<1>6. \A w, t : /\ Item(ShowText(w, t)) = <<"textdraws", w>> /\ ShowText(w, t) # Restart
                /\ Item(EditText(w, t)) = <<"textdraws", w>> /\ EditText(w, t) # Restart
                /\ Item(HideText(w)) = <<"textdraws", w>> /\ HideText(w) # Restart
  <2> SUFFICES ASSUME NEW w, NEW t
               PROVE  /\ Item(ShowText(w, t)) = <<"textdraws", w>> /\ ShowText(w, t) # Restart
                      /\ Item(EditText(w, t)) = <<"textdraws", w>> /\ EditText(w, t) # Restart
                      /\ Item(HideText(w)) = <<"textdraws", w>> /\ HideText(w) # Restart
    OBVIOUS
  <2>1. /\ ShowText(w, t).pool = "textdraws" /\ EditText(w, t).pool = "textdraws"
        /\ HideText(w).pool = "textdraws"
        /\ ShowText(w, t).id = w /\ EditText(w, t).id = w /\ HideText(w).id = w
    BY <1>2
  <2>2. "textdraws" # Restart.pool
    BY <1>3
  <2>3. QED
    BY Zenon, <2>1, <2>2 DEF Item
<1>7. \A w, v, t, u : /\ ShowText(w, t) # HideText(v) /\ EditText(w, t) # HideText(v)
                      /\ ShowText(w, t) # EditText(v, u)
                      /\ ShowText(w, t) = ShowText(v, u) => t = u
                      /\ EditText(w, t) = EditText(v, u) => t = u
  <2> SUFFICES ASSUME NEW w, NEW v, NEW t, NEW u
               PROVE  /\ ShowText(w, t) # HideText(v) /\ EditText(w, t) # HideText(v)
                      /\ ShowText(w, t) # EditText(v, u)
                      /\ ShowText(w, t) = ShowText(v, u) => t = u
                      /\ EditText(w, t) = EditText(v, u) => t = u
    OBVIOUS
  <2>1. /\ ShowText(w, t).say # HideText(v).say /\ EditText(w, t).say # HideText(v).say
        /\ ShowText(w, t).say # EditText(v, u).say
        /\ ShowText(w, t).text = t /\ ShowText(v, u).text = u
        /\ EditText(w, t).text = t /\ EditText(v, u).text = u
    BY <1>2
  <2>2. QED
    BY Zenon, <2>1
<1>8. \A i, w : <<"pickups", i>> # <<"textdraws", w>>
  OBVIOUS
<1>9. QED
  BY Zenon, <1>4, <1>5, <1>6, <1>7, <1>8

\* What a bag holds after messages are added, and after one is taken out.
LEMMA Added ==
    ASSUME NEW B, NEW S, IsABag(B)
    PROVE  IsABag(B (+) SetToBag(S)) /\ BagToSet(B (+) SetToBag(S)) = BagToSet(B) \cup S
  BY DEF IsABag, BagToSet, SetToBag, (+)

LEMMA TakenOut ==
    ASSUME NEW B, NEW m, IsABag(B)
    PROVE  /\ IsABag(B (-) SetToBag({m}))
           /\ BagToSet(B (-) SetToBag({m})) \subseteq BagToSet(B)
           /\ BagToSet(B) \ {m} \subseteq BagToSet(B (-) SetToBag({m}))
  BY DEF IsABag, BagToSet, SetToBag, (-)

LEMMA PostAt ==
    ASSUME ArrivalsTypeOK, NEW P \in SUBSET Players, NEW S, Post(P, S)
    PROVE  /\ DOMAIN mail' = Players /\ \A p \in Players : IsABag(mail'[p])
           /\ \A p \in Players : OnWay(p)' = IF p \in P THEN OnWay(p) \cup S ELSE OnWay(p)
<1>1. \A p \in Players :
          mail'[p] = IF p \in P THEN mail[p] (+) SetToBag(S) ELSE mail[p]
  BY Zenon DEF Post
<1>2. DOMAIN mail' = Players
  BY Zenon DEF Post
<1>3. ASSUME NEW p \in Players
      PROVE  /\ IsABag(mail'[p])
             /\ OnWay(p)' = IF p \in P THEN OnWay(p) \cup S ELSE OnWay(p)
  <2>1. IsABag(mail[p])
    BY DEF ArrivalsTypeOK
  <2>2. PICK B : B = mail[p]
    OBVIOUS
  <2>3. IsABag(B (+) SetToBag(S)) /\ BagToSet(B (+) SetToBag(S)) = BagToSet(B) \cup S
    BY Zenon, <2>1, <2>2, Added
  <2>4. QED
    BY Zenon, <1>1, <2>1, <2>2, <2>3 DEF OnWay
<1>4. QED
  BY Zenon, <1>2, <1>3

\* After a message about item x was sent to p, and x is not crossed, there is none but it
\* on its way; about the other items everything is as it was.
Sent(P, S) ==
    /\ DOMAIN crossed' = Players
    /\ \A p \in Players \ P : crossed'[p] = crossed[p] /\ OnWay(p)' = OnWay(p)
    /\ \A p \in P : OnWay(p) \subseteq OnWay(p)'
    /\ \A p \in P, m \in S : Item(m) \notin crossed'[p] =>
           /\ m \in OnWay(p)'
           /\ \A n \in OnWay(p)' : Concerns(n, Item(m)) => n = m
    /\ \A p \in P : \A x : x \notin crossed'[p] /\ (\A m \in S : Item(m) # x) =>
           /\ x \notin crossed[p]
           /\ \A n \in OnWay(p)' : Concerns(n, x) => n \in OnWay(p)

LEMMA SendAt ==
    ASSUME ArrivalsTypeOK, NEW P \in SUBSET Players, NEW S, Send(P, S), Restart \notin S,
           \A m, n \in S : Item(m) = Item(n) => m = n
    PROVE  Sent(P, S)
<1>1. /\ \A p \in Players : OnWay(p)' = IF p \in P THEN OnWay(p) \cup S ELSE OnWay(p)
      /\ Post(P, S)
  BY PostAt DEF Send
<1>2. DOMAIN crossed' = Players /\ \A p \in Players \ P : crossed'[p] = crossed[p]
  BY Zenon DEF Send
<1>3. ASSUME NEW p \in P
      PROVE  crossed'[p] = {x \in crossed[p] : \A m \in S : ~(Item(m) = x /\ Alone(p, x))}
                               \cup {Item(m) : m \in {n \in S : Crosses(p, n)}}
  BY Zenon DEF Send
<1>4. \A m \in S : m # Restart
  OBVIOUS
<1>5. ASSUME NEW p \in P, NEW m \in S, Item(m) \notin crossed'[p]
      PROVE  /\ m \in OnWay(p)'
             /\ \A n \in OnWay(p)' : Concerns(n, Item(m)) => n = m
  <2>1. ~Crosses(p, m)
    BY Zenon, <1>3, <1>5
  <2>2. \A n \in OnWay(p) : Concerns(n, Item(m)) => n = m
    BY Zenon, <2>1 DEF Crosses
  <2>3. \A n \in S : Concerns(n, Item(m)) => n = m
    BY Zenon, <1>4 DEF Concerns
  <2>4. p \in Players /\ OnWay(p)' = OnWay(p) \cup S
    BY <1>1
  <2>5. QED
    BY Zenon, <2>2, <2>3, <2>4
<1>6. ASSUME NEW p \in P, NEW x, x \notin crossed'[p], \A m \in S : Item(m) # x
      PROVE  x \notin crossed[p] /\ \A n \in OnWay(p)' : Concerns(n, x) => n \in OnWay(p)
  <2>1. x \notin crossed[p]
    BY Zenon, <1>3, <1>6
  <2>2. \A n \in S : ~Concerns(n, x)
    BY Zenon, <1>4, <1>6 DEF Concerns
  <2>3. p \in Players /\ OnWay(p)' = OnWay(p) \cup S
    BY <1>1
  <2>4. QED
    BY Zenon, <2>1, <2>2, <2>3
<1>7. /\ \A p \in Players \ P : crossed'[p] = crossed[p] /\ OnWay(p)' = OnWay(p)
      /\ \A p \in P : OnWay(p) \subseteq OnWay(p)'
  BY <1>1, <1>2
<1>8. QED
  BY Zenon, <1>2, <1>5, <1>6, <1>7 DEF Sent

LEMMA SendRestartAt ==
    ASSUME ArrivalsTypeOK, NEW P \in SUBSET Players, SendRestart(P)
    PROVE  /\ DOMAIN crossed' = Players
           /\ \A p \in Players \ P : crossed'[p] = crossed[p] /\ OnWay(p)' = OnWay(p)
           /\ \A p \in P : Restart \in OnWay(p)'
           /\ \A p \in P : \A x : x \notin crossed'[p] =>
                  \A n \in OnWay(p)' : Concerns(n, x) => n = Restart
<1>1. /\ \A p \in Players :
              OnWay(p)' = IF p \in P THEN OnWay(p) \cup {Restart} ELSE OnWay(p)
      /\ Post(P, {Restart})
  BY PostAt DEF SendRestart
<1>2. DOMAIN crossed' = Players /\ \A p \in Players \ P : crossed'[p] = crossed[p]
  BY Zenon DEF SendRestart
<1>3. ASSUME NEW p \in P
      PROVE  \A m \in OnWay(p) \ {Restart} : Item(m) \in crossed'[p]
  BY Zenon DEF SendRestart
<1>4. ASSUME NEW p \in P, NEW x, x \notin crossed'[p], NEW n \in OnWay(p)', Concerns(n, x)
      PROVE  n = Restart
  <2>1. p \in Players /\ OnWay(p)' = OnWay(p) \cup {Restart}
    BY <1>1
  <2>2. QED
    BY Zenon, <1>3, <1>4, <2>1 DEF Concerns
<1>5. /\ \A p \in P : Restart \in OnWay(p)'
      /\ \A p \in Players \ P : OnWay(p)' = OnWay(p)
  BY <1>1
<1>6. QED
  BY Zenon, <1>2, <1>4, <1>5

LEMMA ArriveAt ==
    ASSUME ArrivalsTypeOK, NEW p \in Players, NEW m, Arrive(p, m)
    PROVE  /\ m \in OnWay(p) /\ crossed' = crossed
           /\ online' = online /\ slots' = slots /\ pending' = pending /\ up' = up
           /\ DOMAIN mail' = Players /\ \A q \in Players : IsABag(mail'[q])
           /\ \A q \in Players \ {p} : OnWay(q)' = OnWay(q)
           /\ OnWay(p)' \subseteq OnWay(p) /\ OnWay(p) \ {m} \subseteq OnWay(p)'
<1>1. /\ m \in OnWay(p) /\ crossed' = crossed
      /\ online' = online /\ slots' = slots /\ pending' = pending /\ up' = up
  BY DEF Arrive, peopleVars
<1>2. mail' = [mail EXCEPT ![p] = mail[p] (-) SetToBag({m})] /\ DOMAIN mail = Players
  BY DEF Arrive, ArrivalsTypeOK
<1>3. PICK B : B = mail[p]
  OBVIOUS
<1>4. IsABag(B) /\ \A q \in Players : IsABag(mail[q])
  BY <1>3 DEF ArrivalsTypeOK
<1>5. PICK C : C = B (-) SetToBag({m})
  OBVIOUS
<1>6. IsABag(C) /\ BagToSet(C) \subseteq BagToSet(B) /\ BagToSet(B) \ {m} \subseteq BagToSet(C)
  BY Zenon, <1>4, <1>5, TakenOut
<1>7. /\ DOMAIN mail' = Players /\ mail'[p] = C
      /\ \A q \in Players \ {p} : mail'[q] = mail[q]
  BY <1>2, <1>3, <1>5
<1>8. \A q \in Players : IsABag(mail'[q])
  BY Zenon, <1>4, <1>6, <1>7
<1>9. \A q \in Players \ {p} : OnWay(q)' = OnWay(q)
  BY Zenon, <1>7 DEF OnWay
<1>10. OnWay(p)' \subseteq OnWay(p) /\ OnWay(p) \ {m} \subseteq OnWay(p)'
  BY Zenon, <1>3, <1>6, <1>7 DEF OnWay
<1>11. QED
  BY <1>1, <1>7, <1>8, <1>9, <1>10

-----------------------------------------------------------------------------
(* The type of the mail. *)

LEMMA InitMailInv == Init => MailInv
  BY DEF Init, ArrivalsInit, MailInv, ArrivalsTypeOK, OnWay, IsABag, BagToSet, EmptyBag,
         SetToBag

LEMMA MessagesStay == Messages' = Messages
  BY DEF Messages, PickupMessages, TextMessages, Restart, ShowPickup, HidePickup, ShowText,
         EditText, HideText, Ids, TextDraws

LEMMA PostKeepsMailInv ==
    ASSUME MailInv, NEW P \in SUBSET online, NEW S \in SUBSET Messages, Post(P, S),
           DOMAIN crossed' = Players,
           online' = online, slots' = slots, pending' \subseteq pending, up' \in BOOLEAN
    PROVE  MailInv'
<1>1. ArrivalsTypeOK /\ P \in SUBSET Players
  BY DEF MailInv, ArrivalsTypeOK
<1>2. /\ DOMAIN mail' = Players /\ \A p \in Players : IsABag(mail'[p])
      /\ \A p \in Players : OnWay(p)' = IF p \in P THEN OnWay(p) \cup S ELSE OnWay(p)
  BY <1>1, PostAt
<1>3. /\ online \subseteq Players /\ slots \subseteq online /\ pending \subseteq slots
  BY DEF MailInv, ArrivalsTypeOK
<1>4. ArrivalsTypeOK'
  BY <1>2, <1>3 DEF ArrivalsTypeOK
<1>5. \A p \in Players : OnWay(p)' \subseteq Messages
  BY <1>2 DEF MailInv
<1>6. \A p \in Players \ online' : OnWay(p)' = {}
  BY <1>2 DEF MailInv
<1>7. Messages' = Messages
  BY MessagesStay
<1>8. QED
  BY <1>4, <1>5, <1>6, <1>7 DEF MailInv

LEMMA NoMailKeepsMailInv ==
    ASSUME MailInv, UNCHANGED mailVars, online \subseteq online', online' \subseteq Players,
           slots' \subseteq online', pending' \subseteq slots', up' \in BOOLEAN
    PROVE  MailInv'
<1>1. mail' = mail /\ crossed' = crossed
  BY DEF mailVars
<1>2. \A p \in Players : OnWay(p)' = OnWay(p)
  BY <1>1 DEF OnWay
<1>3. Messages' = Messages
  BY MessagesStay
<1>4. QED
  BY <1>1, <1>2, <1>3 DEF MailInv, ArrivalsTypeOK

LEMMA ArriveKeepsMailInv ==
    ASSUME MailInv, NEW p \in Players, NEW m, Arrive(p, m)
    PROVE  MailInv'
<1>1. ArrivalsTypeOK
  BY DEF MailInv
<1>2. /\ crossed' = crossed
      /\ online' = online /\ slots' = slots /\ pending' = pending /\ up' = up
      /\ DOMAIN mail' = Players /\ \A q \in Players : IsABag(mail'[q])
      /\ \A q \in Players \ {p} : OnWay(q)' = OnWay(q)
      /\ OnWay(p)' \subseteq OnWay(p)
  BY <1>1, ArriveAt
<1>3. \A q \in Players : OnWay(q)' \subseteq OnWay(q)
  BY <1>2
<1>4. QED
  BY <1>2, <1>3, MessagesStay DEF MailInv, ArrivalsTypeOK

LEMMA LeaveKeepsMailInv ==
    ASSUME MailInv, NEW p \in Players, Leave(p)
    PROVE  MailInv' /\ OnWay(p)' = {} /\ \A q \in Players \ {p} : OnWay(q)' = OnWay(q)
<1>1. /\ online' = online \ {p} /\ slots' = slots \ {p} /\ pending' = pending \ {p}
      /\ up' = up /\ mail' = [mail EXCEPT ![p] = EmptyBag]
      /\ crossed' = [crossed EXCEPT ![p] = {}]
  BY DEF Leave
<1>2. /\ online \subseteq Players /\ slots \subseteq online /\ pending \subseteq slots
      /\ up \in BOOLEAN /\ DOMAIN mail = Players /\ DOMAIN crossed = Players
      /\ \A q \in Players : IsABag(mail[q])
  BY DEF MailInv, ArrivalsTypeOK
<1>3. IsABag(EmptyBag) /\ BagToSet(EmptyBag) = {}
  BY DEF IsABag, BagToSet, EmptyBag, SetToBag
<1>4. /\ DOMAIN mail' = Players /\ DOMAIN crossed' = Players
      /\ mail'[p] = EmptyBag /\ \A q \in Players \ {p} : mail'[q] = mail[q]
  BY <1>1, <1>2
<1>5. OnWay(p)' = {} /\ \A q \in Players \ {p} : OnWay(q)' = OnWay(q)
  BY Zenon, <1>3, <1>4 DEF OnWay
<1>6. \A q \in Players : IsABag(mail'[q])
  BY Zenon, <1>2, <1>3, <1>4
<1>7. ArrivalsTypeOK'
  BY <1>1, <1>2, <1>4, <1>6 DEF ArrivalsTypeOK
<1>8. (\A q \in Players : OnWay(q)' \subseteq Messages)
      /\ \A q \in Players \ online' : OnWay(q)' = {}
  BY <1>1, <1>5 DEF MailInv
<1>9. QED
  BY <1>5, <1>7, <1>8, MessagesStay DEF MailInv

-----------------------------------------------------------------------------
(* Text draws. *)

\* Message n is right for text draw w, whose text is t and which the players of H have;
\* and so is what player p draws, d.
TextFits(n, w, t, p, H) ==
    \/ n = Restart
    \/ n = HideText(w)
    \/ t \in Strings /\ p \in H /\ (n = ShowText(w, t) \/ n = EditText(w, t))
TextRight(d, t, p, H) == d # NoText => d = t /\ p \in H

TextInv ==
    /\ MailInv /\ TextDrawsTypeOK
    /\ \A p \in Players \ online : drawn[p] = NoTexts
    /\ \A p \in online, w \in TextDraws : <<"textdraws", w>> \notin crossed[p] =>
          /\ \A n \in OnWay(p) :
                Concerns(n, <<"textdraws", w>>) => TextFits(n, w, texts[w], p, hasText[w])
          /\ Alone(p, <<"textdraws", w>>) => TextRight(drawn[p][w], texts[w], p, hasText[w])

LEMMA TextInvIsEnough == TextInv => TextDrawsAreCurrent
  BY DEF TextInv, TextDrawsAreCurrent, Settled, TextRight

LEMMA InitTextInv == Init => TextInv
<1>1. Init => TextDrawsTypeOK /\ \A p \in Players : drawn[p] = NoTexts
  BY DEF Init, ArrivalsInit, TextDrawsInit, TextDrawsTypeOK, NoTexts
<1>2. Init => online = {}
  BY DEF Init, ArrivalsInit
<1>3. QED
  BY <1>1, <1>2, InitMailInv DEF TextInv

\* A message about text draw w is sent to the clients of P; it is right for them, and the
\* others are not affected: they do not have the text, or keep it.
LEMMA SendText ==
    ASSUME TextInv, NEW P \in SUBSET online, NEW w \in TextDraws, NEW m \in Messages,
           Send(P, {m}), Item(m) = <<"textdraws", w>>, m # Restart,
           UNCHANGED peopleVars, drawn' = drawn,
           texts' \in [TextDraws -> Strings \cup {NoText}],
           hasText' \in [TextDraws -> SUBSET Players],
           \A v \in TextDraws \ {w} : texts'[v] = texts[v] /\ hasText'[v] = hasText[v],
           \A p \in P : TextFits(m, w, texts'[w], p, hasText'[w]),
           \A p \in online \ P :
               p \in hasText[w] => texts'[w] = texts[w] /\ p \in hasText'[w]
    PROVE  TextInv'
<1>1. /\ MailInv /\ ArrivalsTypeOK /\ TextDrawsTypeOK /\ online \subseteq Players
      /\ online' = online /\ P \in SUBSET Players
  BY DEF TextInv, MailInv, ArrivalsTypeOK, peopleVars
<1>2. Restart \notin {m} /\ \A n, k \in {m} : Item(n) = Item(k) => n = k
  OBVIOUS
<1>3. /\ DOMAIN crossed' = Players
      /\ \A p \in Players \ P : crossed'[p] = crossed[p] /\ OnWay(p)' = OnWay(p)
      /\ \A p \in P : OnWay(p) \subseteq OnWay(p)'
      /\ \A p \in P, k \in {m} : Item(k) \notin crossed'[p] =>
            /\ k \in OnWay(p)'
            /\ \A n \in OnWay(p)' : Concerns(n, Item(k)) => n = k
      /\ \A p \in P : \A x : x \notin crossed'[p] /\ (\A k \in {m} : Item(k) # x) =>
            /\ x \notin crossed[p]
            /\ \A n \in OnWay(p)' : Concerns(n, x) => n \in OnWay(p)
  <2>1. PICK S : S = {m}
    OBVIOUS
  <2>2. Send(P, S) /\ Restart \notin S /\ \A n, k \in S : Item(n) = Item(k) => n = k
    BY Zenon, <1>2, <2>1
  <2>3. Sent(P, S)
    BY <1>1, <2>2, SendAt
  <2>4. QED
    BY Zenon, <2>1, <2>3 DEF Sent
<1>4. MailInv'
  <2>1. Post(P, {m}) /\ {m} \in SUBSET Messages
    BY DEF Send
  <2>2. slots' = slots /\ pending' \subseteq pending /\ up' \in BOOLEAN
    BY <1>1 DEF peopleVars, ArrivalsTypeOK
  <2>3. QED
    BY <1>1, <1>3, <2>1, <2>2, PostKeepsMailInv
<1>5. TextDrawsTypeOK' /\ \A p \in Players \ online' : drawn'[p] = NoTexts'
  BY <1>1 DEF TextInv, TextDrawsTypeOK, NoTexts
<1>6. ASSUME NEW p \in online, NEW v \in TextDraws, <<"textdraws", v>> \notin crossed'[p]
      PROVE  /\ \A n \in OnWay(p)' : Concerns(n, <<"textdraws", v>>) =>
                    TextFits(n, v, texts'[v], p, hasText'[v])
             /\ Alone(p, <<"textdraws", v>>)' =>
                    TextRight(drawn'[p][v], texts'[v], p, hasText'[v])
  <2>1. CASE p \in P /\ v = w
    <3>1. m \in OnWay(p)' /\ \A n \in OnWay(p)' : Concerns(n, <<"textdraws", v>>) => n = m
      BY <1>3, <1>6, <2>1
    <3>2. \A n \in OnWay(p)' : Concerns(n, <<"textdraws", v>>) =>
              TextFits(n, v, texts'[v], p, hasText'[v])
      BY Zenon, <2>1, <3>1
    <3>3. ~Alone(p, <<"textdraws", v>>)'
      BY <2>1, <3>1 DEF Alone, Concerns
    <3>4. QED
      BY <3>2, <3>3
  <2>2. CASE ~(p \in P /\ v = w)
    <3>1. /\ <<"textdraws", v>> \notin crossed[p]
          /\ OnWay(p) \subseteq OnWay(p)'
          /\ \A n \in OnWay(p)' : Concerns(n, <<"textdraws", v>>) => n \in OnWay(p)
      BY <1>1, <1>3, <1>6, <2>2
    <3>2. /\ \A n \in OnWay(p) : Concerns(n, <<"textdraws", v>>) =>
                 TextFits(n, v, texts[v], p, hasText[v])
          /\ Alone(p, <<"textdraws", v>>) => TextRight(drawn[p][v], texts[v], p, hasText[v])
      BY Zenon, <3>1 DEF TextInv
    <3>3. p \in hasText[v] => texts'[v] = texts[v] /\ p \in hasText'[v]
      BY <2>2
    <3>4. \A n : TextFits(n, v, texts[v], p, hasText[v]) =>
                     TextFits(n, v, texts'[v], p, hasText'[v])
      BY Zenon, <3>3 DEF TextFits
    <3>5. TextRight(drawn[p][v], texts[v], p, hasText[v]) =>
              TextRight(drawn'[p][v], texts'[v], p, hasText'[v])
      BY Zenon, <3>3 DEF TextRight
    <3>6. Alone(p, <<"textdraws", v>>)' => Alone(p, <<"textdraws", v>>)
      BY Zenon, <3>1 DEF Alone
    <3>7. QED
      BY Zenon, <3>1, <3>2, <3>4, <3>5, <3>6
  <2>3. QED
    BY <2>1, <2>2
<1>7. QED
  BY Zenon, <1>1, <1>4, <1>5, <1>6 DEF TextInv

LEMMA TextMessagesOK ==
    ASSUME NEW w \in TextDraws
    PROVE  /\ HideText(w) \in Messages
           /\ \A t \in Strings : ShowText(w, t) \in Messages /\ EditText(w, t) \in Messages
  BY DEF Messages, TextMessages

LEMMA NativeTextInv ==
    ASSUME TextInv, TextDrawNative, UNCHANGED peopleVars
    PROVE  TextInv'
<1> USE MessagesDiffer, TextMessagesOK
<1>1. PICK w \in TextDraws :
          \/ \E t \in Strings : TextDrawCreate(w, t) \/ TextDrawSetString(w, t)
          \/ \E p \in Players : TextDrawShowForPlayer(p, w) \/ TextDrawHideForPlayer(p, w)
          \/ TextDrawShowForAll(w) \/ TextDrawHideForAll(w) \/ TextDrawDestroy(w)
  BY Zenon DEF TextDrawNative
<1>2. /\ TextDrawsTypeOK /\ MailInv
      /\ online' = online /\ online \subseteq Players /\ slots \subseteq online
      /\ slots' = slots /\ pending' = pending /\ up' = up
  BY DEF TextInv, MailInv, ArrivalsTypeOK, peopleVars
<1>3. /\ texts \in [TextDraws -> Strings \cup {NoText}] /\ NoText \notin Strings
      /\ hasText \in [TextDraws -> SUBSET Players]
      /\ HideText(w) \in Messages /\ Item(HideText(w)) = <<"textdraws", w>>
      /\ HideText(w) # Restart
  BY <1>2, TextDrawsAssumption DEF TextDrawsTypeOK
<1>4. ASSUME NEW t \in Strings, TextDrawCreate(w, t)
      PROVE  TextInv'
  <2>1. /\ texts[w] = NoText /\ drawn' = drawn /\ mail' = mail /\ crossed' = crossed
        /\ texts' = [texts EXCEPT ![w] = t] /\ hasText' = [hasText EXCEPT ![w] = {}]
    BY <1>4 DEF TextDrawCreate, mailVars
  <2>2. /\ texts' \in [TextDraws -> Strings \cup {NoText}]
        /\ hasText' \in [TextDraws -> SUBSET Players]
        /\ \A v \in TextDraws \ {w} : texts'[v] = texts[v] /\ hasText'[v] = hasText[v]
    BY <1>3, <2>1
  <2>3. MailInv' /\ TextDrawsTypeOK'
    <3>1. UNCHANGED mailVars /\ up' \in BOOLEAN /\ pending' \subseteq slots'
      BY <1>2, <2>1 DEF mailVars, MailInv, ArrivalsTypeOK
    <3>2. MailInv'
      BY <1>2, <3>1, NoMailKeepsMailInv
    <3>3. QED
      BY <1>2, <2>1, <2>2, <3>2 DEF TextDrawsTypeOK
  <2>4. \A p \in Players \ online' : drawn'[p] = NoTexts'
    BY <1>2, <2>1 DEF TextInv, NoTexts
  <2>5. ASSUME NEW p \in online, NEW v \in TextDraws, <<"textdraws", v>> \notin crossed[p]
        PROVE  /\ \A n \in OnWay(p) : Concerns(n, <<"textdraws", v>>) =>
                      TextFits(n, v, texts'[v], p, hasText'[v])
               /\ Alone(p, <<"textdraws", v>>) =>
                      TextRight(drawn[p][v], texts'[v], p, hasText'[v])
    <3>1. /\ \A n \in OnWay(p) : Concerns(n, <<"textdraws", v>>) =>
                 TextFits(n, v, texts[v], p, hasText[v])
          /\ Alone(p, <<"textdraws", v>>) => TextRight(drawn[p][v], texts[v], p, hasText[v])
      BY Zenon, <2>5 DEF TextInv
    <3>2. CASE v = w
      <4>1. texts[v] = NoText /\ NoText \notin Strings
        BY <1>3, <2>1, <3>2
      <4>2. \A n : TextFits(n, v, texts[v], p, hasText[v]) =>
                       TextFits(n, v, texts'[v], p, hasText'[v])
        BY Zenon, <4>1 DEF TextFits
      <4>3. TextRight(drawn[p][v], texts[v], p, hasText[v]) =>
                TextRight(drawn[p][v], texts'[v], p, hasText'[v])
        BY Zenon, <4>1 DEF TextRight
      <4>4. QED
        BY Zenon, <3>1, <4>2, <4>3
    <3>3. CASE v # w
      BY Zenon, <2>2, <3>1, <3>3
    <3>4. QED
      BY <3>2, <3>3
  <2>6. \A p \in Players : OnWay(p)' = OnWay(p)
    BY <2>1 DEF OnWay
  <2>7. \A p \in online : \A x : Alone(p, x)' <=> Alone(p, x)
    BY <1>2, <2>6 DEF Alone
  <2>8. QED
    BY Zenon, <1>2, <2>1, <2>3, <2>4, <2>5, <2>6, <2>7 DEF TextInv
<1>5. ASSUME NEW t \in Strings, TextDrawSetString(w, t)
      PROVE  TextInv'
  <2>1. PICK P : P = hasText[w] \cap online
    OBVIOUS
  <2>2. PICK m : m = EditText(w, t)
    OBVIOUS
  <2>3. /\ P \in SUBSET online /\ m \in Messages /\ Item(m) = <<"textdraws", w>>
        /\ m # Restart /\ Send(P, {m}) /\ drawn' = drawn
    BY <1>5, <2>1, <2>2 DEF TextDrawSetString
  <2>4. /\ texts' \in [TextDraws -> Strings \cup {NoText}] /\ hasText' = hasText
        /\ texts'[w] = t /\ \A v \in TextDraws \ {w} : texts'[v] = texts[v]
    BY <1>3, <1>5 DEF TextDrawSetString
  <2>5. \A p \in P : TextFits(m, w, texts'[w], p, hasText'[w])
    BY Zenon, <2>1, <2>2, <2>4 DEF TextFits
  <2>6. \A p \in online \ P : p \in hasText[w] => texts'[w] = texts[w] /\ p \in hasText'[w]
    BY <2>1
  <2>7. QED
    BY <1>3, <2>3, <2>4, <2>5, <2>6, SendText
<1>6. ASSUME NEW P \in SUBSET online, texts[w] # NoText, Send(P, {ShowText(w, texts[w])}),
             texts' = texts, drawn' = drawn, hasText' \in [TextDraws -> SUBSET Players],
             hasText[w] \cup P \subseteq hasText'[w],
             \A v \in TextDraws \ {w} : hasText'[v] = hasText[v]
      PROVE  TextInv'
  <2>1. PICK m : m = ShowText(w, texts[w])
    OBVIOUS
  <2>2. texts[w] \in Strings
    BY <1>3, <1>6
  <2>3. /\ m \in Messages /\ Item(m) = <<"textdraws", w>> /\ m # Restart /\ Send(P, {m})
    BY <1>6, <2>1, <2>2
  <2>4. \A p \in P : TextFits(m, w, texts'[w], p, hasText'[w])
    BY Zenon, <1>6, <2>1, <2>2 DEF TextFits
  <2>5. texts' \in [TextDraws -> Strings \cup {NoText}]
    BY <1>3, <1>6
  <2>6. QED
    BY <1>6, <2>3, <2>4, <2>5, SendText
<1>7. ASSUME NEW P \in SUBSET online, Send(P, {HideText(w)}), drawn' = drawn,
             texts' \in [TextDraws -> Strings \cup {NoText}],
             hasText' \in [TextDraws -> SUBSET Players],
             \A v \in TextDraws \ {w} : texts'[v] = texts[v] /\ hasText'[v] = hasText[v],
             \A p \in online \ P :
                 p \in hasText[w] => texts'[w] = texts[w] /\ p \in hasText'[w]
      PROVE  TextInv'
  <2>1. PICK m : m = HideText(w)
    OBVIOUS
  <2>2. m \in Messages /\ Item(m) = <<"textdraws", w>> /\ m # Restart /\ Send(P, {m})
    BY <1>3, <1>7, <2>1
  <2>3. \A p \in P : TextFits(m, w, texts'[w], p, hasText'[w])
    BY Zenon, <2>1 DEF TextFits
  <2>4. QED
    BY <1>7, <2>2, <2>3, SendText
<1>8. ASSUME NEW p \in Players, TextDrawShowForPlayer(p, w)
      PROVE  TextInv'
  <2>1. {p} \in SUBSET online /\ Send({p}, {ShowText(w, texts[w])})
    BY <1>2, <1>8 DEF TextDrawShowForPlayer
  <2>2. /\ hasText' \in [TextDraws -> SUBSET Players]
        /\ hasText[w] \cup {p} \subseteq hasText'[w]
        /\ \A v \in TextDraws \ {w} : hasText'[v] = hasText[v]
        /\ texts[w] # NoText /\ texts' = texts /\ drawn' = drawn
    BY <1>3, <1>8 DEF TextDrawShowForPlayer
  <2>3. QED
    BY <1>6, <2>1, <2>2
<1>9. ASSUME TextDrawShowForAll(w)
      PROVE  TextInv'
  <2>1. /\ hasText' \in [TextDraws -> SUBSET Players]
        /\ hasText[w] \cup online \subseteq hasText'[w]
        /\ \A v \in TextDraws \ {w} : hasText'[v] = hasText[v]
        /\ texts[w] # NoText /\ texts' = texts /\ drawn' = drawn
        /\ Send(online, {ShowText(w, texts[w])})
    BY <1>2, <1>3, <1>9 DEF TextDrawShowForAll
  <2>2. PICK P : P = online
    OBVIOUS
  <2>3. /\ P \in SUBSET online /\ Send(P, {ShowText(w, texts[w])})
        /\ hasText[w] \cup P \subseteq hasText'[w]
    BY Zenon, <2>1, <2>2
  <2>4. QED
    BY <1>6, <2>1, <2>3
<1>10. ASSUME NEW p \in Players, TextDrawHideForPlayer(p, w)
       PROVE  TextInv'
  <2>1. PICK P : P = {p} \cap hasText[w]
    OBVIOUS
  <2>2. P \in SUBSET online /\ Send(P, {HideText(w)}) /\ texts' = texts /\ drawn' = drawn
    BY <1>2, <1>10, <2>1 DEF TextDrawHideForPlayer
  <2>3. /\ hasText' \in [TextDraws -> SUBSET Players] /\ hasText'[w] = hasText[w] \ {p}
        /\ \A v \in TextDraws \ {w} : hasText'[v] = hasText[v]
    BY <1>3, <1>10 DEF TextDrawHideForPlayer
  <2>4. \A q \in online \ P : q \in hasText[w] => q \in hasText'[w]
    BY <2>1, <2>3
  <2>5. QED
    BY <1>3, <1>7, <2>2, <2>3, <2>4
<1>11. ASSUME TextDrawHideForAll(w) \/ TextDrawDestroy(w)
       PROVE  TextInv'
  <2>1. PICK P : P = hasText[w] \cap online
    OBVIOUS
  <2>2. P \in SUBSET online /\ Send(P, {HideText(w)}) /\ drawn' = drawn
    BY <1>11, <2>1 DEF TextDrawHideForAll, TextDrawDestroy, HideForAll
  <2>3. /\ hasText' \in [TextDraws -> SUBSET Players]
        /\ \A v \in TextDraws \ {w} : hasText'[v] = hasText[v]
    BY <1>3, <1>11 DEF TextDrawHideForAll, TextDrawDestroy, HideForAll
  <2>4. /\ texts' \in [TextDraws -> Strings \cup {NoText}]
        /\ \A v \in TextDraws \ {w} : texts'[v] = texts[v]
    BY <1>3, <1>11 DEF TextDrawHideForAll, TextDrawDestroy
  <2>5. \A q \in online \ P : q \notin hasText[w]
    BY <2>1
  <2>6. QED
    BY <1>7, <2>2, <2>3, <2>4, <2>5
<1>12. QED
  BY <1>1, <1>4, <1>5, <1>8, <1>9, <1>10, <1>11

\* Messages about something else are sent.
LEMMA SendKeepsTextInv ==
    ASSUME TextInv, MailInv', NEW P \in SUBSET online, NEW S, Send(P, S), Restart \notin S,
           \A m, n \in S : Item(m) = Item(n) => m = n,
           \A m \in S, w \in TextDraws : Item(m) # <<"textdraws", w>>,
           UNCHANGED textVars, online' = online
    PROVE  TextInv'
<1>1. /\ ArrivalsTypeOK /\ TextDrawsTypeOK /\ P \in SUBSET Players
      /\ online \subseteq Players
      /\ texts' = texts /\ hasText' = hasText /\ drawn' = drawn
  BY DEF TextInv, MailInv, ArrivalsTypeOK, textVars
<1>2. Sent(P, S)
  BY <1>1, SendAt
<1>3. TextDrawsTypeOK' /\ \A p \in Players \ online' : drawn'[p] = NoTexts'
  BY <1>1 DEF TextInv, TextDrawsTypeOK, NoTexts
<1>4. ASSUME NEW p \in online, NEW v \in TextDraws, <<"textdraws", v>> \notin crossed'[p]
      PROVE  /\ \A n \in OnWay(p)' : Concerns(n, <<"textdraws", v>>) =>
                    TextFits(n, v, texts[v], p, hasText[v])
             /\ Alone(p, <<"textdraws", v>>)' =>
                    TextRight(drawn[p][v], texts[v], p, hasText[v])
  <2>1. /\ <<"textdraws", v>> \notin crossed[p]
        /\ OnWay(p) \subseteq OnWay(p)'
        /\ \A n \in OnWay(p)' : Concerns(n, <<"textdraws", v>>) => n \in OnWay(p)
    BY <1>1, <1>2, <1>4 DEF Sent
  <2>2. /\ \A n \in OnWay(p) : Concerns(n, <<"textdraws", v>>) =>
               TextFits(n, v, texts[v], p, hasText[v])
        /\ Alone(p, <<"textdraws", v>>) => TextRight(drawn[p][v], texts[v], p, hasText[v])
    BY Zenon, <2>1 DEF TextInv
  <2>3. Alone(p, <<"textdraws", v>>)' => Alone(p, <<"textdraws", v>>)
    BY Zenon, <2>1 DEF Alone
  <2>4. QED
    BY Zenon, <2>1, <2>2, <2>3
<1>5. QED
  BY Zenon, <1>1, <1>3, <1>4 DEF TextInv

\* RPC_GameModeRestart is sent; those who are not told keep their text draws.
LEMMA RestartKeepsTextInv ==
    ASSUME TextInv, MailInv', NEW P \in SUBSET online, SendRestart(P), online' = online,
           TextDrawsTypeOK', drawn' = drawn,
           P = online \/ (texts' = texts /\ hasText' = hasText)
    PROVE  TextInv'
<1>1. ArrivalsTypeOK /\ P \in SUBSET Players /\ online \subseteq Players
  BY DEF TextInv, MailInv, ArrivalsTypeOK
<1>2. /\ \A p \in Players \ P : crossed'[p] = crossed[p] /\ OnWay(p)' = OnWay(p)
      /\ \A p \in P : Restart \in OnWay(p)'
      /\ \A p \in P : \A x : x \notin crossed'[p] =>
             \A n \in OnWay(p)' : Concerns(n, x) => n = Restart
  BY <1>1, SendRestartAt
<1>3. \A p \in Players \ online' : drawn'[p] = NoTexts'
  BY DEF TextInv, NoTexts
<1>4. ASSUME NEW p \in online, NEW v \in TextDraws, <<"textdraws", v>> \notin crossed'[p]
      PROVE  /\ \A n \in OnWay(p)' : Concerns(n, <<"textdraws", v>>) =>
                    TextFits(n, v, texts'[v], p, hasText'[v])
             /\ Alone(p, <<"textdraws", v>>)' =>
                    TextRight(drawn'[p][v], texts'[v], p, hasText'[v])
  <2>1. CASE p \in P
    <3>1. \A n \in OnWay(p)' : Concerns(n, <<"textdraws", v>>) => n = Restart
      BY Zenon, <1>2, <1>4, <2>1
    <3>2. ~Alone(p, <<"textdraws", v>>)'
      BY Zenon, <1>2, <2>1 DEF Alone, Concerns
    <3>3. QED
      BY Zenon, <3>1, <3>2 DEF TextFits
  <2>2. CASE p \notin P
    <3>1. /\ crossed'[p] = crossed[p] /\ OnWay(p)' = OnWay(p)
          /\ texts' = texts /\ hasText' = hasText
      BY <1>1, <1>2, <2>2
    <3>2. /\ \A n \in OnWay(p) : Concerns(n, <<"textdraws", v>>) =>
                 TextFits(n, v, texts[v], p, hasText[v])
          /\ Alone(p, <<"textdraws", v>>) => TextRight(drawn[p][v], texts[v], p, hasText[v])
      BY Zenon, <1>4, <3>1 DEF TextInv
    <3>3. Alone(p, <<"textdraws", v>>)' <=> Alone(p, <<"textdraws", v>>)
      BY Zenon, <3>1 DEF Alone
    <3>4. QED
      BY Zenon, <3>1, <3>2, <3>3
  <2>3. QED
    BY <2>1, <2>2
<1>5. QED
  BY Zenon, <1>3, <1>4 DEF TextInv

LEMMA ReceiveTextInv ==
    ASSUME TextInv, NEW p \in Players, NEW m, Receive(p, m)
    PROVE  TextInv'
<1>1. ArrivalsTypeOK /\ MailInv /\ TextDrawsTypeOK /\ Arrive(p, m) /\ online \subseteq Players
  BY DEF TextInv, MailInv, ArrivalsTypeOK, Receive
<1>2. /\ m \in OnWay(p) /\ crossed' = crossed /\ online' = online
      /\ \A q \in Players \ {p} : OnWay(q)' = OnWay(q)
      /\ OnWay(p)' \subseteq OnWay(p) /\ OnWay(p) \ {m} \subseteq OnWay(p)'
  BY <1>1, ArriveAt
<1>3. MailInv'
  BY <1>1, ArriveKeepsMailInv
<1>4. p \in online
  BY <1>2 DEF TextInv, MailInv
<1>5. texts' = texts /\ hasText' = hasText
  BY DEF Receive, ReceiveText, textVars, ResetTextDrawPool
\* What p draws where m is about it, and elsewhere.
<1>6. /\ TextDrawsTypeOK'
      /\ \A q \in Players \ {p} : drawn'[q] = drawn[q]
      /\ \A v \in TextDraws :
            /\ ~Concerns(m, <<"textdraws", v>>) => drawn'[p][v] = drawn[p][v]
            /\ Concerns(m, <<"textdraws", v>>) /\ TextFits(m, v, texts[v], p, hasText[v])
                  => TextRight(drawn'[p][v], texts[v], p, hasText[v])
  <2>1. CASE \E w \in TextDraws, t \in Strings :
                 /\ m = ShowText(w, t) \/ (m = EditText(w, t) /\ drawn[p][w] # NoText)
                 /\ drawn' = [drawn EXCEPT ![p][w] = t]
    <3>1. PICK w \in TextDraws, t \in Strings :
                 /\ m = ShowText(w, t) \/ (m = EditText(w, t) /\ drawn[p][w] # NoText)
                 /\ drawn' = [drawn EXCEPT ![p][w] = t]
      BY <2>1
    <3>2. /\ TextDrawsTypeOK' /\ \A q \in Players \ {p} : drawn'[q] = drawn[q]
          /\ drawn'[p][w] = t /\ \A v \in TextDraws \ {w} : drawn'[p][v] = drawn[p][v]
      BY <1>1, <1>5, <3>1 DEF TextDrawsTypeOK
    <3>3. Concerns(m, <<"textdraws", w>>)
      BY <3>1, MessagesDiffer DEF Concerns
    <3>4. TextFits(m, w, texts[w], p, hasText[w]) => t = texts[w] /\ p \in hasText[w]
      BY <3>1, MessagesDiffer DEF TextFits
    <3>5. \A v \in TextDraws \ {w} : ~Concerns(m, <<"textdraws", v>>)
      <4>1. Item(m) = <<"textdraws", w>> /\ m # Restart
        BY <3>1, MessagesDiffer
      <4>2. QED
        BY <4>1 DEF Concerns
    <3>6. \A v \in TextDraws :
            /\ ~Concerns(m, <<"textdraws", v>>) => drawn'[p][v] = drawn[p][v]
            /\ Concerns(m, <<"textdraws", v>>) /\ TextFits(m, v, texts[v], p, hasText[v])
                  => TextRight(drawn'[p][v], texts[v], p, hasText[v])
      BY Zenon, <3>2, <3>3, <3>4, <3>5 DEF TextRight
    <3>7. QED
      BY <3>2, <3>6
  <2>2. CASE \E w \in TextDraws, t \in Strings :
                 m = EditText(w, t) /\ drawn[p][w] = NoText /\ drawn' = drawn
    <3>1. PICK w \in TextDraws, t \in Strings :
                 m = EditText(w, t) /\ drawn[p][w] = NoText /\ drawn' = drawn
      BY <2>2
    <3>2. Item(m) = <<"textdraws", w>> /\ m # Restart
      BY Zenon, <3>1, MessagesDiffer
    <3>3. \A v \in TextDraws \ {w} : ~Concerns(m, <<"textdraws", v>>)
      BY <3>2 DEF Concerns
    <3>4. TextRight(drawn'[p][w], texts[w], p, hasText[w])
      BY Zenon, <3>1 DEF TextRight
    <3>5. TextDrawsTypeOK'
      BY <1>1, <1>5, <3>1 DEF TextDrawsTypeOK
    <3>6. QED
      BY Zenon, <3>1, <3>3, <3>4, <3>5
  <2>3. CASE \E w \in TextDraws :
                 m = HideText(w) /\ drawn' = [drawn EXCEPT ![p][w] = NoText]
    <3>1. PICK w \in TextDraws :
                 m = HideText(w) /\ drawn' = [drawn EXCEPT ![p][w] = NoText]
      BY <2>3
    <3>2. /\ TextDrawsTypeOK' /\ \A q \in Players \ {p} : drawn'[q] = drawn[q]
          /\ drawn'[p][w] = NoText /\ \A v \in TextDraws \ {w} : drawn'[p][v] = drawn[p][v]
      BY <1>1, <1>5, <3>1 DEF TextDrawsTypeOK
    <3>3. Item(m) = <<"textdraws", w>> /\ m # Restart
      BY Zenon, <3>1, MessagesDiffer
    <3>4. \A v \in TextDraws \ {w} : ~Concerns(m, <<"textdraws", v>>)
      BY <3>3 DEF Concerns
    <3>5. TextRight(drawn'[p][w], texts[w], p, hasText[w])
      BY Zenon, <3>2 DEF TextRight
    <3>6. Concerns(m, <<"textdraws", w>>)
      BY <3>3 DEF Concerns
    <3>7. QED
      BY Zenon, <3>2, <3>4, <3>5, <3>6
  <2>4. CASE \E i \in Ids : m = ShowPickup(i) \/ m = HidePickup(i)
    <3>1. drawn' = drawn
      <4>1. PICK i \in Ids : Item(m) = <<"pickups", i>> /\ m # Restart
        BY <2>4, MessagesDiffer
      <4>2. \A w, t : m # ShowText(w, t) /\ m # EditText(w, t) /\ m # HideText(w)
        BY <4>1, MessagesDiffer
      <4>3. UNCHANGED textVars
        BY <4>1, <4>2 DEF Receive, ReceiveText
      <4>4. QED
        BY <4>3 DEF textVars
    <3>2. \A v : ~Concerns(m, <<"textdraws", v>>)
      BY <2>4, MessagesDiffer DEF Concerns
    <3>3. TextDrawsTypeOK'
      BY <1>1, <1>5, <3>1 DEF TextDrawsTypeOK
    <3>4. QED
      BY Zenon, <3>1, <3>2, <3>3
  <2>5. CASE m = Restart /\ drawn' = [drawn EXCEPT ![p] = NoTexts]
    <3>1. /\ TextDrawsTypeOK' /\ \A q \in Players \ {p} : drawn'[q] = drawn[q]
          /\ \A v \in TextDraws : drawn'[p][v] = NoText
      BY <1>1, <1>5, <2>5 DEF TextDrawsTypeOK, NoTexts
    <3>2. \A v \in TextDraws : TextRight(drawn'[p][v], texts[v], p, hasText[v])
      BY Zenon, <3>1 DEF TextRight
    <3>3. \A v : Concerns(m, <<"textdraws", v>>)
      BY <2>5 DEF Concerns
    <3>4. QED
      BY Zenon, <3>1, <3>2, <3>3
  <2>6. QED
    BY Zenon, <2>1, <2>2, <2>3, <2>4, <2>5
       DEF Receive, ReceivePickup, ReceiveText, ResetTextDrawPool
<1>7. \A q \in Players \ online' : drawn'[q] = NoTexts'
  BY <1>2, <1>4, <1>6 DEF TextInv, NoTexts
<1>8. ASSUME NEW q \in online, NEW v \in TextDraws, <<"textdraws", v>> \notin crossed[q]
      PROVE  /\ \A n \in OnWay(q)' : Concerns(n, <<"textdraws", v>>) =>
                    TextFits(n, v, texts[v], q, hasText[v])
             /\ Alone(q, <<"textdraws", v>>)' =>
                    TextRight(drawn'[q][v], texts[v], q, hasText[v])
  <2>1. /\ \A n \in OnWay(q) : Concerns(n, <<"textdraws", v>>) =>
               TextFits(n, v, texts[v], q, hasText[v])
        /\ Alone(q, <<"textdraws", v>>) => TextRight(drawn[q][v], texts[v], q, hasText[v])
    BY Zenon, <1>8 DEF TextInv
  <2>2. OnWay(q)' \subseteq OnWay(q)
    BY <1>1, <1>2
  <2>3. CASE q # p
    <3>1. OnWay(q)' = OnWay(q) /\ drawn'[q] = drawn[q]
      BY <1>1, <1>2, <1>6, <2>3
    <3>2. Alone(q, <<"textdraws", v>>)' <=> Alone(q, <<"textdraws", v>>)
      BY Zenon, <3>1 DEF Alone
    <3>3. QED
      BY Zenon, <2>1, <3>1, <3>2
  <2>4. CASE q = p /\ Concerns(m, <<"textdraws", v>>)
    <3>1. TextFits(m, v, texts[v], q, hasText[v])
      BY Zenon, <1>2, <2>1, <2>4
    <3>2. QED
      BY Zenon, <1>6, <2>1, <2>2, <2>4, <3>1
  <2>5. CASE q = p /\ ~Concerns(m, <<"textdraws", v>>)
    <3>1. Alone(q, <<"textdraws", v>>)' => Alone(q, <<"textdraws", v>>)
      BY Zenon, <1>2, <2>5 DEF Alone
    <3>2. QED
      BY Zenon, <1>6, <2>1, <2>2, <2>5, <3>1
  <2>6. QED
    BY <2>3, <2>4, <2>5
<1>9. QED
  BY Zenon, <1>2, <1>3, <1>5, <1>6, <1>7, <1>8 DEF TextInv

-----------------------------------------------------------------------------
(* The pickups.  That a client shows nothing that is gone rests on its count: it is   *)
(* never less than what the client shows, so a Destroy is never refused.  That a      *)
(* client which counts what it shows has everything rests on the bound of the count:  *)
(* what is refused is refused by a client that counts a full pool, and one that shows *)
(* as many as that shows every id there is.                                           *)

\* Of a client, H is what it shows and c what it counts.
Counted(H, c) == H \subseteq Ids /\ c \in 0 .. MaxPickups /\ Cardinality(H) =< c

LEMMA IdsAreMany ==
    /\ IsFiniteSet(Ids) /\ Cardinality(Ids) = MaxPickups /\ Ids \subseteq Int
    /\ MaxPickups \in Nat
<1>1. MaxPickups \in Nat
  BY PickupsAssumption
<1>2. QED
  BY <1>1, FS_Interval DEF Ids

LEMMA CountedIsFinite ==
    ASSUME NEW H, NEW c, Counted(H, c)
    PROVE  IsFiniteSet(H) /\ Cardinality(H) \in Nat /\ c \in Nat /\ MaxPickups \in Nat
<1>1. H \subseteq Ids /\ c \in 0 .. MaxPickups /\ MaxPickups \in Nat /\ IsFiniteSet(Ids)
  BY IdsAreMany DEF Counted
<1>2. IsFiniteSet(H)
  BY <1>1, FS_Subset
<1>3. Cardinality(H) \in Nat
  BY <1>2, FS_CardinalityType
<1>4. QED
  BY <1>1, <1>2, <1>3

\* New: a client that counts what it shows afterwards did so before, and shows the pickup.
LEMMA NewCounts ==
    ASSUME NEW H, NEW c, Counted(H, c), NEW j \in Ids
    PROVE  /\ c < MaxPickups =>
                 /\ Counted(H \cup {j}, c + 1)
                 /\ c + 1 = Cardinality(H \cup {j}) => c = Cardinality(H)
           /\ ~(c < MaxPickups) => (c = Cardinality(H) => j \in H)
<1>1. /\ IsFiniteSet(H) /\ Cardinality(H) \in Nat /\ c \in Nat /\ MaxPickups \in Nat
  BY CountedIsFinite
<1>2. Cardinality(H \cup {j}) = IF j \in H THEN Cardinality(H) ELSE Cardinality(H) + 1
  BY <1>1, FS_AddElement
<1>3. H \subseteq Ids /\ Cardinality(H) =< c /\ c =< MaxPickups
  BY <1>1 DEF Counted
<1>4. ASSUME c < MaxPickups
      PROVE  /\ Counted(H \cup {j}, c + 1)
             /\ c + 1 = Cardinality(H \cup {j}) => c = Cardinality(H)
  <2>1. c + 1 \in 0 .. MaxPickups /\ H \cup {j} \subseteq Ids
    BY <1>1, <1>3, <1>4
  <2>2. PICK k : k = Cardinality(H \cup {j})
    OBVIOUS
  <2>3. k =< c + 1 /\ (c + 1 = k => c = Cardinality(H))
    BY <1>1, <1>2, <1>3, <2>2
  <2>4. QED
    BY <2>1, <2>2, <2>3 DEF Counted
<1>5. ASSUME ~(c < MaxPickups), c = Cardinality(H)
      PROVE  j \in H
  <2>1. Cardinality(H) = Cardinality(Ids)
    BY <1>1, <1>3, <1>5, IdsAreMany
  <2>2. H = Ids
    BY <1>3, <2>1, IdsAreMany, FS_Subset
  <2>3. QED
    BY <2>2
<1>6. QED
  BY <1>4, <1>5

\* Destroy: what was shown is gone, and the count stays as far off as it was.
LEMMA RemoveCounts ==
    ASSUME NEW H, NEW c, Counted(H, c), NEW j \in Ids
    PROVE  /\ c > 0 /\ j \in H =>
                 /\ Counted(H \ {j}, c - 1)
                 /\ c - 1 = Cardinality(H \ {j}) => c = Cardinality(H)
           /\ ~(c > 0 /\ j \in H) => j \notin H
<1>1. /\ IsFiniteSet(H) /\ Cardinality(H) \in Nat /\ c \in Nat /\ MaxPickups \in Nat
  BY CountedIsFinite
<1>2. H \subseteq Ids /\ Cardinality(H) =< c /\ c =< MaxPickups
  BY <1>1 DEF Counted
<1>3. ASSUME c > 0, j \in H
      PROVE  /\ Counted(H \ {j}, c - 1)
             /\ c - 1 = Cardinality(H \ {j}) => c = Cardinality(H)
  <2>1. Cardinality(H \ {j}) = Cardinality(H) - 1
    BY <1>1, <1>3, FS_RemoveElement
  <2>2. PICK k : k = Cardinality(H \ {j})
    OBVIOUS
  <2>3. c - 1 \in 0 .. MaxPickups /\ H \ {j} \subseteq Ids
    BY <1>1, <1>2, <1>3
  <2>4. k =< c - 1 /\ (c - 1 = k => c = Cardinality(H))
    BY <1>1, <1>2, <2>1, <2>2
  <2>5. QED
    BY <2>2, <2>3, <2>4 DEF Counted
<1>4. ASSUME j \in H
      PROVE  c > 0
  <2>1. Cardinality(H) # 0
    BY <1>1, <1>4, FS_EmptySet
  <2>2. QED
    BY <1>1, <1>2, <2>1
<1>5. QED
  BY <1>3, <1>4

\* Message n is right for pickup i, where A holds those there are and the players of V
\* were given all; and so is what player p shows, H, and counts, c.
PickupFits(n, i, A, p, V) == /\ n = ShowPickup(i) => i \in A
                             /\ i \in A /\ p \in V => n = ShowPickup(i)
PickupRight(H, c, i, A, p, V) == /\ i \in H => i \in A
                                 /\ i \in A /\ p \in V /\ c = Cardinality(H) => i \in H

PickupInv ==
    /\ MailInv /\ PickupsTypeOK
    /\ pickups \cap static = {} /\ Active \cap ScriptIds = {}
    /\ ~up => Active = {}
    /\ \A p \in Players : Counted(handles[p], count[p])
    /\ \A p \in Players \ online : handles[p] = {} /\ count[p] = 0
    /\ \A p \in online, i \in Ids \ ScriptIds : <<"pickups", i>> \notin crossed[p] =>
          /\ \A n \in OnWay(p) :
                Concerns(n, <<"pickups", i>>) => PickupFits(n, i, Active, p, slots \ pending)
          /\ Alone(p, <<"pickups", i>>) =>
                PickupRight(handles[p], count[p], i, Active, p, slots \ pending)

LEMMA PickupInvIsEnough == PickupInv => ClientsShowPickups
  BY Zenon DEF PickupInv, ClientsShowPickups, Settled, PickupRight

LEMMA InitPickupInv == Init => PickupInv
<1> SUFFICES ASSUME Init
             PROVE  PickupInv
  OBVIOUS
<1>1. /\ online = {} /\ pickups = {} /\ static = {} /\ up = TRUE
      /\ handles = [p \in Players |-> {}] /\ count = [p \in Players |-> 0]
  BY DEF Init, ArrivalsInit, PickupsInit
<1>2. MailInv /\ Cardinality({}) = 0 /\ MaxPickups \in Nat
  BY InitMailInv, FS_EmptySet, IdsAreMany
<1>3. QED
  BY <1>1, <1>2 DEF PickupInv, PickupsTypeOK, Active, Counted

\* Messages are sent to the clients of P, right for them, and the others are not affected.
LEMMA SendPickups ==
    ASSUME PickupInv, MailInv', NEW P \in SUBSET online, NEW S, Send(P, S), Restart \notin S,
           \A m, n \in S : Item(m) = Item(n) => m = n,
           online' = online, handles' = handles, count' = count,
           pickups' \subseteq Ids, static' \subseteq Ids, pickups' \cap static' = {},
           Active' \cap ScriptIds = {}, ~up' => Active' = {},
           \A p \in P, m \in S, i \in Ids \ ScriptIds : Item(m) = <<"pickups", i>> =>
               PickupFits(m, i, Active', p, slots' \ pending'),
           \A p \in online, i \in Ids \ ScriptIds :
               (p \in P => \A m \in S : Item(m) # <<"pickups", i>>) =>
                   /\ i \in Active' <=> i \in Active
                   /\ p \in slots' \ pending' /\ i \in Active' => p \in slots \ pending
    PROVE  PickupInv'
<1>1. /\ ArrivalsTypeOK /\ PickupsTypeOK /\ P \in SUBSET Players
      /\ online \subseteq Players
  BY DEF PickupInv, MailInv, ArrivalsTypeOK
<1>2. Sent(P, S)
  BY <1>1, SendAt
<1>3. /\ PickupsTypeOK' /\ \A p \in Players : Counted(handles'[p], count'[p])
      /\ \A p \in Players \ online' : handles'[p] = {} /\ count'[p] = 0
  BY <1>1 DEF PickupInv, PickupsTypeOK
<1>4. ASSUME NEW p \in online, NEW i \in Ids \ ScriptIds, <<"pickups", i>> \notin crossed'[p]
      PROVE  /\ \A n \in OnWay(p)' : Concerns(n, <<"pickups", i>>) =>
                    PickupFits(n, i, Active', p, slots' \ pending')
             /\ Alone(p, <<"pickups", i>>)' =>
                    PickupRight(handles[p], count[p], i, Active', p, slots' \ pending')
  <2>1. CASE p \in P /\ \E m \in S : Item(m) = <<"pickups", i>>
    <3>1. PICK m \in S : Item(m) = <<"pickups", i>>
      BY <2>1
    <3>2. m \in OnWay(p)' /\ \A n \in OnWay(p)' : Concerns(n, <<"pickups", i>>) => n = m
      <4>1. p \in P /\ Item(m) \notin crossed'[p]
        BY <1>4, <2>1, <3>1
      <4>2. m \in OnWay(p)' /\ \A n \in OnWay(p)' : Concerns(n, Item(m)) => n = m
        BY <1>2, <4>1 DEF Sent
      <4>3. QED
        BY <3>1, <4>2
    <3>3. PickupFits(m, i, Active', p, slots' \ pending')
      BY Zenon, <2>1, <3>1
    <3>4. ~Alone(p, <<"pickups", i>>)'
      BY Zenon, <3>1, <3>2 DEF Alone, Concerns
    <3>5. QED
      BY Zenon, <3>2, <3>3, <3>4
  <2>2. CASE p \in P => \A m \in S : Item(m) # <<"pickups", i>>
    <3>1. /\ <<"pickups", i>> \notin crossed[p]
          /\ OnWay(p) \subseteq OnWay(p)'
          /\ \A n \in OnWay(p)' : Concerns(n, <<"pickups", i>>) => n \in OnWay(p)
      BY <1>1, <1>2, <1>4, <2>2 DEF Sent
    <3>2. /\ \A n \in OnWay(p) : Concerns(n, <<"pickups", i>>) =>
                 PickupFits(n, i, Active, p, slots \ pending)
          /\ Alone(p, <<"pickups", i>>) =>
                 PickupRight(handles[p], count[p], i, Active, p, slots \ pending)
      BY Zenon, <3>1 DEF PickupInv
    <3>3. /\ i \in Active' <=> i \in Active
          /\ p \in slots' \ pending' /\ i \in Active' => p \in slots \ pending
      BY Zenon, <2>2
    <3>4. \A n : PickupFits(n, i, Active, p, slots \ pending) =>
                     PickupFits(n, i, Active', p, slots' \ pending')
      BY Zenon, <3>3 DEF PickupFits
    <3>5. PickupRight(handles[p], count[p], i, Active, p, slots \ pending) =>
              PickupRight(handles[p], count[p], i, Active', p, slots' \ pending')
      BY Zenon, <3>3 DEF PickupRight
    <3>6. Alone(p, <<"pickups", i>>)' => Alone(p, <<"pickups", i>>)
      BY Zenon, <3>1 DEF Alone
    <3>7. QED
      BY Zenon, <3>1, <3>2, <3>4, <3>5, <3>6
  <2>3. QED
    BY <2>1, <2>2
<1>5. QED
  BY Zenon, <1>3, <1>4 DEF PickupInv

LEMMA RestartKeepsPickupInv ==
    ASSUME PickupInv, MailInv', NEW P \in SUBSET online, SendRestart(P), online' = online,
           handles' = handles, count' = count, pickups' = {}, static' = {},
           P = online \/ Active = {}
    PROVE  PickupInv'
<1>1. /\ ArrivalsTypeOK /\ PickupsTypeOK /\ P \in SUBSET Players
      /\ online \subseteq Players
  BY DEF PickupInv, MailInv, ArrivalsTypeOK
<1>2. /\ \A p \in Players \ P : crossed'[p] = crossed[p] /\ OnWay(p)' = OnWay(p)
      /\ \A p \in P : Restart \in OnWay(p)'
      /\ \A p \in P : \A x : x \notin crossed'[p] =>
             \A n \in OnWay(p)' : Concerns(n, x) => n = Restart
  BY <1>1, SendRestartAt
<1>3. /\ PickupsTypeOK' /\ \A p \in Players : Counted(handles'[p], count'[p])
      /\ \A p \in Players \ online' : handles'[p] = {} /\ count'[p] = 0
      /\ Active' = {}
  BY <1>1 DEF PickupInv, PickupsTypeOK, Active
<1>4. ASSUME NEW p \in online, NEW i \in Ids \ ScriptIds, <<"pickups", i>> \notin crossed'[p]
      PROVE  /\ \A n \in OnWay(p)' : Concerns(n, <<"pickups", i>>) =>
                    PickupFits(n, i, Active', p, slots' \ pending')
             /\ Alone(p, <<"pickups", i>>)' =>
                    PickupRight(handles[p], count[p], i, Active', p, slots' \ pending')
  <2>1. CASE p \in P
    <3>1. \A n \in OnWay(p)' : Concerns(n, <<"pickups", i>>) => n = Restart
      BY Zenon, <1>2, <1>4, <2>1
    <3>2. ~Alone(p, <<"pickups", i>>)'
      BY Zenon, <1>2, <2>1 DEF Alone, Concerns
    <3>3. PickupFits(Restart, i, Active', p, slots' \ pending')
      BY <1>3, MessagesDiffer DEF PickupFits
    <3>4. QED
      BY Zenon, <3>1, <3>2, <3>3
  <2>2. CASE p \notin P
    <3>1. /\ crossed'[p] = crossed[p] /\ OnWay(p)' = OnWay(p) /\ Active = {}
      BY <1>1, <1>2, <2>2
    <3>2. /\ \A n \in OnWay(p) : Concerns(n, <<"pickups", i>>) =>
                 PickupFits(n, i, Active, p, slots \ pending)
          /\ Alone(p, <<"pickups", i>>) =>
                 PickupRight(handles[p], count[p], i, Active, p, slots \ pending)
      BY Zenon, <1>4, <3>1 DEF PickupInv
    <3>3. Alone(p, <<"pickups", i>>)' <=> Alone(p, <<"pickups", i>>)
      BY Zenon, <3>1 DEF Alone
    <3>4. i \notin Active /\ i \notin Active'
      BY <1>3, <3>1
    <3>5. \A n : PickupFits(n, i, Active, p, slots \ pending) =>
                     PickupFits(n, i, Active', p, slots' \ pending')
      BY Zenon, <3>4 DEF PickupFits
    <3>6. PickupRight(handles[p], count[p], i, Active, p, slots \ pending) =>
              PickupRight(handles[p], count[p], i, Active', p, slots' \ pending')
      BY Zenon, <3>4 DEF PickupRight
    <3>7. QED
      BY Zenon, <3>1, <3>2, <3>3, <3>5, <3>6
  <2>3. QED
    BY <2>1, <2>2
<1>5. pickups' \cap static' = {} /\ Active' \cap ScriptIds = {}
  BY <1>3
<1>6. QED
  BY Zenon, <1>3, <1>4, <1>5 DEF PickupInv

LEMMA ReceivePickupInv ==
    ASSUME PickupInv, NEW p \in Players, NEW m, Receive(p, m)
    PROVE  PickupInv'
<1>1. ArrivalsTypeOK /\ MailInv /\ PickupsTypeOK /\ Arrive(p, m) /\ online \subseteq Players
  BY DEF PickupInv, MailInv, ArrivalsTypeOK, Receive
<1>2. /\ m \in OnWay(p) /\ crossed' = crossed /\ online' = online
      /\ slots' = slots /\ pending' = pending /\ up' = up
      /\ \A q \in Players \ {p} : OnWay(q)' = OnWay(q)
      /\ OnWay(p)' \subseteq OnWay(p) /\ OnWay(p) \ {m} \subseteq OnWay(p)'
  BY <1>1, ArriveAt
<1>3. MailInv'
  BY <1>1, ArriveKeepsMailInv
<1>4. p \in online
  BY <1>2 DEF PickupInv, MailInv
<1>5. pickups' = pickups /\ static' = static /\ Active' = Active
  BY DEF Receive, ReceivePickup, pickupVars, ResetPickupPool, Active
<1>6. PICK H, c : H = handles[p] /\ c = count[p]
  OBVIOUS
<1>7. Counted(H, c) /\ \A q \in Players : Counted(handles[q], count[q])
  BY <1>6 DEF PickupInv
\* What p shows and counts where m is about it, and elsewhere.
<1>8. \E K, d : /\ handles' = [handles EXCEPT ![p] = K] /\ count' = [count EXCEPT ![p] = d]
                /\ Counted(K, d)
                /\ \A i \in Ids :
                      /\ ~Concerns(m, <<"pickups", i>>) =>
                            /\ i \in K <=> i \in H
                            /\ d = Cardinality(K) => c = Cardinality(H)
                      /\ Concerns(m, <<"pickups", i>>)
                             /\ PickupFits(m, i, Active, p, slots \ pending)
                         => PickupRight(K, d, i, Active, p, slots \ pending)
  <2>1. ASSUME handles' = handles, count' = count
        PROVE  handles' = [handles EXCEPT ![p] = H] /\ count' = [count EXCEPT ![p] = c]
    BY <1>1, <1>6, <2>1 DEF PickupsTypeOK
  <2>2. CASE \E j \in Ids : m = ShowPickup(j) /\ NewPickup(p, j)
    <3>1. PICK j \in Ids : m = ShowPickup(j) /\ NewPickup(p, j)
      BY <2>2
    <3>2. Item(m) = <<"pickups", j>> /\ m # Restart
      BY <3>1, MessagesDiffer
    <3>3. \A i \in Ids : Concerns(m, <<"pickups", i>>) <=> i = j
      BY <3>2 DEF Concerns
    <3>4. PickupFits(m, j, Active, p, slots \ pending) => j \in Active
      BY Zenon, <3>1 DEF PickupFits
    <3>5. CASE c < MaxPickups
      <4>1. PICK K, d : K = H \cup {j} /\ d = c + 1
        OBVIOUS
      <4>2. handles' = [handles EXCEPT ![p] = K] /\ count' = [count EXCEPT ![p] = d]
        BY <1>6, <3>1, <3>5, <4>1 DEF NewPickup
      <4>3. Counted(K, d) /\ (d = Cardinality(K) => c = Cardinality(H))
        BY Zenon, <1>7, <3>5, <4>1, NewCounts
      <4>4. PickupFits(m, j, Active, p, slots \ pending) =>
                PickupRight(K, d, j, Active, p, slots \ pending)
        BY Zenon, <3>4, <4>1 DEF PickupRight
      <4>5. \A i \in Ids : i # j => (i \in K <=> i \in H)
        BY <4>1
      <4>6. ASSUME NEW i \in Ids
            PROVE  /\ ~Concerns(m, <<"pickups", i>>) =>
                         /\ i \in K <=> i \in H
                         /\ d = Cardinality(K) => c = Cardinality(H)
                   /\ Concerns(m, <<"pickups", i>>)
                          /\ PickupFits(m, i, Active, p, slots \ pending)
                      => PickupRight(K, d, i, Active, p, slots \ pending)
        BY Zenon, <3>3, <4>3, <4>4, <4>5
      <4>7. QED
        BY Zenon, <4>2, <4>3, <4>6
    <3>6. CASE ~(c < MaxPickups)
      <4>1. handles' = handles /\ count' = count
        BY <1>6, <3>1, <3>6 DEF NewPickup
      <4>2. c = Cardinality(H) => j \in H
        BY Zenon, <1>7, <3>6, NewCounts
      <4>3. PickupFits(m, j, Active, p, slots \ pending) =>
                PickupRight(H, c, j, Active, p, slots \ pending)
        BY Zenon, <3>4, <4>2 DEF PickupRight
      <4>4. ASSUME NEW i \in Ids
            PROVE  /\ ~Concerns(m, <<"pickups", i>>) =>
                         /\ i \in H <=> i \in H
                         /\ c = Cardinality(H) => c = Cardinality(H)
                   /\ Concerns(m, <<"pickups", i>>)
                          /\ PickupFits(m, i, Active, p, slots \ pending)
                      => PickupRight(H, c, i, Active, p, slots \ pending)
        BY Zenon, <3>3, <4>3
      <4>5. QED
        BY Zenon, <1>7, <2>1, <4>1, <4>4
    <3>7. QED
      BY <3>5, <3>6
  <2>3. CASE \E j \in Ids : m = HidePickup(j) /\ RemovePickup(p, j)
    <3>1. PICK j \in Ids : m = HidePickup(j) /\ RemovePickup(p, j)
      BY <2>3
    <3>2. Item(m) = <<"pickups", j>> /\ m # Restart /\ m # ShowPickup(j)
      BY <3>1, MessagesDiffer
    <3>3. \A i \in Ids : Concerns(m, <<"pickups", i>>) <=> i = j
      BY <3>2 DEF Concerns
    <3>4. PickupFits(m, j, Active, p, slots \ pending) =>
              ~(j \in Active /\ p \in slots \ pending)
      BY Zenon, <3>2 DEF PickupFits
    <3>5. CASE c > 0 /\ j \in H
      <4>1. PICK K, d : K = H \ {j} /\ d = c - 1
        OBVIOUS
      <4>2. handles' = [handles EXCEPT ![p] = K] /\ count' = [count EXCEPT ![p] = d]
        BY <1>6, <3>1, <3>5, <4>1 DEF RemovePickup
      <4>3. Counted(K, d) /\ (d = Cardinality(K) => c = Cardinality(H))
        BY Zenon, <1>7, <3>5, <4>1, RemoveCounts
      <4>4. PickupFits(m, j, Active, p, slots \ pending) =>
                PickupRight(K, d, j, Active, p, slots \ pending)
        BY Zenon, <3>4, <4>1 DEF PickupRight
      <4>5. \A i \in Ids : i # j => (i \in K <=> i \in H)
        BY <4>1
      <4>6. ASSUME NEW i \in Ids
            PROVE  /\ ~Concerns(m, <<"pickups", i>>) =>
                         /\ i \in K <=> i \in H
                         /\ d = Cardinality(K) => c = Cardinality(H)
                   /\ Concerns(m, <<"pickups", i>>)
                          /\ PickupFits(m, i, Active, p, slots \ pending)
                      => PickupRight(K, d, i, Active, p, slots \ pending)
        BY Zenon, <3>3, <4>3, <4>4, <4>5
      <4>7. QED
        BY Zenon, <4>2, <4>3, <4>6
    <3>6. CASE ~(c > 0 /\ j \in H)
      <4>1. handles' = handles /\ count' = count
        BY <1>6, <3>1, <3>6 DEF RemovePickup
      <4>2. j \notin H
        BY Zenon, <1>7, <3>6, RemoveCounts
      <4>3. PickupFits(m, j, Active, p, slots \ pending) =>
                PickupRight(H, c, j, Active, p, slots \ pending)
        BY Zenon, <3>4, <4>2 DEF PickupRight
      <4>4. ASSUME NEW i \in Ids
            PROVE  /\ ~Concerns(m, <<"pickups", i>>) =>
                         /\ i \in H <=> i \in H
                         /\ c = Cardinality(H) => c = Cardinality(H)
                   /\ Concerns(m, <<"pickups", i>>)
                          /\ PickupFits(m, i, Active, p, slots \ pending)
                      => PickupRight(H, c, i, Active, p, slots \ pending)
        BY Zenon, <3>3, <4>3
      <4>5. QED
        BY Zenon, <1>7, <2>1, <4>1, <4>4
    <3>7. QED
      BY <3>5, <3>6
  <2>4. CASE /\ \E w \in TextDraws :
                    \/ m = HideText(w)
                    \/ \E t \in Strings : m = ShowText(w, t) \/ m = EditText(w, t)
             /\ handles' = handles /\ count' = count
    <3>1. PICK w : Item(m) = <<"textdraws", w>> /\ m # Restart
      BY <2>4, MessagesDiffer
    <3>2. \A i : ~Concerns(m, <<"pickups", i>>)
      BY <3>1 DEF Concerns
    <3>3. QED
      BY Zenon, <1>7, <2>1, <2>4, <3>2
  <2>5. CASE /\ m = Restart /\ handles' = [handles EXCEPT ![p] = {}]
             /\ count' = [count EXCEPT ![p] = 0]
    <3>1. Counted({}, 0)
      BY FS_EmptySet, IdsAreMany DEF Counted
    <3>2. \A i \in Ids : Concerns(m, <<"pickups", i>>)
      BY <2>5 DEF Concerns
    <3>3. \A i \in Ids : PickupFits(m, i, Active, p, slots \ pending) =>
              PickupRight({}, 0, i, Active, p, slots \ pending)
      <4>1. \A i : m # ShowPickup(i)
        BY <2>5, MessagesDiffer
      <4>2. QED
        BY Zenon, <4>1 DEF PickupFits, PickupRight
    <3>4. QED
      BY Zenon, <2>5, <3>1, <3>2, <3>3
  <2>6. CASE ReceivePickup(p, m)
    BY Zenon, <2>2, <2>3, <2>6 DEF ReceivePickup
  <2>7. CASE m = Restart /\ ResetPickupPool(p)
    BY Zenon, <2>5, <2>7 DEF ResetPickupPool
  <2>8. CASE ReceiveText(p, m) /\ UNCHANGED pickupVars
    <3>1. handles' = handles /\ count' = count
      BY <2>8 DEF pickupVars
    <3>2. \E w \in TextDraws :
              m = HideText(w) \/ \E t \in Strings : m = ShowText(w, t) \/ m = EditText(w, t)
      BY Zenon, <2>8 DEF ReceiveText
    <3>3. QED
      BY Zenon, <2>4, <3>1, <3>2
  <2>9. QED
    BY <2>6, <2>7, <2>8 DEF Receive
<1>9. PICK K, d : /\ handles' = [handles EXCEPT ![p] = K] /\ count' = [count EXCEPT ![p] = d]
                  /\ Counted(K, d)
                  /\ \A i \in Ids :
                      /\ ~Concerns(m, <<"pickups", i>>) =>
                            /\ i \in K <=> i \in H
                            /\ d = Cardinality(K) => c = Cardinality(H)
                      /\ Concerns(m, <<"pickups", i>>)
                             /\ PickupFits(m, i, Active, p, slots \ pending)
                         => PickupRight(K, d, i, Active, p, slots \ pending)
  BY Zenon, <1>8
<1>10. K \subseteq Ids /\ d \in 0 .. MaxPickups
  BY <1>9 DEF Counted
<1>11. /\ PickupsTypeOK' /\ handles'[p] = K /\ count'[p] = d
       /\ \A q \in Players \ {p} : handles'[q] = handles[q] /\ count'[q] = count[q]
  BY <1>1, <1>5, <1>9, <1>10 DEF PickupsTypeOK
<1>12. /\ \A q \in Players : Counted(handles'[q], count'[q])
       /\ \A q \in Players \ online' : handles'[q] = {} /\ count'[q] = 0
  BY <1>2, <1>4, <1>7, <1>9, <1>11 DEF PickupInv
<1>13. ASSUME NEW q \in online, NEW i \in Ids \ ScriptIds, <<"pickups", i>> \notin crossed[q]
       PROVE  /\ \A n \in OnWay(q)' : Concerns(n, <<"pickups", i>>) =>
                     PickupFits(n, i, Active, q, slots \ pending)
              /\ Alone(q, <<"pickups", i>>)' =>
                     PickupRight(handles'[q], count'[q], i, Active, q, slots \ pending)
  <2>1. /\ \A n \in OnWay(q) : Concerns(n, <<"pickups", i>>) =>
               PickupFits(n, i, Active, q, slots \ pending)
        /\ Alone(q, <<"pickups", i>>) =>
               PickupRight(handles[q], count[q], i, Active, q, slots \ pending)
    BY Zenon, <1>13 DEF PickupInv
  <2>2. OnWay(q)' \subseteq OnWay(q) /\ i \in Ids
    BY <1>1, <1>2
  <2>3. CASE q # p
    <3>1. OnWay(q)' = OnWay(q) /\ handles'[q] = handles[q] /\ count'[q] = count[q]
      BY <1>1, <1>2, <1>11, <2>3
    <3>2. Alone(q, <<"pickups", i>>)' <=> Alone(q, <<"pickups", i>>)
      BY Zenon, <3>1 DEF Alone
    <3>3. QED
      BY Zenon, <2>1, <3>1, <3>2
  <2>4. CASE q = p /\ Concerns(m, <<"pickups", i>>)
    <3>1. PickupFits(m, i, Active, q, slots \ pending)
      BY Zenon, <1>2, <2>1, <2>4
    <3>2. PickupRight(K, d, i, Active, p, slots \ pending)
      BY Zenon, <1>9, <2>2, <2>4, <3>1
    <3>3. QED
      BY Zenon, <1>11, <2>1, <2>2, <2>4, <3>2
  <2>5. CASE q = p /\ ~Concerns(m, <<"pickups", i>>)
    <3>1. Alone(q, <<"pickups", i>>)' => Alone(q, <<"pickups", i>>)
      BY Zenon, <1>2, <2>5 DEF Alone
    <3>2. /\ i \in K <=> i \in H
          /\ d = Cardinality(K) => c = Cardinality(H)
      BY Zenon, <1>9, <2>2, <2>5
    <3>3. PickupRight(H, c, i, Active, p, slots \ pending) =>
              PickupRight(K, d, i, Active, p, slots \ pending)
      BY Zenon, <3>2 DEF PickupRight
    <3>4. QED
      BY Zenon, <1>6, <1>11, <2>1, <2>2, <2>5, <3>1, <3>3
  <2>6. QED
    BY <2>3, <2>4, <2>5
<1>14. /\ pickups' \cap static' = {} /\ Active' \cap ScriptIds = {}
       /\ ~up' => Active' = {}
  BY <1>2, <1>5 DEF PickupInv
<1>15. QED
  BY Zenon, <1>2, <1>3, <1>5, <1>11, <1>12, <1>13, <1>14 DEF PickupInv

\* The pickups of A are shown to the clients of P, or hidden, as they are now there or not.
LEMMA PickupsSent ==
    ASSUME TextInv, PickupInv, NEW P \in SUBSET online, NEW A \in SUBSET Ids, NEW S,
           Send(P, S),
           \/ S = {ShowPickup(i) : i \in A} /\ \A i \in A \ ScriptIds : i \in Active'
           \/ S = {HidePickup(i) : i \in A} /\ \A i \in A \ ScriptIds : i \notin Active',
           UNCHANGED textVars, handles' = handles, count' = count,
           online' = online, slots' = slots, pending' \subseteq pending, up' = up,
           pickups' \subseteq Ids, static' \subseteq Ids, pickups' \cap static' = {},
           Active' \cap ScriptIds = {}, ~up' => Active' = {},
           \A p \in online, i \in Ids \ ScriptIds : (p \in P => i \notin A) =>
               /\ i \in Active' <=> i \in Active
               /\ p \in slots' \ pending' /\ i \in Active' => p \in slots \ pending
    PROVE  TextInv' /\ PickupInv'
<1>1. MailInv /\ up \in BOOLEAN
  BY DEF PickupInv, MailInv, ArrivalsTypeOK
<1>2. \A m \in S : \E i \in A : /\ Item(m) = <<"pickups", i>> /\ m # Restart
                                /\ m \in Messages
                                /\ \/ m = ShowPickup(i)
                                         /\ (i \notin ScriptIds => i \in Active')
                                   \/ m = HidePickup(i)
                                         /\ (i \notin ScriptIds => i \notin Active')
  <2>1. \A i \in A : ShowPickup(i) \in Messages /\ HidePickup(i) \in Messages
    BY DEF Messages, PickupMessages
  <2>2. QED
    BY <2>1, MessagesDiffer
<1>3. /\ S \in SUBSET Messages /\ Restart \notin S
      /\ \A m \in S, w \in TextDraws : Item(m) # <<"textdraws", w>>
  BY <1>2, MessagesDiffer
<1>4. \A m, n \in S : Item(m) = Item(n) => m = n
  <2> SUFFICES ASSUME NEW m \in S, NEW n \in S, Item(m) = Item(n)
               PROVE  m = n
    OBVIOUS
  <2>1. PICK i \in A, j \in A : \/ m = ShowPickup(i) /\ n = ShowPickup(j)
                                \/ m = HidePickup(i) /\ n = HidePickup(j)
    <3>1. CASE S = {ShowPickup(i) : i \in A}
      BY Zenon, <3>1
    <3>2. CASE S = {HidePickup(i) : i \in A}
      BY Zenon, <3>2
    <3>3. QED
      BY <3>1, <3>2
  <2>2. i = j
    BY <2>1, MessagesDiffer
  <2>3. QED
    BY Zenon, <2>1, <2>2
<1>5. MailInv'
  <2>1. Post(P, S) /\ DOMAIN crossed' = Players
    BY Zenon DEF Send
  <2>2. QED
    BY <1>1, <1>3, <2>1, PostKeepsMailInv
<1>6. TextInv'
  BY Zenon, <1>3, <1>4, <1>5, SendKeepsTextInv
<1>7. ASSUME NEW p \in P, NEW m \in S, NEW i \in Ids \ ScriptIds, Item(m) = <<"pickups", i>>
      PROVE  PickupFits(m, i, Active', p, slots' \ pending')
  <2>1. PICK j \in A : /\ Item(m) = <<"pickups", j>>
                       /\ \/ m = ShowPickup(j) /\ (j \notin ScriptIds => j \in Active')
                          \/ m = HidePickup(j) /\ (j \notin ScriptIds => j \notin Active')
    BY Zenon, <1>2
  <2>2. i = j /\ i \in A \ ScriptIds
    BY <1>7, <2>1
  <2>3. CASE m = ShowPickup(i) /\ i \in Active'
    BY Zenon, <2>3 DEF PickupFits
  <2>4. CASE m = HidePickup(i) /\ i \notin Active'
    <3>1. m # ShowPickup(i)
      BY <2>4, MessagesDiffer
    <3>2. QED
      BY Zenon, <2>4, <3>1 DEF PickupFits
  <2>5. QED
    BY Zenon, <2>1, <2>2, <2>3, <2>4
<1>8. ASSUME NEW p \in online, NEW i \in Ids \ ScriptIds,
             p \in P => \A m \in S : Item(m) # <<"pickups", i>>
      PROVE  /\ i \in Active' <=> i \in Active
             /\ p \in slots' \ pending' /\ i \in Active' => p \in slots \ pending
  <2>1. p \in P => i \notin A
    BY <1>8, MessagesDiffer
  <2>2. QED
    BY Zenon, <2>1
<1>9. PickupInv'
  BY Zenon, <1>3, <1>4, <1>5, <1>7, <1>8, SendPickups
<1>10. QED
  BY <1>6, <1>9

LEMMA PickupNativeInv ==
    ASSUME TextInv, PickupInv, PickupNative, UNCHANGED peopleVars, UNCHANGED textVars
    PROVE  TextInv' /\ PickupInv'
<1>1. /\ online' = online /\ slots' = slots /\ pending' = pending /\ up' = up
      /\ slots \subseteq online /\ ScriptIds \subseteq Ids
  BY PickupsAssumption DEF peopleVars, PickupInv, MailInv, ArrivalsTypeOK, Ids
<1>2. /\ pickups \subseteq Ids /\ static \subseteq Ids /\ pickups \cap static = {}
      /\ (pickups \cup static) \cap ScriptIds = {} /\ (~up => pickups \cup static = {})
  BY DEF PickupInv, PickupsTypeOK, Active
\* It is enough to say who is sent what and which pickups there are then.
<1>3. ASSUME NEW P \in SUBSET online, NEW A \in SUBSET Ids, NEW S, Send(P, S),
             handles' = handles, count' = count,
             \/ S = {ShowPickup(i) : i \in A}
                    /\ \A i \in A \ ScriptIds : i \in pickups' \cup static'
             \/ S = {HidePickup(i) : i \in A}
                    /\ \A i \in A \ ScriptIds : i \notin pickups' \cup static',
             pickups' \subseteq Ids, static' \subseteq Ids, pickups' \cap static' = {},
             (pickups' \cup static') \cap ScriptIds = {}, ~up => pickups' \cup static' = {},
             P = online \/ (pickups' = pickups /\ static' = static),
             \A i \in Ids \ A : i \in pickups' \cup static' <=> i \in pickups \cup static
      PROVE  TextInv' /\ PickupInv'
  <2>1. \A p \in online, i \in Ids \ ScriptIds : (p \in P => i \notin A) =>
            /\ i \in pickups' \cup static' <=> i \in pickups \cup static
            /\ p \in slots' \ pending' /\ i \in pickups' \cup static' => p \in slots \ pending
    BY <1>1, <1>3
  <2>2. Active' = pickups' \cup static' /\ Active = pickups \cup static
    BY DEF Active
  <2>3. pending' \subseteq pending
    BY <1>1
  <2>4. \/ S = {ShowPickup(i) : i \in A} /\ \A i \in A \ ScriptIds : i \in Active'
        \/ S = {HidePickup(i) : i \in A} /\ \A i \in A \ ScriptIds : i \notin Active'
    BY Zenon, <1>3, <2>2
  <2>5. /\ Active' \cap ScriptIds = {} /\ (~up' => Active' = {})
        /\ \A p \in online, i \in Ids \ ScriptIds : (p \in P => i \notin A) =>
               /\ i \in Active' <=> i \in Active
               /\ p \in slots' \ pending' /\ i \in Active' => p \in slots \ pending
    BY Zenon, <1>1, <1>3, <2>1, <2>2
  <2>6. QED
    BY Zenon, <1>1, <1>3, <2>3, <2>4, <2>5, PickupsSent
<1>4. ASSUME NEW i \in Ids, CreatePickup(i)
      PROVE  TextInv' /\ PickupInv'
  <2>1. PICK P, A, S : P = online /\ A = {i} /\ S = {ShowPickup(i)}
    OBVIOUS
  <2>2. /\ handles' = handles /\ count' = count /\ Send(P, S) /\ up
        /\ i \notin pickups \cup static /\ i \notin ScriptIds
        /\ \/ pickups' = pickups \cup {i} /\ static' = static
           \/ static' = static \cup {i} /\ pickups' = pickups
    BY <1>4, <2>1 DEF CreatePickup, Active
  <2>3. /\ pickups' \subseteq Ids /\ static' \subseteq Ids /\ pickups' \cap static' = {}
        /\ (pickups' \cup static') \cap ScriptIds = {}
    BY <1>2, <2>2
  <2>4. \A j \in Ids \ A : j \in pickups' \cup static' <=> j \in pickups \cup static
    BY <2>1, <2>2
  <2>5. S = {ShowPickup(j) : j \in A} /\ \A j \in A \ ScriptIds : j \in pickups' \cup static'
    BY <2>1, <2>2
  <2>6. QED
    BY <1>3, <2>1, <2>2, <2>3, <2>4, <2>5
<1>5. ASSUME NEW i \in Ids, DestroyPickup(i)
      PROVE  TextInv' /\ PickupInv'
  <2>1. PICK P, A, S : P = online /\ A = {i} /\ S = {HidePickup(i)}
    OBVIOUS
  <2>2. /\ handles' = handles /\ count' = count /\ Send(P, S) /\ up
        /\ i \in pickups /\ pickups' = pickups \ {i} /\ static' = static
    BY <1>5, <2>1 DEF DestroyPickup
  <2>3. /\ pickups' \subseteq Ids /\ static' \subseteq Ids /\ pickups' \cap static' = {}
        /\ (pickups' \cup static') \cap ScriptIds = {}
    BY <1>2, <2>2
  <2>4. \A j \in Ids \ A : j \in pickups' \cup static' <=> j \in pickups \cup static
    BY <2>1, <2>2
  <2>5. /\ S = {HidePickup(j) : j \in A}
        /\ \A j \in A \ ScriptIds : j \notin pickups' \cup static'
    BY <1>2, <2>1, <2>2
  <2>6. QED
    BY <1>3, <2>1, <2>2, <2>3, <2>4, <2>5
<1>6. ASSUME DestroyAllPickups
      PROVE  TextInv' /\ PickupInv'
  <2>1. PICK P, A, S : P = online /\ A = pickups /\ S = {HidePickup(i) : i \in pickups}
    OBVIOUS
  <2>2. /\ handles' = handles /\ count' = count /\ Send(P, S) /\ up
        /\ pickups' = {} /\ static' = static
    BY <1>6, <2>1 DEF DestroyAllPickups
  <2>3. /\ pickups' \subseteq Ids /\ static' \subseteq Ids /\ pickups' \cap static' = {}
        /\ (pickups' \cup static') \cap ScriptIds = {}
    BY <1>2, <2>2
  <2>4. \A j \in Ids \ A : j \in pickups' \cup static' <=> j \in pickups \cup static
    BY <2>1, <2>2
  <2>5. /\ S = {HidePickup(j) : j \in A}
        /\ \A j \in A \ ScriptIds : j \notin pickups' \cup static'
    BY <1>2, <2>1, <2>2
  <2>6. A \in SUBSET Ids
    BY <1>2, <2>1
  <2>7. QED
    BY <1>3, <2>1, <2>2, <2>3, <2>4, <2>5, <2>6
<1>7. ASSUME NEW p \in Players, NEW i \in ScriptIds,
             CreatePlayerPickup(p, i) \/ DestroyPlayerPickup(p, i)
      PROVE  TextInv' /\ PickupInv'
  <2>1. PICK P, A : P = {p} /\ A = {i}
    OBVIOUS
  <2>2. PICK S : Send(P, S) /\ (S = {ShowPickup(i)} \/ S = {HidePickup(i)})
    BY <1>7, <2>1 DEF CreatePlayerPickup, DestroyPlayerPickup
  <2>3. /\ p \in slots /\ handles' = handles /\ count' = count
        /\ pickups' = pickups /\ static' = static
    BY <1>7 DEF CreatePlayerPickup, DestroyPlayerPickup, pickupVars
  <2>4. /\ \/ S = {ShowPickup(j) : j \in A}
           \/ S = {HidePickup(j) : j \in A}
        /\ A \ ScriptIds = {}
    BY <2>1, <2>2
  <2>5. P \in SUBSET online /\ A \in SUBSET Ids
    BY <1>1, <2>1, <2>3
  <2>6. QED
    BY <1>2, <1>3, <2>2, <2>3, <2>4, <2>5
<1>8. QED
  BY <1>4, <1>5, <1>6, <1>7 DEF PickupNative

\* Nothing is sent or arrives, and nobody is given all the pickups.
LEMMA QuietPickupInv ==
    ASSUME PickupInv, MailInv', UNCHANGED mailVars, UNCHANGED pickupVars,
           online \subseteq online', slots' \ pending' \subseteq slots \ pending,
           ~up' => Active = {}
    PROVE  PickupInv'
<1>1. /\ mail' = mail /\ crossed' = crossed
      /\ handles' = handles /\ count' = count /\ pickups' = pickups /\ static' = static
      /\ Active' = Active
  BY DEF mailVars, pickupVars, Active
<1>2. \A p : OnWay(p)' = OnWay(p)
  BY <1>1 DEF OnWay
<1>3. \A p, x : Alone(p, x)' <=> Alone(p, x)
  BY Zenon, <1>2 DEF Alone
<1>4. /\ PickupsTypeOK' /\ online' \subseteq Players /\ slots \subseteq online
  BY <1>1 DEF PickupInv, PickupsTypeOK, MailInv, ArrivalsTypeOK
<1>5. ASSUME NEW p \in online', NEW i \in Ids \ ScriptIds, <<"pickups", i>> \notin crossed[p]
      PROVE  /\ \A n \in OnWay(p) : Concerns(n, <<"pickups", i>>) =>
                    PickupFits(n, i, Active, p, slots' \ pending')
             /\ Alone(p, <<"pickups", i>>) =>
                    PickupRight(handles[p], count[p], i, Active, p, slots' \ pending')
  <2>1. p \in slots' \ pending' => p \in slots \ pending
    OBVIOUS
  <2>2. CASE p \in online
    <3>1. /\ \A n \in OnWay(p) : Concerns(n, <<"pickups", i>>) =>
                 PickupFits(n, i, Active, p, slots \ pending)
          /\ Alone(p, <<"pickups", i>>) =>
                 PickupRight(handles[p], count[p], i, Active, p, slots \ pending)
      BY Zenon, <1>5, <2>2 DEF PickupInv
    <3>2. \A n : PickupFits(n, i, Active, p, slots \ pending) =>
                     PickupFits(n, i, Active, p, slots' \ pending')
      BY Zenon, <2>1 DEF PickupFits
    <3>3. PickupRight(handles[p], count[p], i, Active, p, slots \ pending) =>
              PickupRight(handles[p], count[p], i, Active, p, slots' \ pending')
      BY Zenon, <2>1 DEF PickupRight
    <3>4. QED
      BY Zenon, <3>1, <3>2, <3>3
  <2>3. CASE p \notin online
    <3>1. OnWay(p) = {} /\ handles[p] = {} /\ p \notin slots' \ pending'
      BY <1>4, <2>3 DEF PickupInv, MailInv
    <3>2. QED
      BY <3>1 DEF PickupRight
  <2>4. QED
    BY <2>2, <2>3
<1>6. \A p \in Players \ online' : handles[p] = {} /\ count[p] = 0
  BY DEF PickupInv
<1>7. QED
  BY Zenon, <1>1, <1>2, <1>3, <1>4, <1>5, <1>6 DEF PickupInv

\* The natives of text draws leave the pickups alone.
LEMMA TextNativeKeepsPickupInv ==
    ASSUME PickupInv, MailInv', TextDrawNative, UNCHANGED peopleVars, UNCHANGED pickupVars
    PROVE  PickupInv'
<1>1. /\ online' = online /\ slots' = slots /\ pending' = pending /\ up' = up
      /\ slots \subseteq online
      /\ handles' = handles /\ count' = count /\ pickups' = pickups /\ static' = static
  BY DEF peopleVars, pickupVars, PickupInv, MailInv, ArrivalsTypeOK
<1>2. Active' = Active
  BY <1>1 DEF Active
<1>3. \/ UNCHANGED mailVars
      \/ \E P \in SUBSET online, w \in TextDraws : \E m :
             Send(P, {m}) /\ Item(m) = <<"textdraws", w>> /\ m # Restart
  <2>1. PICK w \in TextDraws :
          \/ \E t \in Strings : TextDrawCreate(w, t) \/ TextDrawSetString(w, t)
          \/ \E p \in Players : TextDrawShowForPlayer(p, w) \/ TextDrawHideForPlayer(p, w)
          \/ TextDrawShowForAll(w) \/ TextDrawHideForAll(w) \/ TextDrawDestroy(w)
    BY Zenon DEF TextDrawNative
  <2>2. \/ UNCHANGED mailVars
        \/ \E P \in SUBSET online : \/ \E t : Send(P, {EditText(w, t)})
                                    \/ \E t : Send(P, {ShowText(w, t)})
                                    \/ Send(P, {HideText(w)})
    <3>1. (\E t \in Strings : TextDrawCreate(w, t)) => UNCHANGED mailVars
      BY DEF TextDrawCreate
    <3>2. (\E t \in Strings : TextDrawSetString(w, t)) =>
              \E P \in SUBSET online : \E t : Send(P, {EditText(w, t)})
      <4>1. hasText[w] \cap online \in SUBSET online
        OBVIOUS
      <4>2. QED
        BY Zenon, <4>1 DEF TextDrawSetString
    <3>3. (\E p \in Players : TextDrawShowForPlayer(p, w)) =>
              \E P \in SUBSET online : \E t : Send(P, {ShowText(w, t)})
      <4>1. \A p \in slots : {p} \in SUBSET online
        BY <1>1
      <4>2. QED
        BY Zenon, <4>1 DEF TextDrawShowForPlayer
    <3>4. (\E p \in Players : TextDrawHideForPlayer(p, w)) =>
              \E P \in SUBSET online : Send(P, {HideText(w)})
      <4>1. \A p \in slots : {p} \cap hasText[w] \in SUBSET online
        BY <1>1
      <4>2. QED
        BY Zenon, <4>1 DEF TextDrawHideForPlayer
    <3>5. TextDrawShowForAll(w) => \E P \in SUBSET online : \E t : Send(P, {ShowText(w, t)})
      <4>1. online \in SUBSET online
        OBVIOUS
      <4>2. QED
        BY Zenon, <4>1 DEF TextDrawShowForAll
    <3>6. TextDrawHideForAll(w) \/ TextDrawDestroy(w) =>
              \E P \in SUBSET online : Send(P, {HideText(w)})
      <4>1. hasText[w] \cap online \in SUBSET online
        OBVIOUS
      <4>2. QED
        BY Zenon, <4>1 DEF TextDrawHideForAll, TextDrawDestroy, HideForAll
    <3>7. QED
      BY Zenon, <2>1, <3>1, <3>2, <3>3, <3>4, <3>5, <3>6
  <2>3. \A t : /\ Item(EditText(w, t)) = <<"textdraws", w>> /\ EditText(w, t) # Restart
              /\ Item(ShowText(w, t)) = <<"textdraws", w>> /\ ShowText(w, t) # Restart
              /\ Item(HideText(w)) = <<"textdraws", w>> /\ HideText(w) # Restart
    BY MessagesDiffer
  <2>4. QED
    BY Zenon, <2>2, <2>3
<1>4. CASE UNCHANGED mailVars
  BY <1>1, <1>4, QuietPickupInv DEF PickupInv
<1>5. ASSUME NEW P \in SUBSET online, NEW w \in TextDraws, NEW m,
             Send(P, {m}), Item(m) = <<"textdraws", w>>, m # Restart
      PROVE  PickupInv'
  <2>1. PICK S : S = {m}
    OBVIOUS
  <2>2. /\ Send(P, S) /\ Restart \notin S /\ \A n, k \in S : Item(n) = Item(k) => n = k
        /\ \A n \in S, i \in Ids : Item(n) # <<"pickups", i>>
    BY <1>5, <2>1, MessagesDiffer
  <2>3. /\ pickups' \subseteq Ids /\ static' \subseteq Ids /\ pickups' \cap static' = {}
        /\ Active' \cap ScriptIds = {} /\ (~up' => Active' = {})
    BY <1>1, <1>2 DEF PickupInv, PickupsTypeOK
  <2>4. QED
    BY <1>1, <1>2, <2>2, <2>3, SendPickups
<1>6. QED
  BY <1>3, <1>4, <1>5

\* Nothing is sent or arrives, and text draws stay.
LEMMA QuietTextInv ==
    ASSUME TextInv, MailInv', UNCHANGED mailVars, UNCHANGED textVars, online \subseteq online'
    PROVE  TextInv'
<1>1. /\ mail' = mail /\ crossed' = crossed
      /\ texts' = texts /\ hasText' = hasText /\ drawn' = drawn
  BY DEF mailVars, textVars
<1>2. \A p : OnWay(p)' = OnWay(p)
  BY <1>1 DEF OnWay
<1>3. \A p, x : Alone(p, x)' <=> Alone(p, x)
  BY Zenon, <1>2 DEF Alone
<1>4. /\ TextDrawsTypeOK' /\ online' \subseteq Players
      /\ \A p \in Players \ online' : drawn[p] = NoTexts'
  BY <1>1 DEF TextInv, TextDrawsTypeOK, MailInv, ArrivalsTypeOK, NoTexts
<1>5. ASSUME NEW p \in online', NEW w \in TextDraws, <<"textdraws", w>> \notin crossed[p]
      PROVE  /\ \A n \in OnWay(p) : Concerns(n, <<"textdraws", w>>) =>
                    TextFits(n, w, texts[w], p, hasText[w])
             /\ Alone(p, <<"textdraws", w>>) => TextRight(drawn[p][w], texts[w], p, hasText[w])
  <2>1. CASE p \in online
    BY Zenon, <1>5, <2>1 DEF TextInv
  <2>2. CASE p \notin online
    <3>1. OnWay(p) = {} /\ drawn[p] = NoTexts
      BY <1>4, <2>2 DEF TextInv, MailInv
    <3>2. drawn[p][w] = NoText
      BY <3>1 DEF NoTexts
    <3>3. QED
      BY <3>1, <3>2 DEF TextRight
  <2>3. QED
    BY <2>1, <2>2
<1>6. QED
  BY Zenon, <1>1, <1>2, <1>3, <1>4, <1>5 DEF TextInv

-----------------------------------------------------------------------------
(* Joins, departures and restarts. *)

LEMMA InitForPlayerInv ==
    ASSUME TextInv, PickupInv, NEW p \in Players, InitForPlayer(p)
    PROVE  TextInv' /\ PickupInv'
<1>1. PICK P, A, S : P = {p} /\ A = Active /\ S = {ShowPickup(i) : i \in Active}
  OBVIOUS
<1>2. /\ p \in pending /\ pending' = pending \ {p}
      /\ online' = online /\ slots' = slots /\ up' = up
      /\ UNCHANGED textVars /\ Send(P, S)
      /\ pickups' = pickups /\ static' = static /\ handles' = handles /\ count' = count
  BY <1>1 DEF InitForPlayer, Initialise, PickupsInitForPlayer, pickupVars
<1>3. P \in SUBSET online /\ A \in SUBSET Ids /\ Active' = Active /\ pending' \subseteq pending
  BY <1>1, <1>2 DEF PickupInv, PickupsTypeOK, Active, MailInv, ArrivalsTypeOK
<1>4. S = {ShowPickup(i) : i \in A} /\ \A i \in A \ ScriptIds : i \in Active'
  BY <1>1, <1>3
<1>5. /\ pickups' \subseteq Ids /\ static' \subseteq Ids /\ pickups' \cap static' = {}
      /\ Active' \cap ScriptIds = {} /\ (~up' => Active' = {})
  BY <1>2, <1>3 DEF PickupInv, PickupsTypeOK
<1>6. \A q \in online, i \in Ids \ ScriptIds : (q \in P => i \notin A) =>
          /\ i \in Active' <=> i \in Active
          /\ q \in slots' \ pending' /\ i \in Active' => q \in slots \ pending
  BY <1>1, <1>2, <1>3
<1>7. QED
  BY Zenon, <1>2, <1>3, <1>4, <1>5, <1>6, PickupsSent

LEMMA RestartInv ==
    ASSUME TextInv, PickupInv, (\E p \in Players : TellOfRestart(p)) \/ RestartBegins
    PROVE  TextInv' /\ PickupInv'
<1>1. PICK P \in SUBSET online : SendRestart(P) /\ (P = online \/ (~up /\ UNCHANGED textVars))
  <2>1. CASE RestartBegins
    <3>1. online \in SUBSET online
      OBVIOUS
    <3>2. QED
      BY Zenon, <2>1, <3>1 DEF RestartBegins, ShutDown
  <2>2. CASE \E p \in Players : TellOfRestart(p)
    <3>1. \A p \in pending : {p} \in SUBSET online
      BY DEF PickupInv, MailInv, ArrivalsTypeOK
    <3>2. QED
      BY Zenon, <2>2, <3>1 DEF TellOfRestart, Initialise
  <2>3. QED
    BY <2>1, <2>2
<1>2. /\ handles' = handles /\ count' = count /\ drawn' = drawn
      /\ online' = online /\ slots' = slots /\ pending' \subseteq pending
      /\ pickups' = {} /\ static' = {} /\ up' \in BOOLEAN
  <2>1. ~up => pickups = {} /\ static = {}
    BY DEF PickupInv, Active
  <2>2. CASE RestartBegins
    BY <2>2 DEF RestartBegins, ShutDown, PickupsShutDown, TextDrawsShutDown
  <2>3. ASSUME NEW p \in Players, TellOfRestart(p)
        PROVE  /\ handles' = handles /\ count' = count /\ drawn' = drawn
               /\ online' = online /\ slots' = slots /\ pending' \subseteq pending
               /\ pickups' = {} /\ static' = {} /\ up' \in BOOLEAN
    <3>1. up \in BOOLEAN
      BY DEF PickupInv, MailInv, ArrivalsTypeOK
    <3>2. QED
      BY <2>1, <2>3, <3>1 DEF TellOfRestart, Initialise, pickupVars, textVars
  <2>4. QED
    BY <2>2, <2>3
<1>3. TextDrawsTypeOK'
  <2>1. CASE UNCHANGED textVars
    BY <2>1 DEF TextInv, TextDrawsTypeOK, textVars
  <2>2. CASE TextDrawsShutDown
    BY <2>2 DEF TextInv, TextDrawsTypeOK, TextDrawsShutDown, NoTexts
  <2>3. QED
    BY <2>1, <2>2 DEF TellOfRestart, RestartBegins
<1>4. MailInv'
  <2>1. PICK S : S = {Restart}
    OBVIOUS
  <2>2. Post(P, S) /\ DOMAIN crossed' = Players
    BY Zenon, <1>1, <2>1 DEF SendRestart
  <2>3. S \in SUBSET Messages /\ MailInv
    BY <2>1 DEF Messages, PickupInv
  <2>4. QED
    BY Zenon, <1>2, <2>2, <2>3, PostKeepsMailInv
<1>5. P = online \/ (texts' = texts /\ hasText' = hasText /\ Active = {})
  BY <1>1 DEF textVars, PickupInv
<1>6. TextInv' /\ PickupInv'
  BY Zenon, <1>1, <1>2, <1>3, <1>4, <1>5, RestartKeepsTextInv, RestartKeepsPickupInv
<1>7. QED
  BY <1>6

\* A client that leaves shows nothing any more; the others do not notice.
LEMMA DepartureInv ==
    ASSUME TextInv, PickupInv, NEW p \in Players, Departure(p)
    PROVE  TextInv' /\ PickupInv'
<1>1. /\ online' = online \ {p} /\ slots' = slots \ {p} /\ pending' = pending \ {p}
      /\ up' = up /\ crossed' = [crossed EXCEPT ![p] = {}]
      /\ drawn' = [drawn EXCEPT ![p] = NoTexts] /\ texts' = texts /\ hasText' = hasText
      /\ handles' = [handles EXCEPT ![p] = {}] /\ count' = [count EXCEPT ![p] = 0]
      /\ pickups' = pickups /\ static' = static
  BY DEF Departure, Leave, ResetPickupPool, ResetTextDrawPool
<1>2. /\ MailInv /\ online \subseteq Players /\ DOMAIN crossed = Players
      /\ TextDrawsTypeOK /\ PickupsTypeOK
  BY DEF PickupInv, TextInv, MailInv, ArrivalsTypeOK
<1>3. MailInv' /\ OnWay(p)' = {} /\ \A q \in Players \ {p} : OnWay(q)' = OnWay(q)
  BY <1>2, LeaveKeepsMailInv DEF Departure
<1>4. \A q \in Players \ {p} : /\ crossed'[q] = crossed[q] /\ drawn'[q] = drawn[q]
                                /\ handles'[q] = handles[q] /\ count'[q] = count[q]
  BY <1>1, <1>2 DEF TextDrawsTypeOK, PickupsTypeOK
<1>5. /\ drawn'[p] = NoTexts /\ handles'[p] = {} /\ count'[p] = 0
      /\ TextDrawsTypeOK' /\ PickupsTypeOK' /\ Active' = Active
  <2>1. 0 \in 0 .. MaxPickups /\ NoTexts \in [TextDraws -> Strings \cup {NoText}]
    BY IdsAreMany DEF NoTexts
  <2>2. QED
    BY <1>1, <1>2, <2>1 DEF TextDrawsTypeOK, PickupsTypeOK, Active
<1>6. \A q \in online' : \A x : Alone(q, x)' <=> Alone(q, x)
  <2>1. \A q \in online' : OnWay(q)' = OnWay(q)
    BY <1>1, <1>2, <1>3
  <2>2. QED
    BY Zenon, <2>1 DEF Alone
<1>7. TextInv'
  <2>1. \A q \in Players \ online' : drawn'[q] = NoTexts'
    BY <1>1, <1>4, <1>5 DEF TextInv, NoTexts
  <2>2. \A q \in online' : q \in online /\ q \in Players \ {p}
    BY <1>1, <1>2
  <2>3. QED
    BY Zenon, <1>1, <1>3, <1>4, <1>5, <1>6, <2>1, <2>2 DEF TextInv
<1>8. PickupInv'
  <2>1. Counted({}, 0)
    BY FS_EmptySet, IdsAreMany DEF Counted
  <2>2. /\ \A q \in Players \ online' : handles'[q] = {} /\ count'[q] = 0
        /\ \A q \in Players : Counted(handles'[q], count'[q])
    BY <1>1, <1>4, <1>5, <2>1 DEF PickupInv
  <2>3. ASSUME NEW q \in online', NEW i \in Ids \ ScriptIds,
               <<"pickups", i>> \notin crossed'[q]
        PROVE  /\ \A n \in OnWay(q)' : Concerns(n, <<"pickups", i>>) =>
                      PickupFits(n, i, Active', q, slots' \ pending')
               /\ Alone(q, <<"pickups", i>>)' =>
                      PickupRight(handles'[q], count'[q], i, Active', q, slots' \ pending')
    <3>1. /\ q \in online /\ q \in Players \ {p} /\ <<"pickups", i>> \notin crossed[q]
          /\ q \in slots' \ pending' <=> q \in slots \ pending
      BY <1>1, <1>2, <1>4, <2>3
    <3>2. /\ \A n \in OnWay(q) : Concerns(n, <<"pickups", i>>) =>
                 PickupFits(n, i, Active, q, slots \ pending)
          /\ Alone(q, <<"pickups", i>>) =>
                 PickupRight(handles[q], count[q], i, Active, q, slots \ pending)
      BY Zenon, <3>1 DEF PickupInv
    <3>3. \A n : PickupFits(n, i, Active, q, slots \ pending) =>
                     PickupFits(n, i, Active', q, slots' \ pending')
      BY Zenon, <1>5, <3>1 DEF PickupFits
    <3>4. PickupRight(handles[q], count[q], i, Active, q, slots \ pending) =>
              PickupRight(handles'[q], count'[q], i, Active', q, slots' \ pending')
      BY Zenon, <1>4, <1>5, <3>1 DEF PickupRight
    <3>5. OnWay(q)' = OnWay(q) /\ (Alone(q, <<"pickups", i>>)' => Alone(q, <<"pickups", i>>))
      BY Zenon, <1>3, <1>6, <3>1
    <3>6. QED
      BY Zenon, <3>2, <3>3, <3>4, <3>5
  <2>4. /\ pickups' \cap static' = {} /\ Active' \cap ScriptIds = {}
        /\ (~up' => Active' = {})
    BY <1>1, <1>5 DEF PickupInv
  <2>5. QED
    BY Zenon, <1>3, <1>5, <2>2, <2>3, <2>4 DEF PickupInv
<1>9. QED
  BY <1>7, <1>8

-----------------------------------------------------------------------------
(* All steps together. *)

LEMMA NextInv == TextInv /\ PickupInv /\ [Next]_vars => TextInv' /\ PickupInv'
<1> SUFFICES ASSUME TextInv, PickupInv, [Next]_vars
             PROVE  TextInv' /\ PickupInv'
  OBVIOUS
<1>1. /\ MailInv /\ online \subseteq Players /\ slots \subseteq online
      /\ pending \subseteq slots /\ up \in BOOLEAN /\ (~up => Active = {})
  BY DEF PickupInv, MailInv, ArrivalsTypeOK
\* Nobody is sent anything, and nobody is initialised.
<1>2. ASSUME UNCHANGED mailVars, UNCHANGED pickupVars, UNCHANGED textVars,
             online \subseteq online', online' \subseteq Players, slots' \subseteq online',
             pending' \subseteq slots', slots' \ pending' \subseteq slots \ pending,
             up' \in BOOLEAN, ~up' => ~up
      PROVE  TextInv' /\ PickupInv'
  <2>1. MailInv'
    BY <1>1, <1>2, NoMailKeepsMailInv
  <2>2. QED
    BY <1>1, <1>2, <2>1, QuietTextInv, QuietPickupInv
<1>3. CASE PickupNative /\ UNCHANGED <<peopleVars, textVars>>
  BY <1>3, PickupNativeInv
<1>4. CASE TextDrawNative /\ UNCHANGED <<peopleVars, pickupVars>>
  <2>1. TextInv'
    BY <1>4, NativeTextInv
  <2>2. MailInv'
    BY <2>1 DEF TextInv
  <2>3. QED
    BY <1>4, <2>1, <2>2, TextNativeKeepsPickupInv
<1>5. ASSUME NEW p \in Players, Accept(p) \/ Join(p), UNCHANGED <<pickupVars, textVars>>
      PROVE  TextInv' /\ PickupInv'
  <2>1. /\ UNCHANGED mailVars /\ up' = up
        /\ online \subseteq online' /\ online' \subseteq Players /\ slots' \subseteq online'
        /\ pending' \subseteq slots' /\ slots' \ pending' \subseteq slots \ pending
    BY <1>1, <1>5 DEF Accept, Join
  <2>2. QED
    BY <1>1, <1>2, <1>5, <2>1
<1>6. CASE ReInit /\ UNCHANGED <<pickupVars, textVars>>
  <2>1. /\ UNCHANGED mailVars /\ up' = TRUE /\ online' = online
        /\ slots' = slots /\ pending' = slots
    BY <1>6 DEF ReInit
  <2>2. QED
    BY <1>1, <1>2, <1>6, <2>1
<1>7. CASE UNCHANGED vars
  <2>1. /\ UNCHANGED mailVars /\ UNCHANGED pickupVars /\ UNCHANGED textVars
        /\ online' = online /\ slots' = slots /\ pending' = pending /\ up' = up
    BY <1>7 DEF vars, arrivalVars, peopleVars
  <2>2. QED
    BY <1>1, <1>2, <2>1
<1>8. ASSUME NEW p \in Players, InitForPlayer(p) \/ TellOfRestart(p) \/ Departure(p)
      PROVE  TextInv' /\ PickupInv'
  BY <1>8, InitForPlayerInv, RestartInv, DepartureInv
<1>9. CASE RestartBegins
  BY <1>9, RestartInv
<1>10. ASSUME NEW p \in Players, NEW m \in OnWay(p), Receive(p, m)
       PROVE  TextInv' /\ PickupInv'
  BY <1>10, ReceiveTextInv, ReceivePickupInv
<1>11. QED
  BY <1>3, <1>4, <1>5, <1>6, <1>7, <1>8, <1>9, <1>10 DEF Next

\* What a client draws exists, is current and is known to the server as soon as nothing
\* about it is on its way and nothing of it crossed, in whatever order the messages
\* arrive, for any numbers of players, text draws and messages: the flags that are never
\* cleared when players leave (server/textdrawpool.cpp 89-182) do no harm.
THEOREM TextsAreCurrent == Spec => []TextDrawsAreCurrent
<1>1. Init => TextInv /\ PickupInv
  BY InitTextInv, InitPickupInv
<1>2. TextInv => TextDrawsAreCurrent
  BY TextInvIsEnough
<1>3. QED
  BY NextInv, <1>1, <1>2, PTL DEF Spec

\* Nobody is left with a pickup of the pool that is gone, and who counts what it shows is
\* left with all of them, under the same condition and for any numbers of players, of
\* pickups, of messages and of ids that scripts use for themselves
\* (server/pickuppool.cpp 34-151, client/net/pickuppool.cpp 56-134).
THEOREM ClientsShowThePickups == Spec => []ClientsShowPickups
<1>1. Init => TextInv /\ PickupInv
  BY InitTextInv, InitPickupInv
<1>2. PickupInv => ClientsShowPickups
  BY PickupInvIsEnough
<1>3. QED
  BY NextInv, <1>1, <1>2, PTL DEF Spec

\* Every variable keeps its type: no count leaves its range, whatever is refused, sent
\* twice, overtaken or destroyed.
THEOREM TypeCorrect == Spec => []TypeOK
<1>1. Init => TextInv /\ PickupInv
  BY InitTextInv, InitPickupInv
<1>2. PickupInv /\ TextInv => TypeOK
  BY DEF PickupInv, TextInv, TypeOK, MailInv, Messages
<1>3. QED
  BY NextInv, <1>1, <1>2, PTL DEF Spec
=============================================================================
