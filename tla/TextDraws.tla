------------------------------ MODULE TextDraws ------------------------------
(***************************************************************************)
(* Text draws: texts on the screen, made for nobody and then shown to the  *)
(* players a script chooses (server/textdrawpool.cpp,                      *)
(* server/textdrawpool.h, server/scrcustom.cpp, client/net/scriptrpc.cpp,  *)
(* client/net/textdrawpool.cpp).                                           *)
(*                                                                         *)
(* The server remembers for every text draw which player slots it was      *)
(* shown to, and sends later changes to those only.  It never forgets a    *)
(* player who leaves.  Of what a text draw looks like only the text is     *)
(* kept, as one of a few values: changes of the rest are not sent to those *)
(* who see it.                                                             *)
(***************************************************************************)
EXTENDS Arrivals

CONSTANTS MaxTextDraws,  \* MAX_TEXT_DRAWS
          Strings,       \* the texts
          NoText

ASSUME TextDrawsAssumption == MaxTextDraws \in Nat /\ NoText \notin Strings

TextDraws == 0 .. (MaxTextDraws - 1)

VARIABLES texts,         \* m_szFontText, NoText where m_bSlotState is false
          hasText,       \* m_bHasText: the player slots each was shown to
          drawn          \* client: the text it draws for each

textVars == <<texts, hasText, drawn>>

TextDrawsTypeOK ==
    /\ texts \in [TextDraws -> Strings \cup {NoText}]
    /\ hasText \in [TextDraws -> SUBSET Players]
    /\ drawn \in [Players -> [TextDraws -> Strings \cup {NoText}]]

NoTexts == [w \in TextDraws |-> NoText]

TextDrawsInit ==
    /\ texts = NoTexts
    /\ hasText = [w \in TextDraws |-> {}]
    /\ drawn = [p \in Players |-> NoTexts]

\* RPC_ScrShowTextDraw, RPC_ScrEditTextDraw and RPC_ScrHideTextDraw.
ShowText(w, t) == [pool |-> "textdraws", id |-> w, say |-> "show", text |-> t]
EditText(w, t) == [pool |-> "textdraws", id |-> w, say |-> "edit", text |-> t]
HideText(w) == [pool |-> "textdraws", id |-> w, say |-> "hide"]
TextMessages ==
    {ShowText(w, t) : w \in TextDraws, t \in Strings}
        \cup {EditText(w, t) : w \in TextDraws, t \in Strings}
        \cup {HideText(w) : w \in TextDraws}

-----------------------------------------------------------------------------
(* The client's pool. *)

\* One of the messages arrives.  An edit of what the client does not draw is ignored.
ReceiveText(p, m) ==
    /\ \E w \in TextDraws :
          \/ \E t \in Strings : /\ \/ m = ShowText(w, t)
                                   \/ m = EditText(w, t) /\ drawn[p][w] # NoText
                                /\ drawn' = [drawn EXCEPT ![p][w] = t]
          \/ /\ \E t \in Strings : m = EditText(w, t)
             /\ drawn[p][w] = NoText /\ UNCHANGED drawn
          \/ m = HideText(w) /\ drawn' = [drawn EXCEPT ![p][w] = NoText]
    /\ UNCHANGED <<texts, hasText>>

\* The client makes a new pool when RPC_GameModeRestart arrives, or its connection ends.
\* The flags of its player stay as they are.
ResetTextDrawPool(p) ==
    /\ drawn' = [drawn EXCEPT ![p] = NoTexts]
    /\ UNCHANGED <<texts, hasText>>

-----------------------------------------------------------------------------
(* Natives. *)

\* New takes the first free slot and clears its flags.
TextDrawCreate(w, t) ==
    /\ up
    /\ texts[w] = NoText /\ \A v \in 0 .. (w - 1) : texts[v] # NoText
    /\ texts' = [texts EXCEPT ![w] = t]
    /\ hasText' = [hasText EXCEPT ![w] = {}]
    /\ UNCHANGED <<drawn, mailVars>>

\* SetTextString keeps the new text and sends it to those who have the old one.
TextDrawSetString(w, t) ==
    /\ up /\ texts[w] # NoText
    /\ texts' = [texts EXCEPT ![w] = t]
    /\ Send(hasText[w] \cap online, {EditText(w, t)})
    /\ UNCHANGED <<hasText, drawn>>

TextDrawShowForPlayer(p, w) ==
    /\ up /\ p \in slots /\ texts[w] # NoText
    /\ hasText' = [hasText EXCEPT ![w] = @ \cup {p}]
    /\ Send({p}, {ShowText(w, texts[w])})
    /\ UNCHANGED <<texts, drawn>>

\* A mutant: the flags of the players are set, and the broadcast reaches others too.
TextDrawShowForAll_Players(w) ==
    /\ up /\ texts[w] # NoText
    /\ hasText' = [hasText EXCEPT ![w] = @ \cup slots]
    /\ Send(online, {ShowText(w, texts[w])})
    /\ UNCHANGED <<texts, drawn>>

\* ShowForAll broadcasts, and sets the flag of every slot, used or not.
TextDrawShowForAll(w) ==
    /\ up /\ texts[w] # NoText
    /\ hasText' = [hasText EXCEPT ![w] = Players]
    /\ Send(online, {ShowText(w, texts[w])})
    /\ UNCHANGED <<texts, drawn>>

\* HideForPlayer sends only if the flag is set, and clears it.
TextDrawHideForPlayer(p, w) ==
    /\ up /\ p \in slots /\ texts[w] # NoText
    /\ hasText' = [hasText EXCEPT ![w] = @ \ {p}]
    /\ Send({p} \cap hasText[w], {HideText(w)})
    /\ UNCHANGED <<texts, drawn>>

HideForAll(w) ==
    /\ hasText' = [hasText EXCEPT ![w] = {}]
    /\ Send(hasText[w] \cap online, {HideText(w)})

TextDrawHideForAll(w) ==
    /\ up /\ texts[w] # NoText
    /\ HideForAll(w)
    /\ UNCHANGED <<texts, drawn>>

\* Delete frees the slot and hides what was in it.
TextDrawDestroy(w) ==
    /\ up /\ texts[w] # NoText
    /\ texts' = [texts EXCEPT ![w] = NoText]
    /\ HideForAll(w)
    /\ UNCHANGED drawn

TextDrawNative ==
    \E w \in TextDraws :
        \/ \E t \in Strings : TextDrawCreate(w, t) \/ TextDrawSetString(w, t)
        \/ \E p \in Players : TextDrawShowForPlayer(p, w) \/ TextDrawHideForPlayer(p, w)
        \/ TextDrawShowForAll(w) \/ TextDrawHideForAll(w) \/ TextDrawDestroy(w)

-----------------------------------------------------------------------------
(* What the steps of Arrivals do to the text draws. *)

\* The pool is deleted.
TextDrawsShutDown ==
    /\ texts' = NoTexts
    /\ hasText' = [w \in TextDraws |-> {}]
    /\ UNCHANGED drawn

-----------------------------------------------------------------------------
(* Properties. *)

\* When all that was sent to a client about a text draw has arrived, and nothing of it
\* could be overtaken, what the client draws there is a text draw that exists, with its
\* present text, and the server knows that the client has it, so that it can change and
\* hide it: also after the text draw's slot, the player's slot or both were used again,
\* and for a client that heard a broadcast before it was a player.  Two edits, or a show
\* and a hide, that overtake one another leave an old or a hidden text on the screen until
\* the next message about it; and of a text that the server takes for hidden it sends none
\* but a show.
TextDrawsAreCurrent ==
    \A p \in online, w \in TextDraws :
        Settled(p, <<"textdraws", w>>) /\ drawn[p][w] # NoText
            => drawn[p][w] = texts[w] /\ p \in hasText[w]
=============================================================================
