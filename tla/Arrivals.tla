------------------------------ MODULE Arrivals ------------------------------
(***************************************************************************)
(* Who is there to be told of what scripts make: the clients that the      *)
(* network library has accepted, those of them that are players, and those *)
(* players whose handler is still busy with them (server/playerpool.cpp,   *)
(* server/netgame.cpp); and what is on its way to them.  The modules       *)
(* Pickups and TextDraws share it and say what each step does to their own *)
(* state; ScriptItems puts the steps together.                             *)
(*                                                                         *)
(* A broadcast goes to every client the library has accepted, so a client  *)
(* hears of things before it is a player.  Scripts run in the middle of    *)
(* the handlers that admit players and that start a game mode.             *)
(*                                                                         *)
(* The messages are sent RELIABLE, without order: any message on its way   *)
(* may be the next to arrive.                                              *)
(***************************************************************************)
EXTENDS Integers, FiniteSets, Bags

CONSTANTS MaxPlayers,    \* MAX_PLAYERS
          MaxMail        \* a bound: messages on their way to one client

ASSUME ArrivalsAssumption == MaxPlayers \in Nat

Players == 0 .. (MaxPlayers - 1)

VARIABLES online,        \* clients that the network library has accepted
          slots,         \* m_bPlayerSlotState
          pending,       \* players whom the running handler has yet to initialise
          up,            \* are there pools, or does a game mode restart?
          mail,          \* client: the bag of messages on their way to it
          crossed        \* client, history: the items about which different messages were
                         \* on their way together, and none has been sent alone since

peopleVars == <<online, slots, pending, up>>
mailVars == <<mail, crossed>>
arrivalVars == <<peopleVars, mailVars>>

\* A message is about one item of one pool, or RPC_GameModeRestart.
Restart == [pool |-> "all", id |-> 0, say |-> "restart"]
Item(m) == <<m.pool, m.id>>
OnWay(p) == BagToSet(mail[p])
Concerns(m, x) == m = Restart \/ Item(m) = x

ArrivalsTypeOK ==
    /\ online \subseteq Players
    /\ slots \subseteq online
    /\ pending \subseteq slots
    /\ up \in BOOLEAN
    /\ DOMAIN mail = Players /\ \A p \in Players : IsABag(mail[p])
    /\ DOMAIN crossed = Players

ArrivalsInit ==
    /\ online = {} /\ slots = {} /\ pending = {} /\ up = TRUE
    /\ mail = [p \in Players |-> EmptyBag]
    /\ crossed = [p \in Players |-> {}]

-----------------------------------------------------------------------------
(* Messages. *)

\* Every client of P is sent the messages of S.
Post(P, S) ==
    /\ \A p \in P : BagCardinality(mail[p]) + Cardinality(S) =< MaxMail
    /\ mail' = [p \in Players |-> IF p \in P THEN mail[p] (+) SetToBag(S) ELSE mail[p]]

Alone(p, x) == \A m \in OnWay(p) : ~Concerns(m, x)
Crosses(p, m) == \E n \in OnWay(p) : Concerns(n, Item(m)) /\ n # m

\* S holds one message for each of some items.
Send(P, S) ==
    /\ Post(P, S)
    /\ crossed' = [p \in Players |->
           IF p \in P
           THEN {x \in crossed[p] : \A m \in S : ~(Item(m) = x /\ Alone(p, x))}
                    \cup {Item(m) : m \in {n \in S : Crosses(p, n)}}
           ELSE crossed[p]]

SendRestart(P) ==
    /\ Post(P, {Restart})
    /\ crossed' = [p \in Players |->
           IF p \in P
           THEN {x \in crossed[p] : ~Alone(p, x)} \cup {Item(m) : m \in OnWay(p) \ {Restart}}
           ELSE crossed[p]]

\* m is the next message to arrive at p.
Arrive(p, m) ==
    /\ m \in OnWay(p)
    /\ mail' = [mail EXCEPT ![p] = @ (-) SetToBag({m})]
    /\ UNCHANGED <<peopleVars, crossed>>

\* Nothing about item x is on its way to p, and what arrived last was sent last.
Settled(p, x) == Alone(p, x) /\ x \notin crossed[p]

-----------------------------------------------------------------------------
(* Clients. *)

\* The library accepts a connection; the game hears of it later.
Accept(p) ==
    /\ p \notin online
    /\ online' = online \cup {p}
    /\ UNCHANGED <<slots, pending, up, mailVars>>

\* ClientJoin makes a player and calls OnPlayerConnect, before ProcessClientJoin.
Join(p) ==
    /\ pending = {} /\ p \in online \ slots
    /\ slots' = slots \cup {p}
    /\ pending' = {p}
    /\ UNCHANGED <<online, up, mailVars>>

\* The handler gets to p: it walks the slots upwards.
Initialise(p) ==
    /\ p \in pending /\ \A q \in pending : p =< q
    /\ pending' = pending \ {p}
    /\ UNCHANGED <<online, slots, up>>

\* CPlayerPool::Delete, from a packet or from a script that kicks; or the connection of
\* a client that never became a player ends.  What was on its way is lost.  That a player
\* who leaves in a restart stops the server is module NetGame's subject.
Leave(p) ==
    /\ p \in online
    /\ p \in slots => up
    /\ online' = online \ {p} /\ slots' = slots \ {p} /\ pending' = pending \ {p}
    /\ mail' = [mail EXCEPT ![p] = EmptyBag]
    /\ crossed' = [crossed EXCEPT ![p] = {}]
    /\ UNCHANGED up

\* ShutdownForGameModeRestart, from the main loop.
ShutDown ==
    /\ up /\ pending = {}
    /\ up' = FALSE
    /\ SendRestart(online)
    /\ UNCHANGED <<online, slots, pending>>

\* ReInitWhenRestarting: the pools are made, the game mode runs OnGameModeInit, and the
\* walk over the players begins.
ReInit ==
    /\ ~up /\ pending = {}
    /\ up' = TRUE /\ pending' = slots
    /\ UNCHANGED <<online, slots, mailVars>>
=============================================================================
