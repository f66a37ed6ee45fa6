------------------------------ MODULE RakPeer ------------------------------
(***************************************************************************)
(* The server's connections (sdk/raknet/RakPeer.cpp) and the player slots  *)
(* the game keeps for them (server/netrpc.cpp, netgame.cpp,                *)
(* playerpool.cpp).  Two threads work on them: the library's thread        *)
(* receives, answers and closes; the game's handles the packets the other  *)
(* has queued and queues commands in return.  A client is numbered by the  *)
(* index of its connection, which is free for the next one as soon as the  *)
(* library's thread has closed it, whatever the game has seen by then.     *)
(*                                                                         *)
(* An address is one connection attempt: every Connect of a client opens a *)
(* new socket (RakClient.cpp:45-47, client/net/netgame.cpp:320).  Messages *)
(* to a connection are RELIABLE only and so may overtake one another.      *)
(***************************************************************************)
EXTENDS Naturals, Sequences, FiniteSets

CONSTANTS Index,         \* 0 .. maximumNumberOfPeers - 1
          Addr,          \* connection attempts
          Nobody         \* UNASSIGNED_PLAYER_ID, and a free slot of the pool

ASSUME RakPeerAssumption == Index \subseteq Nat /\ Nobody \notin Addr

Modes == {"UNVERIFIED_SENDER", "HANDLING_CONNECTION_REQUEST", "CONNECTED",
          "DISCONNECT_ASAP", "DISCONNECT_ASAP_SILENTLY", "DISCONNECT_ON_NO_ACK"}

VARIABLES
    remoteSystemList,    \* the library's connections
    packets,             \* what the library's thread has queued for the game
    bufferedCommands,    \* whom the game wants disconnected
    slot,                \* the client that the player in a pool slot belongs to
    client,              \* what every client is about
    up,                  \* messages under way from every client
    told,                \* clients a disconnection notification is under way to
    been                 \* history: the clients that have had a player

libraryVars == <<remoteSystemList, packets>>
gameVars == <<slot, been>>
vars == <<libraryVars, bufferedCommands, gameVars, client, up, told>>

System == [isActive : BOOLEAN, playerId : Addr \cup {Nobody}, connectMode : Modes]
Packet == [id : {"NEW_INCOMING_CONNECTION", "RPC_ClientJoin", "RPC", "DISCONNECTED"},
           playerId : Addr, playerIndex : Index]
Messages == {"CONNECTION_REQUEST", "NEW_INCOMING_CONNECTION", "RPC_ClientJoin", "RPC",
             "DISCONNECTION_NOTIFICATION"}
ClientStates == {"new", "asking", "replied", "full", "requested", "accepted", "playing", "gone"}

Init ==
    /\ remoteSystemList = [i \in Index |-> [isActive |-> FALSE, playerId |-> Nobody,
                                            connectMode |-> "UNVERIFIED_SENDER"]]
    /\ packets = <<>> /\ bufferedCommands = <<>>
    /\ slot = [i \in Index |-> Nobody]
    /\ client = [a \in Addr |-> "new"]
    /\ up = [a \in Addr |-> {}]
    /\ told = {} /\ been = {}

-----------------------------------------------------------------------------
(* The connections. *)

Active(i) == remoteSystemList[i].isActive

\* The connection of an address, if it has one.
IndexesOf(a) == {i \in Index : Active(i) /\ remoteSystemList[i].playerId = a}

\* It looks at the mode alone, which a connection keeps when it is closed.
GetPlayerIDFromIndex(i) ==
    IF remoteSystemList[i].connectMode = "CONNECTED" THEN remoteSystemList[i].playerId
    ELSE Nobody

SetMode(i, mode) == remoteSystemList' = [remoteSystemList EXCEPT ![i].connectMode = mode]

AddPacketToProducer(id, i) == packets' = Append(packets,
    [id |-> id, playerId |-> remoteSystemList[i].playerId, playerIndex |-> i])

FirstFree(i) == ~Active(i) /\ \A j \in Index : j < i => Active(j)

\* A mutant: an address that repeats its request gets another connection.
Unconnected_Any(a) == TRUE

Unconnected(a) == IndexesOf(a) = {}

Answered(a, state) == client' = [client EXCEPT ![a] = IF @ = "asking" THEN state ELSE @]

\* A client's open connection request arrives.  Clients repeat it and copies come late,
\* though not after the handshake; one from an address that has a connection changes nothing.
ReceiveOpenConnectionRequest(a) ==
    /\ client[a] \in {"asking", "replied", "full", "requested"}
    /\ Unconnected(a)
    /\ \/ /\ \A i \in Index : Active(i)
          /\ Answered(a, "full")
          /\ UNCHANGED remoteSystemList
       \/ \E i \in Index :
             /\ FirstFree(i)
             /\ remoteSystemList' = [remoteSystemList EXCEPT ![i] =
                    [isActive |-> TRUE, playerId |-> a, connectMode |-> "UNVERIFIED_SENDER"]]
             /\ Answered(a, "replied")
    /\ UNCHANGED <<packets, bufferedCommands, gameVars, up, told>>

AllowIncomingConnections ==
    Cardinality({i \in Index : Active(i) /\ remoteSystemList[i].connectMode = "CONNECTED"})
        < Cardinality(Index)

\* A connected client keeps its mode; another's password may be the wrong one.
ReceiveConnectionRequest(i) ==
    /\ \E right \in BOOLEAN :
        SetMode(i, IF remoteSystemList[i].connectMode = "CONNECTED" THEN "CONNECTED"
                   ELSE IF right /\ AllowIncomingConnections
                   THEN "HANDLING_CONNECTION_REQUEST" ELSE "DISCONNECT_ASAP_SILENTLY")
    /\ UNCHANGED packets

ReceiveNewIncomingConnection(i) ==
    IF remoteSystemList[i].connectMode = "HANDLING_CONNECTION_REQUEST"
    THEN SetMode(i, "CONNECTED") /\ AddPacketToProducer("NEW_INCOMING_CONNECTION", i)
    ELSE UNCHANGED libraryVars

\* CloseConnectionInternal: address and mode stay as they were.
Closed(i) == remoteSystemList' = [remoteSystemList EXCEPT ![i].isActive = FALSE]

\* What RunUpdateCycle does with a message of the connection i.
Handle(i, m) ==
    \/ /\ m = "CONNECTION_REQUEST"
       /\ ReceiveConnectionRequest(i)
    \/ /\ m # "CONNECTION_REQUEST"
       /\ remoteSystemList[i].connectMode = "UNVERIFIED_SENDER"
       /\ Closed(i) /\ UNCHANGED packets
    \/ /\ remoteSystemList[i].connectMode # "UNVERIFIED_SENDER"
       /\ \/ m = "NEW_INCOMING_CONNECTION" /\ ReceiveNewIncomingConnection(i)
          \/ /\ m = "DISCONNECTION_NOTIFICATION"
             /\ SetMode(i, "DISCONNECT_ON_NO_ACK") /\ UNCHANGED packets
          \/ /\ m \in {"RPC_ClientJoin", "RPC"}
             /\ AddPacketToProducer(m, i) /\ UNCHANGED remoteSystemList

\* A message arrives; without a connection it is no use.
Receive(a, m) ==
    /\ m \in up[a]
    /\ up' = [up EXCEPT ![a] = @ \ {m}]
    /\ IF IndexesOf(a) = {} THEN UNCHANGED libraryVars ELSE \E i \in IndexesOf(a) : Handle(i, m)
    /\ UNCHANGED <<bufferedCommands, gameVars, client, told>>

\* All that the game has queued: notify, and disconnect when the client knows.
ProcessCommands ==
    LET targets == {bufferedCommands[k] : k \in 1 .. Len(bufferedCommands)}
        found == {i \in Index : Active(i) /\ remoteSystemList[i].playerId \in targets}
    IN  /\ bufferedCommands # <<>>
        /\ bufferedCommands' = <<>>
        /\ remoteSystemList' = [i \in Index |->
              IF i \in found THEN [remoteSystemList[i] EXCEPT !.connectMode = "DISCONNECT_ASAP"]
              ELSE remoteSystemList[i]]
        /\ told' = told \cup {remoteSystemList[i].playerId : i \in found}
        /\ UNCHANGED <<packets, gameVars, client, up>>

\* A mutant: only a connection that is lost is reported.
Reported_LostOnly(mode) == mode = "CONNECTED"

Reported(mode) == mode \in {"CONNECTED", "DISCONNECT_ASAP", "DISCONNECT_ON_NO_ACK"}

\* A connection fails: nothing is acknowledged, the handshake takes more than ten
\* seconds, or what was left to do before disconnecting is done.
Fail(i) ==
    /\ Active(i)
    /\ Closed(i)
    /\ IF Reported(remoteSystemList[i].connectMode)
       THEN AddPacketToProducer("DISCONNECTED", i) ELSE UNCHANGED packets
    /\ UNCHANGED <<bufferedCommands, gameVars, client, up, told>>

-----------------------------------------------------------------------------
(* The game. *)

\* RakServer::Kick; nobody is no target.
Kick(a) == bufferedCommands' = IF a = Nobody THEN bufferedCommands ELSE Append(bufferedCommands, a)

NextPacket(id) == packets # <<>> /\ Head(packets).id = id /\ packets' = Tail(packets)

\* A mutant: the index is the one the connection had when the request was queued.
JoinIndexes_Queued(p) == {p.playerIndex}

\* The index for which ClientJoin makes a player: the sender must be connected by now.
JoinIndexes(p) == {i \in IndexesOf(p.playerId) : GetPlayerIDFromIndex(i) # Nobody}

\* ClientJoin: a player is made; or the client is refused for its name, version or
\* address; or it is taken for a bot, of which nobody is told.
ClientJoin ==
    /\ NextPacket("RPC_ClientJoin")
    /\ LET p == Head(packets)
       IN  \/ \E i \in JoinIndexes(p) :
                 /\ slot' = [slot EXCEPT ![i] = p.playerId]
                 /\ been' = been \cup {p.playerId}
                 /\ UNCHANGED bufferedCommands
           \/ Kick(p.playerId) /\ UNCHANGED gameVars
           \/ JoinIndexes(p) = {} /\ UNCHANGED <<bufferedCommands, gameVars>>
    /\ UNCHANGED <<remoteSystemList, client, up, told>>

\* Delete: a free slot stays as it is.
HandleDisconnected ==
    /\ NextPacket("DISCONNECTED")
    /\ slot' = [slot EXCEPT ![Head(packets).playerIndex] = Nobody]
    /\ UNCHANGED <<remoteSystemList, bufferedCommands, been, client, up, told>>

\* Any other packet leaves slots and connections alone.
HandleOther ==
    /\ NextPacket("NEW_INCOMING_CONNECTION") \/ NextPacket("RPC")
    /\ UNCHANGED <<remoteSystemList, bufferedCommands, gameVars, client, up, told>>

KickPlayer(i) ==
    /\ slot[i] # Nobody
    /\ Kick(GetPlayerIDFromIndex(i))
    /\ slot' = [slot EXCEPT ![i] = Nobody]
    /\ UNCHANGED <<libraryVars, been, client, up, told>>

-----------------------------------------------------------------------------
(* The clients. *)

ClientStep(a, from, to, messages) ==
    /\ client[a] = from
    /\ client' = [client EXCEPT ![a] = to]
    /\ up' = [up EXCEPT ![a] = @ \cup messages]
    /\ UNCHANGED <<libraryVars, bufferedCommands, gameVars, told>>

Connect(a) == ClientStep(a, "new", "asking", {})
LoseReply(a) == ClientStep(a, "replied", "asking", {}) \/ ClientStep(a, "full", "asking", {})
ReceiveOpenConnectionReply(a) == ClientStep(a, "replied", "requested", {"CONNECTION_REQUEST"})
ReceiveRefusal(a) == ClientStep(a, "full", "gone", {})

ReceiveConnectionRequestAccepted(a) ==
    /\ \E i \in IndexesOf(a) : remoteSystemList[i].connectMode = "HANDLING_CONNECTION_REQUEST"
    /\ ClientStep(a, "requested", "accepted", {"NEW_INCOMING_CONNECTION", "RPC_ClientJoin"})

ReceiveInitGame(a) ==
    /\ a \in been /\ IndexesOf(a) # {}
    /\ ClientStep(a, "accepted", "playing", {"RPC"})

\* The client stops: what is under way may be lost, and its notification as well.
Leave(a, arriving) ==
    /\ client[a] \notin {"new", "gone"}
    /\ arriving \subseteq up[a] \cup {"DISCONNECTION_NOTIFICATION"}
    /\ client' = [client EXCEPT ![a] = "gone"]
    /\ up' = [up EXCEPT ![a] = arriving]
    /\ UNCHANGED <<libraryVars, bufferedCommands, gameVars, told>>

\* The server closed the connection.
ReceiveDisconnectionNotification(a) ==
    /\ a \in told
    /\ told' = told \ {a}
    /\ client' = [client EXCEPT ![a] = "gone"]
    /\ UNCHANGED <<libraryVars, bufferedCommands, gameVars, up>>

-----------------------------------------------------------------------------
HandlePacket == ClientJoin \/ HandleDisconnected \/ HandleOther

Next ==
    \/ \E a \in Addr :
          \/ ReceiveOpenConnectionRequest(a) \/ \E m \in Messages : Receive(a, m)
          \/ Connect(a) \/ LoseReply(a) \/ ReceiveOpenConnectionReply(a) \/ ReceiveRefusal(a)
          \/ ReceiveConnectionRequestAccepted(a) \/ ReceiveInitGame(a)
          \/ \E arriving \in SUBSET Messages : Leave(a, arriving)
          \/ ReceiveDisconnectionNotification(a)
    \/ ProcessCommands
    \/ \E i \in Index : Fail(i) \/ KickPlayer(i)
    \/ HandlePacket

Spec == Init /\ [][Next]_vars

FailGone(i) == client[remoteSystemList[i].playerId] = "gone" /\ Fail(i)

(* The game's loop takes every packet, and a client that is gone           *)
(* acknowledges nothing any more, which ends its connection after          *)
(* timeoutTime.  Nothing else has to happen.                               *)
FairSpec ==
    /\ Spec
    /\ WF_vars(HandlePacket)
    /\ \A i \in Index : WF_vars(Active(i) /\ FailGone(i))

-----------------------------------------------------------------------------
(* Properties. *)

TypeOK ==
    /\ remoteSystemList \in [Index -> System]
    /\ packets \in Seq(Packet)
    /\ bufferedCommands \in Seq(Addr)
    /\ slot \in [Index -> Addr \cup {Nobody}]
    /\ client \in [Addr -> ClientStates]
    /\ up \in [Addr -> SUBSET Messages]
    /\ told \subseteq Addr /\ been \subseteq Addr
    /\ \A i, j \in Index :
           Active(i) /\ Active(j) /\ remoteSystemList[i].playerId = remoteSystemList[j].playerId
               => i = j

DepartureQueued(i, a) == \E k \in 1 .. Len(packets) :
    packets[k] = [id |-> "DISCONNECTED", playerId |-> a, playerIndex |-> i]

(* A player in the pool has a connection of the same index whose end will  *)
(* be reported, or its end is reported already: nobody is left behind in   *)
(* a slot, and KickPlayer, which asks the library whose index it is, means *)
(* somebody else only while a departure is queued (netgame.cpp:1362).      *)
SlotsAgree == \A i \in Index : slot[i] # Nobody =>
    \/ /\ Active(i) /\ remoteSystemList[i].playerId = slot[i]
       /\ remoteSystemList[i].connectMode
              \in {"CONNECTED", "DISCONNECT_ASAP", "DISCONNECT_ON_NO_ACK"}
    \/ DepartureQueued(i, slot[i])

(* Whatever was closed, reused and kicked while it was in the queue, the   *)
(* next packet is about its sender's player or nobody's: a departure does  *)
(* not remove a successor, a call by current or recorded index does not    *)
(* act on another's player, a player is not made over another              *)
(* (netgame.cpp:1080-1090, netrpc.cpp:44, playerpool.cpp:46).              *)
PacketsHitTheirOwn ==
    packets # <<>> =>
        LET p == Head(packets)
        IN  /\ p.id \in {"DISCONNECTED", "RPC"} => slot[p.playerIndex] \in {p.playerId, Nobody}
            /\ p.id = "RPC" => \A i \in IndexesOf(p.playerId) : slot[i] \in {p.playerId, Nobody}
            /\ p.id = "RPC_ClientJoin" => \A i \in JoinIndexes(p) : slot[i] = Nobody

(* The scripts see clients come and go one at a time in every slot, every  *)
(* client at most once, and a slot whose client went away becomes free.    *)
Promise == INSTANCE PlayerSlots
    WITH occupant <- slot, away <- {a \in Addr : client[a] = "gone"}
ImplementsPlayerSlots == Promise!Spec
=============================================================================
