--------------------------- MODULE RakPeerProofs ---------------------------
(***************************************************************************)
(* Proofs about RakPeer, for any numbers of indexes and of clients: the    *)
(* slots of the game follow the connections of the library, packets act on *)
(* the player they are about, and every step is one of PlayerSlots or      *)
(* leaves what scripts see as it is.                                       *)
(*                                                                         *)
(* The argument.  Nothing is known of a client before its handshake is     *)
(* done (FreshInv), and then it gets no other connection; so the packets   *)
(* about it carry one index, and none is a departure while it is connected *)
(* (QueueInv).  The packets of two clients with one index are therefore in *)
(* the queue in the order of their connections: those of the client that   *)
(* has the index now come last, and those of the client that has the slot  *)
(* first (OrderInv).  A request to join is sent once (JoinInv).            *)
(***************************************************************************)
EXTENDS RakPeer, SequenceTheorems, TLAPS

PacketNumbers == 1 .. Len(packets)

\* The game has not heard of a, and would not hear of the end of its connection.
Fresh(a) ==
    /\ a \notin been
    /\ \A k \in PacketNumbers : packets[k].playerId # a
    /\ \A k \in 1 .. Len(bufferedCommands) : bufferedCommands[k] # a
    /\ \A i \in Index : remoteSystemList[i].playerId = a
                            => ~Reported(remoteSystemList[i].connectMode)

\* No connection of a got further than its opening.
Unverified(a) ==
    \A i \in Index : remoteSystemList[i].playerId = a
                         => remoteSystemList[i].connectMode = "UNVERIFIED_SENDER"

Opening == {"new", "asking", "replied", "full"}

FreshInv == \A a \in Addr :
    /\ client[a] \in Opening => Fresh(a) /\ Unverified(a) /\ up[a] = {}
    /\ client[a] = "requested" => Fresh(a) /\ up[a] \subseteq {"CONNECTION_REQUEST"}
    /\ "CONNECTION_REQUEST" \in up[a]
           => /\ Fresh(a) /\ Unverified(a)
              /\ up[a] \subseteq {"CONNECTION_REQUEST", "DISCONNECTION_NOTIFICATION"}

JoinQueued(k, a) == packets[k].id = "RPC_ClientJoin" /\ packets[k].playerId = a

JoinInv ==
    /\ \A a \in Addr : "RPC_ClientJoin" \in up[a]
           => a \notin been /\ \A k \in PacketNumbers : ~JoinQueued(k, a)
    /\ \A a \in Addr, k \in PacketNumbers : JoinQueued(k, a)
           => a \notin been /\ \A l \in PacketNumbers : JoinQueued(l, a) => l = k
    /\ \A i \in Index : slot[i] # Nobody => slot[i] \in been

AddressInv == \A i \in Index : Active(i) => remoteSystemList[i].playerId \in Addr

QueueInv == \A i \in Index, k \in PacketNumbers :
    Active(i) /\ packets[k].playerId = remoteSystemList[i].playerId
        => packets[k].playerIndex = i /\ packets[k].id # "DISCONNECTED"

Departure(i, a) == [id |-> "DISCONNECTED", playerId |-> a, playerIndex |-> i]

OrderInv ==
    /\ \A i \in Index, k, l \in PacketNumbers :
           Active(i) /\ packets[k].playerId = remoteSystemList[i].playerId
               /\ k < l /\ packets[l].playerIndex = i
                   => packets[l].playerId = remoteSystemList[i].playerId
    /\ \A i \in Index, l \in PacketNumbers :
           slot[i] # Nobody /\ packets[l].playerIndex = i /\ packets[l].playerId # slot[i]
               => \E k \in PacketNumbers : k < l /\ packets[k] = Departure(i, slot[i])

ConnectionInv ==
    TypeOK /\ AddressInv /\ FreshInv /\ JoinInv /\ QueueInv /\ OrderInv /\ SlotsAgree

-----------------------------------------------------------------------------
(* The queues. *)

LEMMA PacketQueued ==
    ASSUME TypeOK, NEW p \in Packet, packets' = Append(packets, p)
    PROVE  /\ packets' \in Seq(Packet)
           /\ PacketNumbers' = PacketNumbers \cup {Len(packets) + 1}
           /\ Len(packets) + 1 \notin PacketNumbers
           /\ \A k \in PacketNumbers : packets'[k] = packets[k] /\ k < Len(packets) + 1
           /\ packets'[Len(packets) + 1] = p
<1>1. packets \in Seq(Packet)
  BY DEF TypeOK
<1>2. Len(packets) \in Nat /\ Len(packets') = Len(packets) + 1
  BY <1>1, AppendProperties, LenProperties
<1>3. QED
  BY <1>1, <1>2, AppendProperties DEF PacketNumbers

LEMMA PacketTaken ==
    ASSUME TypeOK, packets # <<>>, packets' = Tail(packets)
    PROVE  /\ packets' \in Seq(Packet)
           /\ 1 \in PacketNumbers /\ Head(packets) = packets[1] /\ packets[1] \in Packet
           /\ \A k \in PacketNumbers' : k + 1 \in PacketNumbers /\ packets'[k] = packets[k + 1]
           /\ \A k \in PacketNumbers : k # 1 => k - 1 \in PacketNumbers'
           /\ PacketNumbers \subseteq Nat \ {0} /\ PacketNumbers' \subseteq Nat \ {0}
<1>1. packets \in Seq(Packet)
  BY DEF TypeOK
<1>2. Len(packets) \in Nat \ {0} /\ Len(packets') = Len(packets) - 1
  BY <1>1, HeadTailProperties, LenProperties, EmptySeq
<1>3. /\ packets' \in Seq(Packet) /\ Head(packets) = packets[1] /\ Head(packets) \in Packet
      /\ \A k \in 1 .. Len(packets') : packets'[k] = packets[k + 1]
  BY <1>1, HeadTailProperties
<1>4. QED
  BY <1>2, <1>3 DEF PacketNumbers

\* A kick names nobody, or adds one command.
LEMMA KickQueued ==
    ASSUME TypeOK, NEW a \in Addr \cup {Nobody}, Kick(a)
    PROVE  /\ bufferedCommands' \in Seq(Addr)
           /\ \A k \in 1 .. Len(bufferedCommands') :
                 bufferedCommands'[k] = a
                     \/ \E l \in 1 .. Len(bufferedCommands) :
                            bufferedCommands'[k] = bufferedCommands[l]
<1>1. bufferedCommands \in Seq(Addr)
  BY DEF TypeOK
<1>2. CASE a = Nobody
  BY <1>1, <1>2 DEF Kick
<1>3. CASE a # Nobody
  <2>1. a \in Addr /\ bufferedCommands' = Append(bufferedCommands, a)
    BY <1>3 DEF Kick
  <2>2. Len(bufferedCommands) \in Nat /\ Len(bufferedCommands') = Len(bufferedCommands) + 1
    BY <1>1, <2>1, AppendProperties, LenProperties
  <2>3. QED
    BY <1>1, <2>1, <2>2, AppendProperties
<1>4. QED
  BY <1>2, <1>3

\* What a packet holds when the library's thread queues it for the connection i.
LEMMA PacketOf ==
    ASSUME TypeOK, NEW i \in Index, NEW id, AddPacketToProducer(id, i),
           id \in {"NEW_INCOMING_CONNECTION", "RPC_ClientJoin", "RPC", "DISCONNECTED"},
           remoteSystemList[i].playerId \in Addr
    PROVE  LET p == [id |-> id, playerId |-> remoteSystemList[i].playerId, playerIndex |-> i]
           IN  p \in Packet /\ packets' = Append(packets, p)
  BY DEF AddPacketToProducer, Packet

-----------------------------------------------------------------------------
(* The clients' steps leave connections, packets and slots alone. *)

LEMMA ClientsOnly ==
    ASSUME ConnectionInv, UNCHANGED <<libraryVars, bufferedCommands, gameVars>>,
           client' \in [Addr -> ClientStates], up' \in [Addr -> SUBSET Messages],
           told' \subseteq Addr,
           \A a \in Addr :
               \/ client'[a] = client[a] /\ up'[a] \subseteq up[a]
               \/ client[a] = "requested" /\ client'[a] = "accepted" /\ Fresh(a)
                     /\ up[a] = {} /\ "CONNECTION_REQUEST" \notin up'[a]
               \/ client'[a] \in Opening /\ client[a] \in Opening /\ up'[a] = up[a]
               \/ client[a] = "replied" /\ client'[a] = "requested"
                     /\ up'[a] = up[a] \cup {"CONNECTION_REQUEST"}
               \/ client[a] = "accepted" /\ client'[a] = "playing"
                     /\ up'[a] = up[a] \cup {"RPC"} /\ a \in been
               \/ client'[a] = "gone" /\ up'[a] \subseteq up[a] \cup {"DISCONNECTION_NOTIFICATION"}
    PROVE  ConnectionInv'
<1>1. TypeOK'
  BY DEF ConnectionInv, TypeOK, libraryVars, gameVars, Active
<1>2. AddressInv' /\ SlotsAgree' /\ QueueInv' /\ OrderInv'
  BY DEF ConnectionInv, AddressInv, SlotsAgree, QueueInv, OrderInv, libraryVars, gameVars, Active,
         PacketNumbers, Departure, DepartureQueued
<1>3. ASSUME NEW a \in Addr PROVE (Fresh(a)' <=> Fresh(a)) /\ (Unverified(a)' <=> Unverified(a))
  BY DEF Fresh, Unverified, Reported, PacketNumbers, libraryVars, gameVars
<1>4. FreshInv'
  BY <1>3 DEF ConnectionInv, FreshInv, Fresh, Opening
<1>5. ASSUME NEW a \in Addr, NEW k PROVE JoinQueued(k, a)' <=> JoinQueued(k, a)
  BY DEF JoinQueued, libraryVars
<1>6. PacketNumbers' = PacketNumbers /\ been' = been /\ slot' = slot
  BY DEF PacketNumbers, libraryVars, gameVars
<1>7. JoinInv'
  BY <1>5, <1>6 DEF ConnectionInv, JoinInv, FreshInv, Fresh, JoinQueued, Opening
<1>8. QED
  BY <1>1, <1>2, <1>4, <1>7 DEF ConnectionInv

LEMMA ClientStepsKeep ==
    ASSUME ConnectionInv, NEW a \in Addr,
           \/ Connect(a) \/ LoseReply(a) \/ ReceiveOpenConnectionReply(a) \/ ReceiveRefusal(a)
           \/ ReceiveConnectionRequestAccepted(a) \/ ReceiveInitGame(a)
           \/ \E arriving \in SUBSET Messages : Leave(a, arriving)
           \/ ReceiveDisconnectionNotification(a)
    PROVE  ConnectionInv'
<1>1. /\ client \in [Addr -> ClientStates] /\ up \in [Addr -> SUBSET Messages]
      /\ told \subseteq Addr
  BY DEF ConnectionInv, TypeOK
<1>2. CASE Connect(a) \/ LoseReply(a)
  BY <1>1, <1>2, ClientsOnly
  DEF Connect, LoseReply, ClientStep, Opening, ClientStates, libraryVars, gameVars
<1>3. CASE ReceiveOpenConnectionReply(a)
  BY <1>1, <1>3, ClientsOnly
  DEF ReceiveOpenConnectionReply, ClientStep, Opening, ClientStates, Messages
<1>4. CASE ReceiveRefusal(a)
  BY <1>1, <1>4, ClientsOnly DEF ReceiveRefusal, ClientStep, ClientStates
<1>5. CASE ReceiveConnectionRequestAccepted(a)
  \* The request has arrived, for a connection is past its opening.
  <2>1. /\ \E i \in Index : /\ remoteSystemList[i].playerId = a
                            /\ remoteSystemList[i].connectMode = "HANDLING_CONNECTION_REQUEST"
        /\ ClientStep(a, "requested", "accepted", {"NEW_INCOMING_CONNECTION", "RPC_ClientJoin"})
    BY <1>5 DEF ReceiveConnectionRequestAccepted, IndexesOf
  <2>2. Fresh(a) /\ up[a] = {}
    BY <1>1, <2>1 DEF ConnectionInv, FreshInv, Unverified, ClientStep
  <2>3. QED
    BY <1>1, <2>1, <2>2, ClientsOnly DEF ClientStep, ClientStates, Messages
<1>6. CASE ReceiveInitGame(a)
  BY <1>1, <1>6, ClientsOnly DEF ReceiveInitGame, ClientStep, ClientStates, Messages
<1>7. CASE \E arriving \in SUBSET Messages : Leave(a, arriving)
  BY <1>1, <1>7, ClientsOnly DEF Leave, ClientStates
<1>8. CASE ReceiveDisconnectionNotification(a)
  BY <1>1, <1>8, ClientsOnly DEF ReceiveDisconnectionNotification, ClientStates
<1>9. QED
  BY <1>2, <1>3, <1>4, <1>5, <1>6, <1>7, <1>8

-----------------------------------------------------------------------------
(* The library's thread. *)

\* A connection is opened only for a client of which nothing is known.
LEMMA OpenKeeps ==
    ASSUME ConnectionInv, NEW a \in Addr, ReceiveOpenConnectionRequest(a)
    PROVE  ConnectionInv'
<1>1. /\ remoteSystemList \in [Index -> System] /\ client \in [Addr -> ClientStates]
      /\ client[a] \in {"asking", "replied", "full", "requested"} /\ Fresh(a)
      /\ \A i \in Index : Active(i) => remoteSystemList[i].playerId # a
  BY DEF ReceiveOpenConnectionRequest, ConnectionInv, TypeOK, FreshInv, Opening, Unconnected,
         IndexesOf
<1>2. /\ client' \in [Addr -> ClientStates]
      /\ client'[a] \in Opening <=> client[a] \in Opening
      /\ client'[a] = client[a] \/ client'[a] \in Opening
      /\ \A b \in Addr : b # a => client'[b] = client[b]
  BY <1>1 DEF ReceiveOpenConnectionRequest, Answered, ClientStates, Opening
<1>3. UNCHANGED <<packets, bufferedCommands, gameVars, up, told>>
  BY DEF ReceiveOpenConnectionRequest
<1>4. CASE UNCHANGED remoteSystemList
  <2>1. UNCHANGED libraryVars
    BY <1>3, <1>4 DEF libraryVars
  <2>2. /\ up' \in [Addr -> SUBSET Messages] /\ told' \subseteq Addr
        /\ client[a] \in Opening \/ client'[a] = client[a]
    BY <1>2, <1>3 DEF ConnectionInv, TypeOK
  <2>3. QED
    BY <1>2, <1>3, <2>1, <2>2, ClientsOnly
<1>5. CASE \E i \in Index :
             /\ FirstFree(i)
             /\ remoteSystemList' = [remoteSystemList EXCEPT ![i] =
                    [isActive |-> TRUE, playerId |-> a, connectMode |-> "UNVERIFIED_SENDER"]]
  <2>1. PICK i \in Index :
             /\ ~Active(i)
             /\ remoteSystemList' = [remoteSystemList EXCEPT ![i] =
                    [isActive |-> TRUE, playerId |-> a, connectMode |-> "UNVERIFIED_SENDER"]]
    BY <1>5 DEF FirstFree
  <2>2. /\ remoteSystemList'[i].isActive /\ remoteSystemList'[i].playerId = a
        /\ remoteSystemList'[i].connectMode = "UNVERIFIED_SENDER"
        /\ \A j \in Index : j # i => remoteSystemList'[j] = remoteSystemList[j]
    BY <1>1, <2>1
  <2>3. TypeOK'
    <3>1. remoteSystemList' \in [Index -> System]
      BY <1>1, <2>1 DEF System, Modes
    <3>2. QED
      BY SMTT(30), <1>1, <1>2, <1>3, <2>2, <3>1 DEF ConnectionInv, TypeOK, Active, gameVars
  <2>4. FreshInv'
    <3>1. PacketNumbers' = PacketNumbers /\ been' = been
      BY <1>3 DEF PacketNumbers, gameVars
    <3>2. ASSUME NEW b \in Addr PROVE (Fresh(b) => Fresh(b)') /\ (Unverified(b) => Unverified(b)')
      BY <1>3, <2>2, <3>1 DEF Fresh, Unverified, Reported
    <3>3. QED
      BY <1>1, <1>2, <1>3, <3>2 DEF ConnectionInv, FreshInv, Opening
  <2>5. JoinInv'
    BY <1>3 DEF ConnectionInv, JoinInv, JoinQueued, PacketNumbers, gameVars
  <2>6. QueueInv' /\ OrderInv'
    BY <1>1, <1>3, <2>2
    DEF ConnectionInv, QueueInv, OrderInv, Fresh, Active, PacketNumbers, gameVars, Departure
  <2>7. SlotsAgree'
    BY <1>3, <2>1, <2>2 DEF ConnectionInv, SlotsAgree, Active, DepartureQueued, gameVars
  <2>8. AddressInv'
    BY <1>1, <2>2 DEF ConnectionInv, AddressInv, Active
  <2>9. QED
    BY <2>3, <2>4, <2>5, <2>6, <2>7, <2>8 DEF ConnectionInv
<1>6. QED
  BY <1>4, <1>5 DEF ReceiveOpenConnectionRequest

\* The library has put a behind the beginning of its handshake.
Heard(a) ==
    client[a] \notin Opening \cup {"requested"} /\ "CONNECTION_REQUEST" \notin up'[a]

\* What one step of the library does to a connection and to the queue.
Becomes(i, r) == remoteSystemList' = [remoteSystemList EXCEPT ![i] = r]
Queued(p) == packets' = Append(packets, p)

\* One connection changes its mode or is closed, of which the game is not told.
LEMMA ConnectionQuiet ==
    ASSUME ConnectionInv, NEW i \in Index, NEW a \in Addr, NEW r \in System,
           Active(i), remoteSystemList[i].playerId = a, r.playerId = a,
           Becomes(i, r),
           UNCHANGED <<packets, bufferedCommands, gameVars, client, told>>,
           up' \in [Addr -> SUBSET Messages], \A b \in Addr : up'[b] \subseteq up[b],
           r.connectMode # "UNVERIFIED_SENDER"
               => "CONNECTION_REQUEST" \notin up'[a] /\ client[a] \notin Opening,
           Reported(r.connectMode) => Heard(a),
           Reported(remoteSystemList[i].connectMode) => r.isActive /\ Reported(r.connectMode)
    PROVE  ConnectionInv'
<1>1. /\ remoteSystemList' \in [Index -> System] /\ remoteSystemList'[i] = r
      /\ \A j \in Index : j # i => remoteSystemList'[j] = remoteSystemList[j]
  BY DEF ConnectionInv, TypeOK, Becomes
<1>2. TypeOK'
  BY <1>1 DEF ConnectionInv, TypeOK, Active, gameVars
<1>3. FreshInv'
  <2>1. PacketNumbers' = PacketNumbers /\ been' = been
    BY DEF PacketNumbers, gameVars
  <2>2. ASSUME NEW b \in Addr, b = a => ~Heard(a) PROVE Fresh(b) => Fresh(b)'
    BY <1>1, <2>1, <2>2 DEF Fresh, Reported
  <2>3. ASSUME NEW b \in Addr, b = a => "CONNECTION_REQUEST" \in up'[a] \/ client[a] \in Opening
        PROVE  Unverified(b) => Unverified(b)'
    BY <1>1, <2>3 DEF Unverified
  <2>4. QED
    BY <2>2, <2>3 DEF ConnectionInv, FreshInv, Opening, Heard
<1>4. JoinInv'
  BY DEF ConnectionInv, JoinInv, JoinQueued, PacketNumbers, gameVars
<1>5. QueueInv' /\ OrderInv'
  BY <1>1 DEF ConnectionInv, QueueInv, OrderInv, Active, PacketNumbers, gameVars, Departure
<1>6. SlotsAgree'
  BY <1>1 DEF ConnectionInv, SlotsAgree, Active, DepartureQueued, gameVars, Reported
<1>7. AddressInv'
  BY <1>1 DEF ConnectionInv, AddressInv, Active
<1>8. QED
  BY <1>2, <1>3, <1>4, <1>5, <1>6, <1>7 DEF ConnectionInv

\* One connection changes its mode or is closed, and a packet about it is queued.
LEMMA ConnectionReports ==
    ASSUME ConnectionInv, NEW i \in Index, NEW a \in Addr, NEW r \in System, NEW p \in Packet,
           Active(i), remoteSystemList[i].playerId = a, r.playerId = a,
           p.playerId = a, p.playerIndex = i,
           Becomes(i, r),
           Queued(p),
           UNCHANGED <<bufferedCommands, gameVars, client, told>>,
           up' \in [Addr -> SUBSET Messages], \A b \in Addr : up'[b] \subseteq up[b],
           Heard(a),
           p.id = "DISCONNECTED" <=> ~r.isActive,
           p.id = "RPC_ClientJoin" => "RPC_ClientJoin" \in up[a] /\ "RPC_ClientJoin" \notin up'[a],
           Reported(remoteSystemList[i].connectMode) => Reported(r.connectMode)
    PROVE  ConnectionInv'
<1>1. /\ remoteSystemList' \in [Index -> System] /\ remoteSystemList'[i] = r
      /\ \A j \in Index : j # i => remoteSystemList'[j] = remoteSystemList[j]
  BY DEF ConnectionInv, TypeOK, Becomes
<1>0. PICK n : n = Len(packets) + 1
  OBVIOUS
<1>2. /\ packets' \in Seq(Packet)
      /\ PacketNumbers' = PacketNumbers \cup {n} /\ n \notin PacketNumbers
      /\ \A k \in PacketNumbers : packets'[k] = packets[k] /\ k < n
      /\ packets'[n] = p
  BY <1>0, PacketQueued DEF ConnectionInv, Queued
<1>3. PacketNumbers' \subseteq Int
  BY DEF PacketNumbers
<1>4. TypeOK'
  <2>1. \A j \in Index : Active(j)'
            => Active(j) /\ remoteSystemList'[j].playerId = remoteSystemList[j].playerId
    BY <1>1 DEF Active
  <2>2. \A j, l \in Index : Active(j)' /\ Active(l)'
            /\ remoteSystemList'[j].playerId = remoteSystemList'[l].playerId => j = l
    BY <2>1 DEF ConnectionInv, TypeOK
  <2>3. QED
    BY <1>1, <1>2, <2>2 DEF ConnectionInv, TypeOK, gameVars
<1>5. FreshInv'
  <2>1. ASSUME NEW b \in Addr, b # a PROVE Fresh(b) => Fresh(b)'
    BY <1>1, <1>2, <2>1 DEF Fresh, gameVars
  <2>2. ASSUME NEW b \in Addr, b # a PROVE Unverified(b) => Unverified(b)'
    BY <1>1, <2>2 DEF Unverified
  <2>3. QED
    BY <2>1, <2>2 DEF ConnectionInv, FreshInv, Opening, Heard
<1>6. JoinInv'
  <2>1. ASSUME NEW b \in Addr, NEW k \in PacketNumbers
        PROVE  JoinQueued(k, b)' <=> JoinQueued(k, b)
    BY <1>2 DEF JoinQueued
  <2>2. ASSUME NEW b \in Addr
        PROVE  JoinQueued(n, b)' <=> p.id = "RPC_ClientJoin" /\ b = a
    BY <1>2 DEF JoinQueued
  <2>3. QED
    BY <1>2, <2>1, <2>2 DEF ConnectionInv, JoinInv, gameVars
<1>7. \A j \in Index : Active(j) /\ remoteSystemList[j].playerId = a => j = i
  BY DEF ConnectionInv, TypeOK
<1>8. QueueInv'
  <2> SUFFICES ASSUME NEW j \in Index, NEW k \in PacketNumbers',
                      Active(j)', packets'[k].playerId = remoteSystemList'[j].playerId
               PROVE  packets'[k].playerIndex = j /\ packets'[k].id # "DISCONNECTED"
    BY DEF QueueInv
  <2>1. Active(j) /\ remoteSystemList'[j].playerId = remoteSystemList[j].playerId
    BY <1>1 DEF Active
  <2>2. CASE k = n
    BY <1>1, <1>2, <1>7, <2>1, <2>2 DEF Active
  <2>3. CASE k # n
    BY <1>2, <2>1, <2>3 DEF ConnectionInv, QueueInv
  <2>4. QED
    BY <2>2, <2>3
<1>9. OrderInv'
  <2>1. ASSUME NEW j \in Index, NEW k \in PacketNumbers', NEW l \in PacketNumbers',
               Active(j)', packets'[k].playerId = remoteSystemList'[j].playerId,
               k < l, packets'[l].playerIndex = j
        PROVE  packets'[l].playerId = remoteSystemList'[j].playerId
    <3>1. Active(j) /\ remoteSystemList'[j].playerId = remoteSystemList[j].playerId
      BY <1>1, <2>1 DEF Active
    <3>2. k # n
      BY <1>2, <1>3, <2>1
    <3>3. CASE l = n
      <4>1. j = i
        BY <1>2, <2>1, <3>3
      <4>2. QED
        BY <1>1, <1>2, <3>3, <4>1
    <3>4. CASE l # n
      BY <1>2, <2>1, <3>1, <3>2, <3>4 DEF ConnectionInv, OrderInv
    <3>5. QED
      BY <3>3, <3>4
  <2>2. ASSUME NEW j \in Index, NEW l \in PacketNumbers',
               slot[j] # Nobody, packets'[l].playerIndex = j, packets'[l].playerId # slot[j]
        PROVE  \E k \in PacketNumbers' : k < l /\ packets'[k] = Departure(j, slot[j])
    \* A new packet is about who has the index now, so the slot's owner has left it.
    <3>1. CASE l = n
      <4>1. DepartureQueued(j, slot[j])
        BY <1>2, <2>2, <3>1 DEF ConnectionInv, SlotsAgree
      <4>2. PICK k \in PacketNumbers : packets[k] = Departure(j, slot[j])
        BY <4>1 DEF DepartureQueued, Departure, PacketNumbers
      <4>3. QED
        BY <1>2, <3>1, <4>2
    <3>2. CASE l # n
      BY <1>2, <2>2, <3>2 DEF ConnectionInv, OrderInv
    <3>3. QED
      BY <3>1, <3>2
  <2>3. slot' = slot
    BY DEF gameVars
  <2>4. QED
    BY <2>1, <2>2, <2>3 DEF OrderInv, Departure, Active
<1>10. SlotsAgree'
  <2> SUFFICES ASSUME NEW j \in Index, slot[j] # Nobody
               PROVE  \/ /\ Active(j)' /\ remoteSystemList'[j].playerId = slot[j]
                         /\ Reported(remoteSystemList'[j].connectMode)
                      \/ \E k \in PacketNumbers' : packets'[k] = Departure(j, slot[j])
    BY DEF SlotsAgree, Reported, DepartureQueued, Departure, PacketNumbers, gameVars
  <2>1. \/ /\ Active(j) /\ remoteSystemList[j].playerId = slot[j]
           /\ Reported(remoteSystemList[j].connectMode)
        \/ \E k \in PacketNumbers : packets[k] = Departure(j, slot[j])
    BY DEF ConnectionInv, SlotsAgree, Reported, DepartureQueued, Departure, PacketNumbers
  <2>2. CASE j = i /\ remoteSystemList[j].playerId = slot[j] /\ ~r.isActive
    BY <1>2, <2>2 DEF Packet, Departure
  <2>3. CASE ~(j = i /\ remoteSystemList[j].playerId = slot[j] /\ ~r.isActive)
    BY <1>1, <1>2, <2>1, <2>3 DEF Active
  <2>4. QED
    BY <2>2, <2>3
<1>11. AddressInv'
  BY <1>1 DEF ConnectionInv, AddressInv, Active
<1>12. QED
  BY <1>4, <1>5, <1>6, <1>8, <1>9, <1>10, <1>11 DEF ConnectionInv

\* A message without a connection is lost; one that has a connection changes its mode,
\* closes it, or is queued for the game.
LEMMA ReceiveKeeps ==
    ASSUME ConnectionInv, NEW a \in Addr, NEW m \in Messages, Receive(a, m)
    PROVE  ConnectionInv'
<1>1. /\ m \in up[a]
      /\ up' \in [Addr -> SUBSET Messages]
      /\ up'[a] = up[a] \ {m} /\ \A b \in Addr : up'[b] \subseteq up[b]
      /\ UNCHANGED <<bufferedCommands, gameVars, client, told>>
  BY DEF Receive, ConnectionInv, TypeOK
<1>2. CASE UNCHANGED libraryVars
  <2>1. client' \in [Addr -> ClientStates] /\ told' \subseteq Addr
    BY <1>1 DEF ConnectionInv, TypeOK
  <2>2. QED
    BY <1>1, <1>2, <2>1, ClientsOnly
<1>3. ASSUME NEW i \in IndexesOf(a), Handle(i, m)
      PROVE  ConnectionInv'
  <2>1. i \in Index /\ Active(i) /\ remoteSystemList[i].playerId = a
    BY DEF IndexesOf
  <2>2. remoteSystemList \in [Index -> System] /\ remoteSystemList[i] \in System
    BY <2>1 DEF ConnectionInv, TypeOK
  <2>3. ASSUME remoteSystemList[i].connectMode # "UNVERIFIED_SENDER"
        PROVE  "CONNECTION_REQUEST" \notin up[a] /\ client[a] \notin Opening
    BY <2>1, <2>3 DEF ConnectionInv, FreshInv, Unverified
  <2>4. ASSUME m # "CONNECTION_REQUEST", remoteSystemList[i].connectMode # "UNVERIFIED_SENDER"
        PROVE  Heard(a)
    BY <1>1, <2>3, <2>4 DEF ConnectionInv, FreshInv, Heard
  <2> DEFINE InMode(mode) == [remoteSystemList[i] EXCEPT !.connectMode = mode]
  <2>5. \A mode \in Modes : /\ InMode(mode) \in System /\ InMode(mode).playerId = a
                            /\ InMode(mode).connectMode = mode /\ InMode(mode).isActive
                            /\ SetMode(i, mode) => Becomes(i, InMode(mode))
    BY <2>1, <2>2 DEF System, SetMode, Becomes, Active
  <2> HIDE DEF InMode
  <2>6. CASE m = "CONNECTION_REQUEST" /\ ReceiveConnectionRequest(i)
    <3>1. Unverified(a)
      BY <1>1, <2>6 DEF ConnectionInv, FreshInv
    <3>2. PICK mode \in {"HANDLING_CONNECTION_REQUEST", "DISCONNECT_ASAP_SILENTLY"} :
              SetMode(i, mode) /\ UNCHANGED packets
      BY <2>1, <2>6, <3>1 DEF ReceiveConnectionRequest, Unverified
    <3>3. mode \in Modes /\ ~Reported(mode) /\ ~Reported(remoteSystemList[i].connectMode)
      BY <2>1, <3>1, <3>2 DEF Modes, Reported, Unverified
    <3>4. client[a] \notin Opening
      BY <1>1, <2>6 DEF ConnectionInv, FreshInv
    <3>5. QED
      BY <1>1, <2>1, <2>5, <2>6, <3>2, <3>3, <3>4, ConnectionQuiet
  <2>7. CASE /\ m # "CONNECTION_REQUEST"
             /\ remoteSystemList[i].connectMode = "UNVERIFIED_SENDER"
             /\ Closed(i) /\ UNCHANGED packets
    <3> DEFINE r == [remoteSystemList[i] EXCEPT !.isActive = FALSE]
    <3>1. r \in System /\ r.playerId = a /\ r.connectMode = "UNVERIFIED_SENDER" /\ Becomes(i, r)
      BY <2>1, <2>2, <2>7 DEF System, Closed, Becomes
    <3> HIDE DEF r
    <3>2. ~Reported(r.connectMode) /\ ~Reported(remoteSystemList[i].connectMode)
      BY <2>7, <3>1 DEF Reported
    <3>3. QED
      BY <1>1, <2>1, <2>7, <3>1, <3>2, ConnectionQuiet
  <2>8. CASE /\ remoteSystemList[i].connectMode # "UNVERIFIED_SENDER"
             /\ m = "NEW_INCOMING_CONNECTION" /\ ReceiveNewIncomingConnection(i)
    <3>1. CASE UNCHANGED libraryVars
      BY <1>2, <3>1
    <3>2. CASE SetMode(i, "CONNECTED") /\ AddPacketToProducer("NEW_INCOMING_CONNECTION", i)
      <4> DEFINE p == [id |-> "NEW_INCOMING_CONNECTION", playerId |-> a, playerIndex |-> i]
      <4>1. p \in Packet /\ Queued(p)
        BY <2>1, <3>2 DEF AddPacketToProducer, Packet, Queued
      <4>2. p.playerId = a /\ p.playerIndex = i /\ p.id = "NEW_INCOMING_CONNECTION"
        OBVIOUS
      <4> HIDE DEF p
      <4>3. Reported("CONNECTED") /\ "CONNECTED" \in Modes
        BY DEF Reported, Modes
      <4>4. QED
        BY <1>1, <2>1, <2>4, <2>5, <2>8, <3>2, <4>1, <4>2, <4>3, ConnectionReports
    <3>3. QED
      BY <2>8, <3>1, <3>2 DEF ReceiveNewIncomingConnection
  <2>9. CASE /\ remoteSystemList[i].connectMode # "UNVERIFIED_SENDER"
             /\ m = "DISCONNECTION_NOTIFICATION"
             /\ SetMode(i, "DISCONNECT_ON_NO_ACK") /\ UNCHANGED packets
    <3>1. Reported("DISCONNECT_ON_NO_ACK") /\ "DISCONNECT_ON_NO_ACK" \in Modes
      BY DEF Reported, Modes
    <3>2. Heard(a)
      BY <2>4, <2>9
    <3>3. QED
      BY <1>1, <2>1, <2>5, <2>9, <3>1, <3>2, ConnectionQuiet DEF Heard
  <2>10. CASE /\ remoteSystemList[i].connectMode # "UNVERIFIED_SENDER"
              /\ m \in {"RPC_ClientJoin", "RPC"}
              /\ AddPacketToProducer(m, i) /\ UNCHANGED remoteSystemList
    <3> DEFINE p == [id |-> m, playerId |-> a, playerIndex |-> i]
    <3>1. p \in Packet /\ Queued(p)
      BY <2>1, <2>10 DEF AddPacketToProducer, Packet, Queued
    <3>2. p.playerId = a /\ p.playerIndex = i /\ p.id = m
      OBVIOUS
    <3> HIDE DEF p
    <3>3. Becomes(i, remoteSystemList[i])
      BY <2>1, <2>2, <2>10 DEF Becomes
    <3>4. Heard(a) /\ remoteSystemList[i].isActive /\ m # "DISCONNECTED"
      BY <2>1, <2>4, <2>10 DEF Active
    <3>5. QED
      BY <1>1, <2>1, <2>2, <2>10, <3>1, <3>2, <3>3, <3>4, ConnectionReports
  <2>11. QED
    BY <1>3, <2>6, <2>7, <2>8, <2>9, <2>10 DEF Handle
<1>4. QED
  BY <1>2, <1>3 DEF Receive

\* A connection that fails is closed, and its end reported if the game may know of it.
LEMMA FailKeeps ==
    ASSUME ConnectionInv, NEW i \in Index, Fail(i)
    PROVE  ConnectionInv'
<1>1. PICK a \in Addr : a = remoteSystemList[i].playerId
  BY DEF Fail, ConnectionInv, AddressInv
<1>2. PICK r : r = [remoteSystemList[i] EXCEPT !.isActive = FALSE]
  OBVIOUS
<1>3. /\ remoteSystemList[i] \in System
      /\ r \in System /\ r.playerId = a /\ ~r.isActive /\ Becomes(i, r)
      /\ r.connectMode = remoteSystemList[i].connectMode
  BY <1>1, <1>2 DEF ConnectionInv, TypeOK, System, Fail, Closed, Becomes
<1>4. /\ Active(i)
      /\ UNCHANGED <<bufferedCommands, gameVars, client, up, told>>
      /\ up' \in [Addr -> SUBSET Messages] /\ \A b \in Addr : up'[b] \subseteq up[b]
  BY DEF Fail, ConnectionInv, TypeOK
<1>5. /\ r.connectMode # "UNVERIFIED_SENDER"
             => "CONNECTION_REQUEST" \notin up'[a] /\ client[a] \notin Opening
      /\ Reported(r.connectMode) => Heard(a)
  BY <1>1, <1>3, <1>4 DEF ConnectionInv, FreshInv, Fresh, Unverified, Heard
<1>6. CASE ~Reported(remoteSystemList[i].connectMode)
  <2>1. UNCHANGED packets
    BY <1>6 DEF Fail
  <2>2. QED
    BY <1>1, <1>3, <1>4, <1>5, <1>6, <2>1, ConnectionQuiet
<1>7. CASE Reported(remoteSystemList[i].connectMode)
  <2>1. PICK p : p = [id |-> "DISCONNECTED", playerId |-> a, playerIndex |-> i]
    OBVIOUS
  <2>2. /\ p \in Packet /\ Queued(p)
        /\ p.playerId = a /\ p.playerIndex = i /\ p.id = "DISCONNECTED"
    BY <1>1, <1>7, <2>1 DEF Fail, AddPacketToProducer, Packet, Queued
  <2>3. QED
    BY <1>1, <1>3, <1>4, <1>5, <1>7, <2>2, ConnectionReports
<1>8. QED
  BY <1>6, <1>7

\* The connections that the game wants closed are past their handshake.
LEMMA ProcessCommandsKeep ==
    ASSUME ConnectionInv, ProcessCommands
    PROVE  ConnectionInv'
<1> DEFINE Wanted(i) == Active(i) /\ \E k \in 1 .. Len(bufferedCommands) :
                            remoteSystemList[i].playerId = bufferedCommands[k]
<1>1. /\ bufferedCommands' = <<>>
      /\ UNCHANGED <<packets, gameVars, client, up>>
  BY DEF ProcessCommands
<1>2. /\ remoteSystemList' \in [Index -> System]
      /\ \A i \in Index :
            /\ remoteSystemList'[i].isActive = remoteSystemList[i].isActive
            /\ remoteSystemList'[i].playerId = remoteSystemList[i].playerId
            /\ remoteSystemList'[i].connectMode =
                  IF Wanted(i) THEN "DISCONNECT_ASAP" ELSE remoteSystemList[i].connectMode
  BY DEF ProcessCommands, ConnectionInv, TypeOK, System, Modes, Active
<1>3. told' \subseteq Addr
  BY DEF ProcessCommands, ConnectionInv, TypeOK, AddressInv, Active
<1>4. \A a \in Addr, i \in Index : Fresh(a) /\ Wanted(i) => remoteSystemList[i].playerId # a
  BY DEF Fresh
<1> HIDE DEF Wanted
<1>5. TypeOK'
  BY <1>1, <1>2, <1>3 DEF ConnectionInv, TypeOK, Active, gameVars
<1>6. FreshInv'
  <2>1. PacketNumbers' = PacketNumbers /\ been' = been /\ Len(bufferedCommands') = 0
    BY <1>1 DEF PacketNumbers, gameVars
  <2>2. ASSUME NEW a \in Addr, Fresh(a) PROVE Fresh(a)' /\ (Unverified(a) => Unverified(a)')
    BY <1>1, <1>2, <1>4, <2>1, <2>2 DEF Fresh, Unverified
  <2>3. QED
    BY <1>1, <2>2 DEF ConnectionInv, FreshInv, Opening
<1>7. JoinInv'
  BY <1>1 DEF ConnectionInv, JoinInv, JoinQueued, PacketNumbers, gameVars
<1>8. AddressInv' /\ QueueInv' /\ OrderInv'
  BY <1>1, <1>2
  DEF ConnectionInv, AddressInv, QueueInv, OrderInv, Active, PacketNumbers, gameVars, Departure
<1>9. SlotsAgree'
  BY <1>1, <1>2 DEF ConnectionInv, SlotsAgree, Active, DepartureQueued, gameVars
<1>10. QED
  BY <1>5, <1>6, <1>7, <1>8, <1>9 DEF ConnectionInv

-----------------------------------------------------------------------------
(* The game's thread. *)

Taken == packets # <<>> /\ packets' = Tail(packets)

\* Taking the next packet keeps what is known of the rest, whatever becomes of the slots
\* as long as a departure frees its slot.
LEMMA TakeKeeps ==
    ASSUME ConnectionInv, Taken,
           UNCHANGED <<remoteSystemList, client, up, told>>,
           bufferedCommands' \in Seq(Addr),
           slot' \in [Index -> Addr \cup {Nobody}], been' \subseteq Addr, been \subseteq been',
           \A a \in Addr : Fresh(a) =>
               /\ a \notin been'
               /\ \A k \in 1 .. Len(bufferedCommands') : bufferedCommands'[k] # a,
           \A a \in been' \ been : packets[1].id = "RPC_ClientJoin" /\ packets[1].playerId = a,
           \A i \in Index : slot'[i] # Nobody =>
               \/ slot'[i] = slot[i] /\ packets[1] # Departure(i, slot[i])
               \/ /\ packets[1].playerIndex = i /\ packets[1].playerId = slot'[i]
                  /\ slot'[i] \in been'
                  /\ Active(i) /\ remoteSystemList[i].playerId = slot'[i]
                  /\ Reported(remoteSystemList[i].connectMode)
    PROVE  ConnectionInv'
<1>1. /\ packets' \in Seq(Packet)
      /\ 1 \in PacketNumbers /\ packets[1] \in Packet
      /\ \A k \in PacketNumbers' : k + 1 \in PacketNumbers /\ packets'[k] = packets[k + 1]
      /\ \A k \in PacketNumbers : k # 1 => k - 1 \in PacketNumbers'
      /\ PacketNumbers \subseteq Nat \ {0} /\ PacketNumbers' \subseteq Nat \ {0}
  BY PacketTaken DEF ConnectionInv, Taken
<1>2. \A k \in PacketNumbers : k # 1 => packets[k] = packets'[k - 1]
  BY <1>1
<1>3. TypeOK'
  BY <1>1 DEF ConnectionInv, TypeOK, Active
<1>4. FreshInv'
  <2>1. ASSUME NEW a \in Addr, Fresh(a) PROVE Fresh(a)'
    BY <1>1, <2>1 DEF Fresh
  <2>2. ASSUME NEW a \in Addr PROVE Unverified(a)' <=> Unverified(a)
    BY DEF Unverified
  <2>3. QED
    BY <2>1, <2>2 DEF ConnectionInv, FreshInv, Opening
<1>5. JoinInv'
  <2>1. ASSUME NEW a \in Addr, NEW k \in PacketNumbers'
        PROVE  JoinQueued(k, a)' <=> JoinQueued(k + 1, a)
    BY <1>1 DEF JoinQueued
  <2>2. ASSUME NEW a \in Addr, "RPC_ClientJoin" \in up[a]
        PROVE  a \notin been' /\ \A k \in PacketNumbers' : ~JoinQueued(k, a)'
    BY <1>1, <2>1, <2>2 DEF ConnectionInv, JoinInv, JoinQueued
  <2>3. ASSUME NEW a \in Addr, NEW k \in PacketNumbers', JoinQueued(k, a)'
        PROVE  a \notin been' /\ \A l \in PacketNumbers' : JoinQueued(l, a)' => l = k
    <3>1. JoinQueued(k + 1, a) /\ k + 1 \in PacketNumbers /\ k + 1 # 1
      BY <1>1, <2>1, <2>3
    <3>2. a \notin been /\ \A l \in PacketNumbers : JoinQueued(l, a) => l = k + 1
      BY <3>1 DEF ConnectionInv, JoinInv
    <3>3. ~JoinQueued(1, a)
      BY <1>1, <3>1, <3>2
    <3>4. \A l \in PacketNumbers' : JoinQueued(l, a)' => l + 1 = k + 1
      BY <1>1, <2>1, <3>2
    <3>5. \A l \in PacketNumbers' : l + 1 = k + 1 => l = k
      BY <1>1
    <3>6. QED
      BY <3>2, <3>3, <3>4, <3>5 DEF JoinQueued
  <2>4. \A i \in Index : slot'[i] # Nobody => slot'[i] \in been'
    BY DEF ConnectionInv, JoinInv
  <2>5. QED
    BY <2>2, <2>3, <2>4 DEF JoinInv
<1>6. AddressInv' /\ QueueInv'
  BY <1>1 DEF ConnectionInv, AddressInv, QueueInv, Active
<1>7. OrderInv'
  <2>1. ASSUME NEW i \in Index, NEW k \in PacketNumbers', NEW l \in PacketNumbers',
               Active(i)', packets'[k].playerId = remoteSystemList'[i].playerId,
               k < l, packets'[l].playerIndex = i
        PROVE  packets'[l].playerId = remoteSystemList'[i].playerId
    <3>1. k + 1 \in PacketNumbers /\ l + 1 \in PacketNumbers /\ k + 1 < l + 1
      BY <1>1, <2>1
    <3>2. QED
      BY SMTT(30), <1>1, <2>1, <3>1 DEF ConnectionInv, OrderInv, Active
  <2>2. ASSUME NEW i \in Index, NEW l \in PacketNumbers',
               slot'[i] # Nobody, packets'[l].playerIndex = i, packets'[l].playerId # slot'[i]
        PROVE  \E k \in PacketNumbers' : k < l /\ packets'[k] = Departure(i, slot'[i])
    <3>1. /\ l + 1 \in PacketNumbers /\ 1 < l + 1
          /\ packets[l + 1].playerIndex = i /\ packets[l + 1].playerId # slot'[i]
      BY <1>1, <2>2
    \* The packets behind a request to join that name its index are about the same client.
    <3>2. slot'[i] = slot[i] /\ packets[1] # Departure(i, slot[i])
      BY <1>1, <2>2, <3>1 DEF ConnectionInv, OrderInv
    <3>3. PICK k \in PacketNumbers : k < l + 1 /\ packets[k] = Departure(i, slot[i])
      BY <2>2, <3>1, <3>2 DEF ConnectionInv, OrderInv
    <3>4. k - 1 \in PacketNumbers' /\ k - 1 < l /\ packets'[k - 1] = packets[k]
      BY <1>1, <1>2, <3>2, <3>3
    <3>5. QED
      BY <3>2, <3>3, <3>4
  <2>3. QED
    BY <2>1, <2>2 DEF OrderInv, Departure
<1>8. SlotsAgree'
  <2> SUFFICES ASSUME NEW i \in Index, slot'[i] # Nobody
               PROVE  \/ /\ Active(i) /\ remoteSystemList[i].playerId = slot'[i]
                         /\ Reported(remoteSystemList[i].connectMode)
                      \/ \E k \in PacketNumbers' : packets'[k] = Departure(i, slot'[i])
    BY DEF SlotsAgree, Reported, DepartureQueued, Departure, PacketNumbers, Active
  <2>1. CASE slot'[i] = slot[i] /\ packets[1] # Departure(i, slot[i])
    <3>1. \/ /\ Active(i) /\ remoteSystemList[i].playerId = slot[i]
             /\ Reported(remoteSystemList[i].connectMode)
          \/ \E k \in PacketNumbers : packets[k] = Departure(i, slot[i])
      BY <2>1 DEF ConnectionInv, SlotsAgree, Reported, DepartureQueued, Departure, PacketNumbers
    <3>2. QED
      BY <1>1, <1>2, <2>1, <3>1
  <2>2. QED
    BY <2>1
<1>9. QED
  BY <1>3, <1>4, <1>5, <1>6, <1>7, <1>8 DEF ConnectionInv

\* The next packet acts on its sender's player or on nobody's: the packets of others with
\* the same index are on the other side of a departure.
LEMMA HitsItsOwn ==
    ASSUME ConnectionInv
    PROVE  PacketsHitTheirOwn
<1> SUFFICES ASSUME packets # <<>> PROVE PacketsHitTheirOwn
  BY DEF PacketsHitTheirOwn
<1>1. packets \in Seq(Packet) /\ Len(packets) \in Nat \ {0} /\ Head(packets) = packets[1]
  BY HeadTailProperties, LenProperties, EmptySeq DEF ConnectionInv, TypeOK
<1>2. 1 \in PacketNumbers /\ ~\E k \in PacketNumbers : k < 1
  BY <1>1 DEF PacketNumbers
<1>3. PICK p \in Packet : p = packets[1]
  BY <1>1, <1>2, ElementOfSeq DEF PacketNumbers
<1>4. slot[p.playerIndex] \in {p.playerId, Nobody}
  BY <1>2, <1>3 DEF ConnectionInv, OrderInv, Packet
<1>5. \A i \in IndexesOf(p.playerId) : i = p.playerIndex
  BY <1>2, <1>3 DEF ConnectionInv, QueueInv, IndexesOf
<1>6. ASSUME p.id = "RPC_ClientJoin", NEW i \in JoinIndexes(p)
      PROVE  slot[i] = Nobody
  <2>1. i \in Index /\ i = p.playerIndex
    BY <1>5 DEF JoinIndexes, IndexesOf
  <2>2. p.playerId \notin been /\ p.playerId \in Addr
    BY <1>2, <1>3, <1>6 DEF ConnectionInv, JoinInv, JoinQueued, Packet
  <2>3. QED
    BY <1>4, <2>1, <2>2 DEF ConnectionInv, JoinInv
<1>7. QED
  BY <1>1, <1>3, <1>4, <1>5, <1>6 DEF PacketsHitTheirOwn

\* ClientJoin finds the index that was recorded with the request.
LEMMA ClientJoinKeeps ==
    ASSUME ConnectionInv, ClientJoin
    PROVE  ConnectionInv'
<1>1. /\ Taken /\ Head(packets).id = "RPC_ClientJoin"
      /\ UNCHANGED <<remoteSystemList, client, up, told>>
  BY DEF ClientJoin, NextPacket, Taken
<1>2. PICK p \in Packet : p = packets[1] /\ p = Head(packets) /\ 1 \in PacketNumbers
  BY <1>1, PacketTaken DEF Taken, ConnectionInv
<1>3. /\ p.playerId \in Addr /\ JoinQueued(1, p.playerId)
      /\ \A i \in Index : packets[1] # Departure(i, slot[i])
  BY <1>1, <1>2 DEF Packet, JoinQueued, Departure
<1>4. /\ p.playerId \notin been /\ ~Fresh(p.playerId)
      /\ \A i \in IndexesOf(p.playerId) : p.playerIndex = i
  BY <1>2, <1>3 DEF ConnectionInv, JoinInv, Fresh, QueueInv, IndexesOf, JoinQueued
<1>5. /\ bufferedCommands \in Seq(Addr)
      /\ slot \in [Index -> Addr \cup {Nobody}] /\ been \subseteq Addr
      /\ \A a \in Addr : Fresh(a) =>
             a \notin been /\ \A k \in 1 .. Len(bufferedCommands) : bufferedCommands[k] # a
  BY DEF ConnectionInv, TypeOK, Fresh
<1>6. CASE /\ UNCHANGED bufferedCommands
           /\ \E i \in JoinIndexes(p) : /\ slot' = [slot EXCEPT ![i] = p.playerId]
                                        /\ been' = been \cup {p.playerId}
  <2>1. PICK i \in JoinIndexes(p) : /\ slot' = [slot EXCEPT ![i] = p.playerId]
                                    /\ been' = been \cup {p.playerId}
    BY <1>6
  <2>2. /\ i \in Index /\ i \in IndexesOf(p.playerId)
        /\ Active(i) /\ remoteSystemList[i].playerId = p.playerId
        /\ Reported(remoteSystemList[i].connectMode)
    BY DEF JoinIndexes, IndexesOf, GetPlayerIDFromIndex, Reported
  <2>3. /\ slot' \in [Index -> Addr \cup {Nobody}] /\ slot'[i] = p.playerId
        /\ \A j \in Index : j # i => slot'[j] = slot[j]
    BY <1>3, <1>5, <2>1, <2>2
  <2>4. QED
    BY <1>1, <1>2, <1>3, <1>4, <1>5, <1>6, <2>1, <2>2, <2>3, TakeKeeps DEF JoinQueued
<1>7. CASE Kick(p.playerId) /\ UNCHANGED gameVars
  <2>1. /\ bufferedCommands' \in Seq(Addr)
        /\ \A k \in 1 .. Len(bufferedCommands') :
              bufferedCommands'[k] = p.playerId
                  \/ \E l \in 1 .. Len(bufferedCommands) :
                         bufferedCommands'[k] = bufferedCommands[l]
    BY <1>3, <1>7, KickQueued DEF ConnectionInv
  <2>2. slot' = slot /\ been' = been
    BY <1>7 DEF gameVars
  <2>3. QED
    BY <1>1, <1>3, <1>4, <1>5, <2>1, <2>2, TakeKeeps
<1>8. CASE UNCHANGED <<bufferedCommands, gameVars>>
  BY <1>1, <1>3, <1>5, <1>8, TakeKeeps DEF gameVars
<1>9. QED
  BY <1>2, <1>6, <1>7, <1>8 DEF ClientJoin

\* A departure frees the slot; the other packets leave the slots as they are.
LEMMA HandleDisconnectedKeeps ==
    ASSUME ConnectionInv, HandleDisconnected
    PROVE  ConnectionInv'
<1>1. /\ Taken
      /\ slot' = [slot EXCEPT ![Head(packets).playerIndex] = Nobody]
      /\ UNCHANGED <<remoteSystemList, bufferedCommands, been, client, up, told>>
  BY DEF HandleDisconnected, NextPacket, Taken
<1>2. PICK p \in Packet : p = packets[1] /\ p = Head(packets)
  BY <1>1, PacketTaken DEF Taken, ConnectionInv
<1>3. /\ bufferedCommands' \in Seq(Addr) /\ been' \subseteq Addr
      /\ slot' \in [Index -> Addr \cup {Nobody}]
      /\ \A i \in Index : slot'[i] # Nobody => slot'[i] = slot[i] /\ i # p.playerIndex
      /\ \A a \in Addr : Fresh(a) =>
             /\ a \notin been'
             /\ \A k \in 1 .. Len(bufferedCommands') : bufferedCommands'[k] # a
  BY <1>1, <1>2 DEF ConnectionInv, TypeOK, Fresh
<1>4. \A i \in Index : i # p.playerIndex => packets[1] # Departure(i, slot[i])
  BY <1>2 DEF Departure
<1>5. QED
  BY <1>1, <1>3, <1>4, TakeKeeps

LEMMA HandleOtherKeeps ==
    ASSUME ConnectionInv, HandleOther
    PROVE  ConnectionInv'
<1>1. /\ Taken /\ Head(packets).id # "DISCONNECTED"
      /\ UNCHANGED <<remoteSystemList, bufferedCommands, gameVars, client, up, told>>
  BY DEF HandleOther, NextPacket, Taken
<1>2. Head(packets) = packets[1]
  BY <1>1, PacketTaken DEF Taken, ConnectionInv
<1>3. \A i \in Index : packets[1] # Departure(i, slot[i])
  BY <1>1, <1>2 DEF Departure
<1>4. /\ bufferedCommands' \in Seq(Addr) /\ been' \subseteq Addr
      /\ slot' \in [Index -> Addr \cup {Nobody}]
      /\ \A a \in Addr : Fresh(a) =>
             /\ a \notin been'
             /\ \A k \in 1 .. Len(bufferedCommands') : bufferedCommands'[k] # a
  BY <1>1 DEF ConnectionInv, TypeOK, Fresh, gameVars
<1>5. QED
  BY <1>1, <1>3, <1>4, TakeKeeps DEF gameVars

\* KickPlayer frees the slot at once; whom it disconnects is past the handshake.
LEMMA KickPlayerKeeps ==
    ASSUME ConnectionInv, NEW i \in Index, KickPlayer(i)
    PROVE  ConnectionInv'
<1>1. /\ Kick(GetPlayerIDFromIndex(i))
      /\ slot' = [slot EXCEPT ![i] = Nobody]
      /\ UNCHANGED <<libraryVars, been, client, up, told>>
  BY DEF KickPlayer
<1>2. PICK a \in Addr \cup {Nobody} : a = GetPlayerIDFromIndex(i)
  BY DEF GetPlayerIDFromIndex, ConnectionInv, TypeOK, System
<1>3. a \in Addr => ~Fresh(a)
  BY <1>2, RakPeerAssumption DEF GetPlayerIDFromIndex, Fresh, Reported
<1>4. /\ bufferedCommands' \in Seq(Addr)
      /\ \A k \in 1 .. Len(bufferedCommands') :
            bufferedCommands'[k] = a
                \/ \E l \in 1 .. Len(bufferedCommands) :
                       bufferedCommands'[k] = bufferedCommands[l]
  BY <1>1, <1>2, KickQueued DEF ConnectionInv
<1>5. /\ slot' \in [Index -> Addr \cup {Nobody}]
      /\ \A j \in Index : slot'[j] # Nobody => slot'[j] = slot[j]
  BY <1>1 DEF ConnectionInv, TypeOK
<1>6. TypeOK'
  BY <1>1, <1>4, <1>5 DEF ConnectionInv, TypeOK, Active, libraryVars
<1>7. FreshInv'
  <2>1. ASSUME NEW b \in Addr, Fresh(b) PROVE Fresh(b)'
    BY <1>1, <1>3, <1>4, <2>1 DEF Fresh, PacketNumbers, libraryVars
  <2>2. ASSUME NEW b \in Addr PROVE Unverified(b)' <=> Unverified(b)
    BY <1>1 DEF Unverified, libraryVars
  <2>3. QED
    BY <1>1, <2>1, <2>2 DEF ConnectionInv, FreshInv, Opening
<1>8. JoinInv'
  BY <1>1, <1>5 DEF ConnectionInv, JoinInv, JoinQueued, PacketNumbers, libraryVars
<1>9. AddressInv' /\ QueueInv'
  BY <1>1 DEF ConnectionInv, AddressInv, QueueInv, Active, PacketNumbers, libraryVars
<1>10. OrderInv'
  BY <1>1, <1>5 DEF ConnectionInv, OrderInv, Active, PacketNumbers, Departure, libraryVars
<1>11. SlotsAgree'
  BY <1>1, <1>5 DEF ConnectionInv, SlotsAgree, Active, DepartureQueued, libraryVars
<1>12. QED
  BY <1>6, <1>7, <1>8, <1>9, <1>10, <1>11 DEF ConnectionInv

-----------------------------------------------------------------------------
(* The invariant and what follows from it. *)

LEMMA ConnectionInit == Init => ConnectionInv
<1> SUFFICES ASSUME Init PROVE ConnectionInv
  OBVIOUS
<1>1. /\ packets \in Seq(Packet) /\ bufferedCommands \in Seq(Addr)
      /\ PacketNumbers = {} /\ 1 .. Len(bufferedCommands) = {}
  BY EmptySeq DEF Init, PacketNumbers
<1>2. TypeOK /\ AddressInv
  BY <1>1 DEF Init, TypeOK, AddressInv, System, Modes, ClientStates, Active
<1>3. FreshInv
  BY <1>1, RakPeerAssumption DEF Init, FreshInv, Fresh, Unverified
<1>4. JoinInv /\ QueueInv /\ OrderInv /\ SlotsAgree
  BY <1>1 DEF Init, JoinInv, QueueInv, OrderInv, SlotsAgree
<1>5. QED
  BY <1>2, <1>3, <1>4 DEF ConnectionInv

LEMMA ConnectionStep == ConnectionInv /\ [Next]_vars => ConnectionInv'
<1> SUFFICES ASSUME ConnectionInv, [Next]_vars PROVE ConnectionInv'
  OBVIOUS
<1>1. CASE UNCHANGED vars
  BY <1>1, ClientsOnly DEF vars, ConnectionInv, TypeOK
<1>2. ASSUME NEW a \in Addr, ReceiveOpenConnectionRequest(a) PROVE ConnectionInv'
  BY <1>2, OpenKeeps
<1>3. ASSUME NEW a \in Addr, NEW m \in Messages, Receive(a, m) PROVE ConnectionInv'
  BY <1>3, ReceiveKeeps
<1>4. ASSUME NEW a \in Addr,
             \/ Connect(a) \/ LoseReply(a) \/ ReceiveOpenConnectionReply(a) \/ ReceiveRefusal(a)
             \/ ReceiveConnectionRequestAccepted(a) \/ ReceiveInitGame(a)
             \/ \E arriving \in SUBSET Messages : Leave(a, arriving)
             \/ ReceiveDisconnectionNotification(a)
      PROVE  ConnectionInv'
  BY <1>4, ClientStepsKeep
<1>5. CASE ProcessCommands
  BY <1>5, ProcessCommandsKeep
<1>6. ASSUME NEW i \in Index, Fail(i) \/ KickPlayer(i) PROVE ConnectionInv'
  BY <1>6, FailKeeps, KickPlayerKeeps
<1>7. CASE HandlePacket
  BY <1>7, ClientJoinKeeps, HandleDisconnectedKeeps, HandleOtherKeeps DEF HandlePacket
<1>8. QED
  BY <1>1, <1>2, <1>3, <1>4, <1>5, <1>6, <1>7 DEF Next

\* The connections, queues and slots keep their types, and no two connections of the
\* library have the same address.
THEOREM TypeCorrect == Spec => []TypeOK
<1>1. ConnectionInv => TypeOK
  BY DEF ConnectionInv
<1>2. QED
  BY <1>1, ConnectionInit, ConnectionStep, PTL DEF Spec

\* Nobody is left behind in a slot: whoever has one is connected with its index, in a mode
\* whose end will be reported, or his departure is queued (RakPeer.cpp, netgame.cpp 1362).
THEOREM SlotsFollowConnections == Spec => []SlotsAgree
<1>1. ConnectionInv => SlotsAgree
  BY DEF ConnectionInv
<1>2. QED
  BY <1>1, ConnectionInit, ConnectionStep, PTL DEF Spec

\* No packet acts on a successor: not a departure, not a call, not a request to join.
THEOREM PacketsFindTheirOwn == Spec => []PacketsHitTheirOwn
  BY HitsItsOwn, ConnectionInit, ConnectionStep, PTL DEF Spec

-----------------------------------------------------------------------------
(* The refinement of PlayerSlots. *)

LEMMA PromisedInit == Init => Promise!Init
  BY DEF Init, Promise!Init

\* Only a join, a departure and a kick change a slot, and a client that is gone stays so.
LEMMA PromisedStep ==
    ConnectionInv /\ PacketsHitTheirOwn /\ [Next]_vars => [Promise!Next]_(Promise!vars)
<1> SUFFICES ASSUME ConnectionInv, PacketsHitTheirOwn, [Next]_vars
             PROVE  [Promise!Next]_(Promise!vars)
  OBVIOUS
<1> DEFINE away == {a \in Addr : client[a] = "gone"}
<1> USE DEF Promise!vars
<1>0. client \in [Addr -> ClientStates] /\ slot \in [Index -> Addr \cup {Nobody}]
  BY DEF ConnectionInv, TypeOK
<1>1. ASSUME UNCHANGED <<slot, been, client>>
      PROVE  [Promise!Next]_(Promise!vars)
  BY <1>1
<1>2. ASSUME UNCHANGED <<slot, been>>, NEW a \in Addr,
             \/ client' = [client EXCEPT ![a] = "gone"]
             \/ \E state \in ClientStates \ {"gone"} :
                   client[a] # "gone" /\ client' = [client EXCEPT ![a] = state]
      PROVE  [Promise!Next]_(Promise!vars)
  <2>1. CASE client' = [client EXCEPT ![a] = "gone"]
    <3>1. away' = away \cup {a}
      BY <1>0, <2>1
    <3>2. QED
      BY <1>2, <3>1 DEF Promise!Next, Promise!GoAway
  <2>2. CASE \E state \in ClientStates \ {"gone"} :
                client[a] # "gone" /\ client' = [client EXCEPT ![a] = state]
    <3>1. away' = away
      BY <1>0, <2>2
    <3>2. QED
      BY <1>2, <3>1
  <2>3. QED
    BY <1>2, <2>1, <2>2
<1>3. ASSUME UNCHANGED <<been, client>>, NEW i \in Index, slot' = [slot EXCEPT ![i] = Nobody]
      PROVE  [Promise!Next]_(Promise!vars)
  <2>1. CASE slot[i] = Nobody
    <3>1. slot' = slot
      BY <1>0, <1>3, <2>1
    <3>2. QED
      BY <1>1, <1>3, <3>1
  <2>2. CASE slot[i] # Nobody
    BY <1>3, <2>2 DEF Promise!Next, Promise!Disconnect
  <2>3. QED
    BY <2>1, <2>2
<1>4. CASE UNCHANGED vars
  BY <1>1, <1>4 DEF vars, gameVars
<1>5. ASSUME NEW a \in Addr, ReceiveOpenConnectionRequest(a)
      PROVE  [Promise!Next]_(Promise!vars)
  <2>1. UNCHANGED <<slot, been>>
    BY <1>5 DEF ReceiveOpenConnectionRequest, gameVars
  <2>2. \E state \in ClientStates \ {"gone"} :
            client[a] # "gone" /\ client' = [client EXCEPT ![a] = state]
    BY <1>5 DEF ReceiveOpenConnectionRequest, Answered, ClientStates
  <2>3. QED
    BY <1>2, <2>1, <2>2
<1>6. ASSUME NEW a \in Addr, NEW m \in Messages, Receive(a, m)
      PROVE  [Promise!Next]_(Promise!vars)
  BY <1>1, <1>6 DEF Receive, gameVars
<1>7. ASSUME NEW a \in Addr,
             \/ Connect(a) \/ LoseReply(a) \/ ReceiveOpenConnectionReply(a)
             \/ ReceiveConnectionRequestAccepted(a) \/ ReceiveInitGame(a)
      PROVE  [Promise!Next]_(Promise!vars)
  <2>1. UNCHANGED <<slot, been>>
    BY <1>7 DEF Connect, LoseReply, ReceiveOpenConnectionReply, ReceiveConnectionRequestAccepted,
                ReceiveInitGame, ClientStep, gameVars
  <2>2. \E state \in ClientStates \ {"gone"} :
            client[a] # "gone" /\ client' = [client EXCEPT ![a] = state]
    BY <1>7 DEF Connect, LoseReply, ReceiveOpenConnectionReply, ReceiveConnectionRequestAccepted,
                ReceiveInitGame, ClientStep, ClientStates
  <2>3. QED
    BY <1>2, <2>1, <2>2
<1>8. ASSUME NEW a \in Addr,
             \/ ReceiveRefusal(a) \/ \E arriving \in SUBSET Messages : Leave(a, arriving)
             \/ ReceiveDisconnectionNotification(a)
      PROVE  [Promise!Next]_(Promise!vars)
  <2>1. UNCHANGED <<slot, been>> /\ client' = [client EXCEPT ![a] = "gone"]
    BY <1>8 DEF ReceiveRefusal, ClientStep, Leave, ReceiveDisconnectionNotification, gameVars
  <2>2. QED
    BY <1>2, <2>1
<1>9. CASE ProcessCommands
  BY <1>1, <1>9 DEF ProcessCommands, gameVars
<1>10. ASSUME NEW i \in Index, Fail(i) PROVE [Promise!Next]_(Promise!vars)
  BY <1>1, <1>10 DEF Fail, gameVars
<1>11. ASSUME NEW i \in Index, KickPlayer(i) PROVE [Promise!Next]_(Promise!vars)
  BY <1>3, <1>11 DEF KickPlayer
<1>12. CASE ClientJoin
  <2>1. PICK p \in Packet : p = Head(packets) /\ packets # <<>> /\ 1 \in PacketNumbers
                            /\ p = packets[1] /\ p.id = "RPC_ClientJoin"
    BY <1>12, PacketTaken DEF ClientJoin, NextPacket, ConnectionInv
  <2>2. p.playerId \in Addr /\ p.playerId \notin been
    BY <2>1 DEF ConnectionInv, JoinInv, JoinQueued, Packet
  <2>3. ASSUME NEW i \in JoinIndexes(p),
               slot' = [slot EXCEPT ![i] = p.playerId], been' = been \cup {p.playerId}
        PROVE  [Promise!Next]_(Promise!vars)
    <3>1. i \in Index /\ slot[i] = Nobody /\ client' = client
      BY <1>12, <2>1 DEF PacketsHitTheirOwn, JoinIndexes, IndexesOf, ClientJoin
    <3>2. Promise!Connect(i, p.playerId)
      BY <2>2, <2>3, <3>1 DEF Promise!Connect
    <3>3. QED
      BY <2>2, <3>1, <3>2 DEF Promise!Next
  <2>4. QED
    BY <1>1, <1>12, <2>1, <2>3 DEF ClientJoin, gameVars
<1>13. CASE HandleDisconnected
  <2>1. PICK p \in Packet : p = Head(packets)
    BY <1>13, PacketTaken DEF HandleDisconnected, NextPacket, ConnectionInv
  <2>2. p.playerIndex \in Index
    BY DEF Packet
  <2>3. QED
    BY <1>3, <1>13, <2>1, <2>2 DEF HandleDisconnected
<1>14. CASE HandleOther
  BY <1>1, <1>14 DEF HandleOther, gameVars
<1>15. QED
  BY <1>4, <1>5, <1>6, <1>7, <1>8, <1>9, <1>10, <1>11, <1>12, <1>13, <1>14 DEF Next, HandlePacket

\* The server's slots implement PlayerSlots, but for its promise that a slot becomes free:
\* an id is given to one client at a time, and a client gets one id once.
THEOREM SlotsKeepTheirPromise == Spec => Promise!Init /\ [][Promise!Next]_(Promise!vars)
  BY HitsItsOwn, ConnectionInit, ConnectionStep, PromisedInit, PromisedStep, PTL DEF Spec
=============================================================================
