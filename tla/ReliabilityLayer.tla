-------------------------- MODULE ReliabilityLayer --------------------------
(***************************************************************************)
(* One direction of a connection of the network library                    *)
(* (sdk/raknet/ReliabilityLayer.cpp): the sender's layer at one end, the   *)
(* receiver's at the other, and a network that loses, duplicates, delays   *)
(* and reorders what is between them.                                      *)
(*                                                                         *)
(* A conversation is followed from a moment at which everything sent       *)
(* before has arrived and was acknowledged; Start and OrderStart are the   *)
(* numbers reached by then.  All arithmetic on numbers is that of the      *)
(* code, modulo the range of their types.  A datagram is modelled by the   *)
(* packets and acknowledgements in it, each of which may be lost alone.    *)
(* All messages have one priority: for the receiver a packet of a lower    *)
(* one is a packet that was delayed.                                       *)
(***************************************************************************)
EXTENDS Integers, Sequences, FiniteSets, FiniteSetsExt

CONSTANTS Channels,      \* ordering channels
          Traffic,       \* kinds of message: reliability, channel, fragments
          MessageRange,  \* values of MessageNumberType
          OrderRange,    \* values of OrderingIndexType
          Start,         \* the next message number, at both ends
          OrderStart,    \* the next ordering index of every channel
          MaxPackets,    \* bound on the packets sent in the conversation
          MayGiveUp      \* whether a packet can be missing for timeoutTime

Reliabilities == {"UNRELIABLE", "UNRELIABLE_SEQUENCED", "RELIABLE",
                  "RELIABLE_ORDERED", "RELIABLE_SEQUENCED"}
Kind == [rel : Reliabilities, ch : Channels, parts : Nat \ {0}]

ASSUME ReliabilityAssumption ==
    /\ Traffic \subseteq Kind
    /\ MessageRange \in Nat \ {0} /\ OrderRange \in Nat \ {0}
    /\ Start \in 0 .. (MessageRange - 1) /\ OrderStart \in 0 .. (OrderRange - 1)
    /\ MaxPackets \in Nat
    /\ 2 * MaxPackets < MessageRange /\ 2 * MaxPackets < OrderRange
    /\ MayGiveUp \in BOOLEAN

VARIABLES
  \* the sender
    messageNumber,       \* the number of the next packet
    orderedWrite,        \* waitingForOrderedPacketWriteIndex
    sequencedWrite,      \* waitingForSequencedPacketWriteIndex
    sendPacketSet,       \* the queue of packets that have not left yet
    resendList,          \* reliable packets not acknowledged yet
    deadConnection,      \* nothing was acknowledged for timeoutTime
  \* the network
    net,                 \* packets under way
  \* the receiver
    base,                \* receivedPacketsBaseIndex
    queue,               \* hasReceivedPacketQueue: which of base, base + 1, .. came
    acknowlegements,     \* numbers to acknowledge
    orderedRead,         \* waitingForOrderedPacketReadIndex
    sequencedRead,       \* waitingForSequencedPacketReadIndex
    orderingList,        \* complete ordered messages that came too early
    splitList,           \* fragments of incomplete messages
    output,              \* every message put into outputQueue so far
  \* history
    sent,                \* kind and first number of every message sent
    gaveUp               \* the numbers the receiver stopped waiting for

senderVars == <<messageNumber, orderedWrite, sequencedWrite, sendPacketSet, resendList,
                deadConnection, sent>>
windowVars == <<base, queue, gaveUp>>
orderVars == <<orderedRead, sequencedRead, orderingList, splitList, output>>
receiverVars == <<windowVars, orderVars, acknowlegements>>
vars == <<senderVars, net, receiverVars>>

Reliable(kind) == kind.rel \in {"RELIABLE", "RELIABLE_ORDERED", "RELIABLE_SEQUENCED"}
Sequenced(kind) == kind.rel \in {"UNRELIABLE_SEQUENCED", "RELIABLE_SEQUENCED"}
Ordered(kind) == kind.rel = "RELIABLE_ORDERED"

\* num is the message number, idx the ordering index, part the fragment; msg names
\* the payload by its message's position in sent, which is also the split packet id
Packet == [num : 0 .. (MessageRange - 1), kind : Traffic, idx : 0 .. (OrderRange - 1),
           part : Nat, msg : Nat \ {0}]

MessageSum(n, k) == (n + k) % MessageRange
\* A mutant: the index does not wrap.
OrderSum_Unwrapped(n, k) == n + k
OrderSum(n, k) == (n + k) % OrderRange
Messages == 1 .. Len(sent)
Outputs == {output[i] : i \in 1 .. Len(output)}
NumbersOf(m) == {MessageSum(sent[m].num, i) : i \in 0 .. (sent[m].kind.parts - 1)}

TypeOK ==
    /\ messageNumber \in 0 .. (MessageRange - 1) /\ base \in 0 .. (MessageRange - 1)
    /\ orderedWrite \in [Channels -> 0 .. (OrderRange - 1)]
    /\ orderedRead \in [Channels -> 0 .. (OrderRange - 1)]
    /\ sequencedWrite \in [Channels -> 0 .. (OrderRange - 1)]
    /\ sequencedRead \in [Channels -> 0 .. (OrderRange - 1)]
    /\ sendPacketSet \in Seq(Packet)
    /\ \A p \in resendList \cup net \cup orderingList \cup splitList : p \in Packet
    /\ acknowlegements \subseteq 0 .. (MessageRange - 1)
    /\ gaveUp \subseteq 0 .. (MessageRange - 1)
    /\ queue \in Seq({"got", "hole"})
    /\ output \in Seq(Messages)
    /\ sent \in Seq([kind : Traffic, num : 0 .. (MessageRange - 1)])
    /\ deadConnection \in BOOLEAN

Init ==
    /\ messageNumber = Start /\ base = Start
    /\ orderedWrite = [c \in Channels |-> OrderStart] /\ orderedRead = orderedWrite
    /\ sequencedWrite = orderedWrite /\ sequencedRead = orderedWrite
    /\ sendPacketSet = <<>> /\ resendList = {} /\ net = {}
    /\ acknowlegements = {} /\ gaveUp = {} /\ orderingList = {} /\ splitList = {}
    /\ queue = <<>> /\ output = <<>> /\ sent = <<>>
    /\ deadConnection = FALSE

-----------------------------------------------------------------------------
(* The sender. *)

IndexFor(kind) == IF Sequenced(kind) THEN sequencedWrite[kind.ch]
                  ELSE IF Ordered(kind) THEN orderedWrite[kind.ch] ELSE 0

\* The packets of a message: one, or the fragments SplitPacket makes of it.
PacketsOf(kind) ==
    [i \in 1 .. kind.parts |->
        [num |-> MessageSum(messageNumber, i - 1), kind |-> kind, idx |-> IndexFor(kind),
         part |-> i, msg |-> Len(sent) + 1]]

Send(kind) ==
    /\ ~deadConnection
    /\ ((messageNumber - Start) % MessageRange) + kind.parts =< MaxPackets
    /\ messageNumber' = MessageSum(messageNumber, kind.parts)
    /\ sequencedWrite' = IF Sequenced(kind)
         THEN [sequencedWrite EXCEPT ![kind.ch] = OrderSum(@, 1)] ELSE sequencedWrite
    /\ orderedWrite' = IF Ordered(kind)
         THEN [orderedWrite EXCEPT ![kind.ch] = OrderSum(@, 1)] ELSE orderedWrite
    /\ sendPacketSet' = sendPacketSet \o PacketsOf(kind)
    /\ sent' = Append(sent, [kind |-> kind, num |-> messageNumber])
    /\ UNCHANGED <<resendList, deadConnection, net, receiverVars>>

\* A mutant: only ordered packets are resent.
ToResend_OrderedOnly(p) == IF Ordered(p.kind) THEN {p} ELSE {}

\* What is remembered of a packet that leaves: a reliable one is kept to be resent.
ToResend(p) == IF Reliable(p.kind) THEN {p} ELSE {}

\* GenerateDatagram takes the next packet from the queue.
Transmit ==
    /\ ~deadConnection
    /\ sendPacketSet # <<>>
    /\ sendPacketSet' = Tail(sendPacketSet)
    /\ net' = net \cup {Head(sendPacketSet)}
    /\ resendList' = resendList \cup ToResend(Head(sendPacketSet))
    /\ UNCHANGED <<messageNumber, orderedWrite, sequencedWrite, deadConnection, sent,
                   receiverVars>>

\* GenerateDatagram finds that the acknowledgement of a packet is overdue.
Resend(p) ==
    /\ ~deadConnection
    /\ p \in resendList
    /\ net' = net \cup {p}
    /\ UNCHANGED <<senderVars, receiverVars>>

\* Update: no acknowledgement of any packet came for timeoutTime.
GiveUpConnection ==
    /\ resendList # {}
    /\ deadConnection' = TRUE
    /\ UNCHANGED <<messageNumber, orderedWrite, sequencedWrite, sendPacketSet, resendList,
                   sent, net, receiverVars>>

-----------------------------------------------------------------------------
(* The network, between them. *)

Lose(p) ==
    /\ p \in net
    /\ net' = net \ {p}
    /\ UNCHANGED <<senderVars, receiverVars>>

-----------------------------------------------------------------------------
(* The receiver. *)

\* How far a number is ahead of the first one waited for; the subtraction wraps.
HoleCount(n) == (n - base) % MessageRange

\* More than half the range ahead is behind.
Underflow(hole) == hole > (MessageRange - 1) - (MessageRange - 1) \div 2

\* A mutant: a hole that was filled is filled again.
AlreadyCounted_BehindOnly(n) == Underflow(HoleCount(n))

AlreadyCounted(n) ==
    \/ Underflow(HoleCount(n))
    \/ /\ HoleCount(n) \in 1 .. (Len(queue) - 1)
       /\ queue[HoleCount(n) + 1] = "got"

\* A mutant: the numbers skipped count as received.
Marked_HolesForgotten(hole) ==
    [i \in 1 .. (IF hole < Len(queue) THEN Len(queue) ELSE hole + 1) |->
        IF i =< Len(queue) /\ i # hole + 1 THEN queue[i] ELSE "got"]

\* The queue once hole is marked, before its front is dropped.
Marked(hole) ==
    [i \in 1 .. (IF hole < Len(queue) THEN Len(queue) ELSE hole + 1) |->
        IF i = hole + 1 THEN "got" ELSE IF i =< Len(queue) THEN queue[i] ELSE "hole"]

\* The numbers of entries that may be dropped from the front of q: received ones at
\* once, a hole when it is older than timeoutTime, which one opened just now is not.
Dropped(q) ==
    {k \in 0 .. Len(q) :
        /\ \A i \in 1 .. k : q[i] = "hole" => MayGiveUp /\ i =< Len(queue)
        /\ k < Len(q) => q[k + 1] = "hole"}

\* The window after number n was received: base and queue move together.
Count(n) ==
    LET q == Marked(HoleCount(n))
    IN  \E k \in Dropped(q) :
            /\ base' = MessageSum(base, k)
            /\ queue' = SubSeq(q, k + 1, Len(q))
            /\ gaveUp' = gaveUp \cup {MessageSum(base, i - 1) : i \in {j \in 1 .. k : q[j] = "hole"}}

IsOlderOrderedPacket(new, waiting) ==
    LET maxRange == OrderRange - 1
        half == maxRange \div 2
    IN  IF waiting > half
        THEN new >= waiting - half + 1 /\ new < waiting
        ELSE new >= (waiting - (half + 1)) % OrderRange \/ new < waiting

\* Fragments of unreliable messages may have been waiting for more than ten seconds.
OldUnreliableSplits ==
    {ms \in SUBSET {f.msg : f \in splitList} :
        \A f \in splitList : f.msg \in ms => ~Reliable(f.kind)}

FragmentsOf(p, splits) == {f \in splits : f.msg = p.msg}

\* With p, all the fragments of its message are there.
Complete(p, splits) == Cardinality(FragmentsOf(p, splits)) + 1 = p.kind.parts

WithFragment(p, splits) ==
    IF Complete(p, splits) THEN splits \ FragmentsOf(p, splits) ELSE splits \cup {p}

\* How many buffered messages follow the one with index idx without a gap.
RunAfter(ch, idx) ==
    Max({k \in 0 .. Cardinality(orderingList) :
            \A j \in 1 .. k : \E b \in orderingList : b.kind.ch = ch /\ b.idx = OrderSum(idx, j)})

Buffered(ch, idx) == CHOOSE b \in orderingList : b.kind.ch = ch /\ b.idx = idx

\* A complete ordered message: hand it over with those that waited for it, or keep it.
PushOrdered(p) ==
    LET ch == p.kind.ch
        n == RunAfter(ch, p.idx)
        run == [j \in 1 .. n |-> Buffered(ch, OrderSum(p.idx, j))]
    IN  IF p.idx = orderedRead[ch]
        THEN /\ output' = Append(output, p.msg) \o [j \in 1 .. n |-> run[j].msg]
             /\ orderedRead' = [orderedRead EXCEPT ![ch] = OrderSum(@, n + 1)]
             /\ orderingList' = orderingList \ {run[j] : j \in 1 .. n}
        ELSE /\ orderingList' = orderingList \cup {p}
             /\ UNCHANGED <<output, orderedRead>>

\* A complete sequenced message: it supersedes the earlier ones of its channel.
PushSequenced(p) ==
    /\ output' = Append(output, p.msg)
    /\ sequencedRead' = [sequencedRead EXCEPT ![p.kind.ch] = OrderSum(p.idx, 1)]
    /\ UNCHANGED <<orderedRead, orderingList>>

\* What a packet that was not received before does to the messages.
Accept(p, splits) ==
    IF Sequenced(p.kind) /\ IsOlderOrderedPacket(p.idx, sequencedRead[p.kind.ch])
    THEN splitList' = splits /\ UNCHANGED <<output, orderedRead, sequencedRead, orderingList>>
    ELSE /\ splitList' = WithFragment(p, splits)
         /\ IF ~Complete(p, splits)
            THEN UNCHANGED <<output, orderedRead, sequencedRead, orderingList>>
            ELSE IF Sequenced(p.kind) THEN PushSequenced(p)
            ELSE IF Ordered(p.kind) THEN PushOrdered(p) /\ UNCHANGED sequencedRead
            ELSE /\ output' = Append(output, p.msg)
                 /\ UNCHANGED <<orderedRead, sequencedRead, orderingList>>

\* A copy of the packet may stay under way: the network duplicates datagrams.
Take(p) == p \in net /\ net' \in {net, net \ {p}}

Acknowledged(p) == IF Reliable(p.kind) THEN acknowlegements \cup {p.num} ELSE acknowlegements

\* Every reliable packet is acknowledged, also one that came before.
ReceiveDuplicate(p) ==
    /\ Take(p)
    /\ AlreadyCounted(p.num)
    /\ acknowlegements' = Acknowledged(p)
    /\ UNCHANGED <<senderVars, windowVars, orderVars>>

ReceiveNew(p) ==
    /\ Take(p)
    /\ ~AlreadyCounted(p.num)
    /\ acknowlegements' = Acknowledged(p)
    /\ Count(p.num)
    /\ \E old \in (IF p.kind.parts > 1 THEN OldUnreliableSplits ELSE {{}}) :
           Accept(p, {f \in splitList : f.msg \notin old})
    /\ UNCHANGED senderVars

StillUnacknowledged(numbers) == {p \in resendList : p.num \notin numbers}

\* The acknowledgements leave with the receiver's next datagram, and the sender removes
\* from its list those that arrive.  One that is delayed is like one that leaves later.
Acknowledge(arriving) ==
    /\ acknowlegements # {}
    /\ acknowlegements' = {}
    /\ resendList' = StillUnacknowledged(arriving)
    /\ UNCHANGED <<messageNumber, orderedWrite, sequencedWrite, sendPacketSet,
                   deadConnection, sent, net, windowVars, orderVars>>

-----------------------------------------------------------------------------
Receive(n) == \E p \in net : p.num = n /\ (ReceiveNew(p) \/ ReceiveDuplicate(p))

Numbers == {MessageSum(Start, i) : i \in 0 .. (MaxPackets - 1)}

Next ==
    \/ \E kind \in Traffic : Send(kind)
    \/ Transmit
    \/ \E p \in resendList : Resend(p)
    \/ GiveUpConnection
    \/ \E p \in net : Lose(p) \/ ReceiveNew(p) \/ ReceiveDuplicate(p)
    \/ \E arriving \in SUBSET acknowlegements : Acknowledge(arriving)

Spec == Init /\ [][Next]_vars

(* Every update of the library sends what it can and resends what is       *)
(* overdue, and a packet that is sent again and again arrives at some      *)
(* time.  Nothing is assumed of acknowledgements: without them the sender  *)
(* resends for ever or declares the connection dead.                       *)
Fairness ==
    /\ WF_vars(Transmit)
    /\ \A n \in Numbers :
           /\ WF_vars(\E p \in resendList : p.num = n /\ Resend(p))
           /\ SF_vars(Receive(n))
   
FairSpec == Spec /\ Fairness

-----------------------------------------------------------------------------
(* Properties. *)

(* Whatever is lost, duplicated and reordered, and however the numbers     *)
(* wrap, what HandleSocketReceiveFromConnectedPlayer puts into the output  *)
(* queue keeps the promises of PacketReliability.                          *)
Promise == INSTANCE MessageChannel
    WITH sent <- [m \in 1 .. Len(sent) |-> sent[m].kind], delivered <- output
ImplementsMessageChannel == Promise!Spec

\* A newer sequenced message of the channel was handed over.
Superseded(m) ==
    /\ m \in {k \in Messages : Sequenced(sent[k].kind)}
    /\ \E k \in Outputs : /\ k > m /\ Sequenced(sent[k].kind)
                          /\ sent[k].kind.ch = sent[m].kind.ch

Unsent == {sendPacketSet[i] : i \in 1 .. Len(sendPacketSet)}
Forgotten(n) == \A p \in Unsent \cup resendList : p.num # n
Waiting(m, n) == \/ \E p \in orderingList : p.msg = m
                 \/ \E p \in splitList : p.num = n

(* The sender forgets a reliable packet only after the receiver handed its *)
(* message over, keeps it for later or has a newer one: the one exception  *)
(* is a packet the receiver gave up waiting for, which it acknowledges and *)
(* drops when it comes (ReliabilityLayer.cpp 430-433, 459-467, 502-505).   *)
AcknowledgedIsKept ==
    \A m \in Messages : Reliable(sent[m].kind) =>
        \A n \in NumbersOf(m) :
            Forgotten(n) => \/ m \in Outputs \/ Superseded(m) \/ Waiting(m, n)
                            \/ n \in gaveUp

(* The window is exact: a number counts as received when its packet was    *)
(* handed over, kept, superseded or given up, and every packet handed over *)
(* counts, so nothing is delivered twice and nothing mistaken for a        *)
(* duplicate, also where the numbers wrap (ReliabilityLayer.cpp:444-508).  *)
WindowIsExact ==
    /\ queue # <<>> => queue[1] = "hole" /\ queue[Len(queue)] = "got"
    /\ Len(queue) =< HoleCount(messageNumber)
    /\ \A m \in Messages : \A n \in NumbersOf(m) :
           /\ m \in Outputs \/ Waiting(m, n) => AlreadyCounted(n)
           /\ Reliable(sent[m].kind) /\ AlreadyCounted(n)
                => m \in Outputs \/ Waiting(m, n) \/ Superseded(m) \/ n \in gaveUp
    /\ \A p \in Unsent : AlreadyCounted(p.num) => p.num \in gaveUp

(* The sender's and the receiver's books agree with what was handed over:  *)
(* see the two parts.                                                      *)
NothingLostOrDoubled == AcknowledgedIsKept /\ WindowIsExact

(* A reliable message reaches the other side, or a newer one of its        *)
(* sequence does, unless the connection is declared dead or the receiver   *)
(* gave up a packet.                                                       *)
ReliableArrives ==
    \A m \in 1 .. MaxPackets :
        m \in {k \in Messages : Reliable(sent[k].kind)}
            ~> (m \in Outputs \/ Superseded(m) \/ deadConnection \/ gaveUp # {})

=============================================================================
