--------------------------- MODULE MessageChannel ---------------------------
(***************************************************************************)
(* What the network library promises to its user about one direction of a  *)
(* connection: the enumeration PacketReliability of                        *)
(* sdk/raknet/PacketPriority.h, stated over the sequence of messages sent  *)
(* and the sequence of messages handed to the receiver.  ReliabilityLayer  *)
(* implements it.                                                          *)
(*                                                                         *)
(* Messages are named by their position in sent.  Nothing here says that a *)
(* message arrives: that is a liveness property, and it has an exception   *)
(* which ReliabilityLayer is about.                                        *)
(***************************************************************************)
EXTENDS Naturals, Sequences

CONSTANT Traffic         \* the kinds of message sent: reliability and channel

VARIABLES sent,          \* the kind of every message sent, in order
          delivered      \* the messages handed over, in order

vars == <<sent, delivered>>

Sequenced(kind) == kind.rel \in {"UNRELIABLE_SEQUENCED", "RELIABLE_SEQUENCED"}
Ordered(kind) == kind.rel = "RELIABLE_ORDERED"

\* No message arrives that was not sent, and none arrives twice.
AtMostOnce(out) ==
    /\ \A i \in 1 .. Len(out) : out[i] \in 1 .. Len(sent)
    /\ \A i, j \in 1 .. Len(out) : out[i] = out[j] => i = j

\* An ordered message arrives after all the earlier ones of its channel.
InOrder(out) == \A i \in 1 .. Len(out), m \in 1 .. Len(sent) :
    /\ Ordered(sent[out[i]]) /\ Ordered(sent[m])
    /\ sent[m].ch = sent[out[i]].ch /\ m < out[i]
    => \E j \in 1 .. (i - 1) : out[j] = m

\* A sequenced message arrives before all the later ones of its channel.
InSequence(out) == \A i, j \in 1 .. Len(out) :
    /\ Sequenced(sent[out[i]]) /\ Sequenced(sent[out[j]])
    /\ sent[out[i]].ch = sent[out[j]].ch
    => (i < j <=> out[i] < out[j])

Promised(out) == AtMostOnce(out) /\ InOrder(out) /\ InSequence(out)

Init == sent = <<>> /\ delivered = <<>>

Send(kind) == sent' = Append(sent, kind) /\ UNCHANGED delivered

\* One or several messages are handed over; what was handed over stays.
Deliver ==
    /\ Len(delivered') > Len(delivered)
    /\ SubSeq(delivered', 1, Len(delivered)) = delivered
    /\ Promised(delivered')
    /\ UNCHANGED sent

Next == (\E kind \in Traffic : Send(kind)) \/ Deliver

Spec == Init /\ [][Next]_vars
=============================================================================
