----------------------- MODULE ReliabilityLayerProofs -----------------------
(***************************************************************************)
(* Proofs about ReliabilityLayer, for any traffic, any ranges of numbers   *)
(* and indices, any place in them where a conversation begins, and any     *)
(* conversation shorter than half of each range.                           *)
(*                                                                         *)
(* NothingLostOrDoubled relates what the two ends remember with what was   *)
(* handed over, so it is inductive only with what ties them together: that *)
(* packets are what was sent (PacketInv), that only packets that left can  *)
(* count as received (WindowInv), that the sender keeps what was not       *)
(* counted (ResendInv), and that the indices count the messages of their   *)
(* channel (SequenceInv).                                                  *)
(***************************************************************************)
EXTENDS ReliabilityLayer, SlotLemmas, FiniteSetTheorems, SequenceTheorems, TLAPS

(***************************************************************************)
(* Numbers wrap, but a conversation is too short to come around, so the    *)
(* proofs count from its start: Off and Rank undo the wrap.                *)
(***************************************************************************)
Off(n) == (n - Start) % MessageRange
Rank(i) == (i - OrderStart) % OrderRange

Total == Off(messageNumber)
Gone == Total - Len(sendPacketSet)
Base == Off(base)

\* The packets of message m, as offsets.
Begin(m) == Off(sent[m].num)
Span(m) == Begin(m) .. (Begin(m) + sent[m].kind.parts - 1)

\* The messages of one channel that have ordering indices of one kind, and the
\* number of them before m: what the index of m's packets counts.
SequencedOf(ch) == {k \in Messages : Sequenced(sent[k].kind) /\ sent[k].kind.ch = ch}
OrderedOf(ch) == {k \in Messages : Ordered(sent[k].kind) /\ sent[k].kind.ch = ch}
Before(m, S) == {k \in S : k < m}

\* A packet is of the message it names.
Genuine(p) ==
    /\ p \in Packet
    /\ p.msg \in Messages
    /\ p.kind = sent[p.msg].kind
    /\ p.part \in 1 .. p.kind.parts
    /\ Off(p.num) = Begin(p.msg) + p.part - 1
    /\ Sequenced(p.kind) =>
         Rank(p.idx) = Cardinality(Before(p.msg, SequencedOf(p.kind.ch)))
    /\ Ordered(p.kind) =>
         Rank(p.idx) = Cardinality(Before(p.msg, OrderedOf(p.kind.ch)))

\* What the sender numbered.
SentInv ==
    /\ messageNumber \in 0 .. (MessageRange - 1)
    /\ Total =< MaxPackets
    /\ sent \in Seq([kind : Traffic, num : 0 .. (MessageRange - 1)])
    /\ Len(sent) =< Total
    /\ \A m \in Messages : Begin(m) + sent[m].kind.parts =< Total
    /\ \A m, k \in Messages : m < k => Begin(m) + sent[m].kind.parts =< Begin(k)
    /\ sequencedWrite \in [Channels -> 0 .. (OrderRange - 1)]
    /\ orderedWrite \in [Channels -> 0 .. (OrderRange - 1)]
    /\ \A ch \in Channels :
         /\ Rank(sequencedWrite[ch]) = Cardinality(SequencedOf(ch))
         /\ Rank(orderedWrite[ch]) = Cardinality(OrderedOf(ch))

\* The packets that wait to leave are the last ones; all others have left.
PacketInv ==
    /\ sendPacketSet \in Seq(Packet)
    /\ Len(sendPacketSet) =< Total
    /\ \A p \in Unsent \cup net \cup resendList \cup splitList \cup orderingList : Genuine(p)
    /\ \A i \in 1 .. Len(sendPacketSet) : Off(sendPacketSet[i].num) = Gone + i - 1
    /\ \A p \in net \cup resendList \cup splitList \cup orderingList : Off(p.num) < Gone
    /\ deadConnection \in BOOLEAN

\* The packet with offset k was received, or is not waited for any more.
Counted(k) ==
    \/ k < Base
    \/ k - Base + 1 =< Len(queue) /\ queue[k - Base + 1] = "got"

WindowInv ==
    /\ base \in 0 .. (MessageRange - 1)
    /\ queue \in Seq({"got", "hole"})
    /\ queue # <<>> => queue[1] = "hole" /\ queue[Len(queue)] = "got"
    /\ Base + Len(queue) =< Gone
    /\ gaveUp \subseteq 0 .. (MessageRange - 1)

\* A reliable packet that left is in the sender's list until it was counted.
ResendInv ==
    /\ acknowlegements \subseteq 0 .. (MessageRange - 1)
    /\ \A n \in acknowlegements : Counted(Off(n))
    /\ \A m \in Messages : Reliable(sent[m].kind) =>
         \A k \in Span(m) :
             k < Gone => Counted(k) \/ \E p \in resendList : Off(p.num) = k

\* What the receiver keeps and hands over was counted, and what it counted it
\* keeps, handed over, does not need or gave up.
DeliveryInv ==
    /\ output \in Seq(Messages)
    /\ IsFiniteSet(splitList) /\ IsFiniteSet(orderingList)
    /\ \A p \in splitList : Counted(Off(p.num))
    /\ \A p, q \in splitList : p.num = q.num => p = q
    /\ \A m \in Outputs : \A k \in Span(m) : Counted(k)
    /\ \A p \in orderingList : \A k \in Span(p.msg) : Counted(k)
    /\ \A m \in Messages : Reliable(sent[m].kind) =>
         \A n \in NumbersOf(m) :
             Counted(Off(n)) => m \in Outputs \/ Waiting(m, n) \/ Superseded(m) \/ n \in gaveUp

\* The receiver's index of a channel follows a message that was handed over.
SequenceInv ==
    /\ sequencedRead \in [Channels -> 0 .. (OrderRange - 1)]
    /\ orderedRead \in [Channels -> 0 .. (OrderRange - 1)]
    /\ \A ch \in Channels :
         \/ sequencedRead[ch] = OrderStart
         \/ \E k \in Outputs \cap SequencedOf(ch) :
                Rank(sequencedRead[ch]) = Cardinality(Before(k, SequencedOf(ch))) + 1

IInv == SentInv /\ PacketInv /\ WindowInv /\ ResendInv /\ DeliveryInv /\ SequenceInv

\* What was handed over, in its order: nothing twice, an ordered message after all the
\* earlier ones of its channel, a sequenced one after earlier ones only.
ArrivalInv ==
    /\ \A i, j \in 1 .. Len(output) : output[i] = output[j] => i = j
    /\ \A ch \in Channels : \A m, k \in OrderedOf(ch) : \A i \in 1 .. Len(output) :
         m < k /\ output[i] = k => \E j \in 1 .. (i - 1) : output[j] = m
    /\ \A ch \in Channels : \A m, k \in SequencedOf(ch) : \A i, j \in 1 .. Len(output) :
         i < j /\ output[i] = m /\ output[j] = k => m < k

\* A message that waits for its turn waits once, and was not handed over.
OnceInv ==
    /\ \A p \in orderingList : Ordered(p.kind) /\ p.msg \notin Outputs
    /\ \A p, q \in orderingList : p.msg = q.msg => p = q

\* The index of a channel counts the ordered messages handed over, which come first.
OrderInv ==
    \A ch \in Channels :
        /\ Rank(orderedRead[ch]) =< Cardinality(OrderedOf(ch))
        /\ \A m \in OrderedOf(ch) :
              m \in Outputs <=> Cardinality(Before(m, OrderedOf(ch))) < Rank(orderedRead[ch])

\* No sequenced message that was handed over has an index still waited for.
LatestInv ==
    \A ch \in Channels : \A k \in Outputs \cap SequencedOf(ch) :
        Cardinality(Before(k, SequencedOf(ch))) < Rank(sequencedRead[ch])

PromiseInv == ArrivalInv /\ OnceInv /\ OrderInv /\ LatestInv

-----------------------------------------------------------------------------
(* Arithmetic of numbers that wrap. *)

LEMMA SmallMod ==
    ASSUME NEW R \in Nat \ {0}, NEW x \in Int
    PROVE  /\ x % R \in 0 .. (R - 1)
           /\ 0 =< x /\ x < R => x % R = x
           /\ -R =< x /\ x < 0 => x % R = x + R
           /\ R =< x /\ x < 2 * R => x % R = x - R
<1>1. x % R \in 0 .. (R - 1)
  OBVIOUS
<1>2. 0 =< x /\ x < R => x % R = x
  OBVIOUS
<1>3. -R =< x /\ x < 0 => x % R = x + R
  OBVIOUS
<1>4. R =< x /\ x < 2 * R => x % R = x - R
  OBVIOUS
<1>5. QED
  BY <1>1, <1>2, <1>3, <1>4

\* Distances from a start tell numbers apart, and follow sums until they wrap.
LEMMA Distance ==
    ASSUME NEW R \in Nat \ {0}, NEW s \in 0 .. (R - 1),
           NEW n \in 0 .. (R - 1)
    PROVE  /\ (n - s) % R = IF s =< n THEN n - s ELSE n - s + R
           /\ (n - s) % R \in 0 .. (R - 1)
<1>1. PICK x \in Int : x = n - s
  OBVIOUS
<1>1a. -R =< x /\ x < R
  BY <1>1
<1>1b. /\ x % R \in 0 .. (R - 1)
       /\ 0 =< x => x % R = x
       /\ x < 0 => x % R = x + R
  BY <1>1a, SmallMod
<1>2. x % R = (IF s =< n THEN x ELSE x + R) /\ x % R \in 0 .. (R - 1)
  BY <1>1, <1>1b
<1>3. QED
  BY <1>1, <1>2

LEMMA DistanceOfSum ==
    ASSUME NEW R \in Nat \ {0}, NEW s \in 0 .. (R - 1),
           NEW n \in 0 .. (R - 1), NEW k \in Nat, ((n - s) % R) + k < R
    PROVE  /\ (n + k) % R \in 0 .. (R - 1)
           /\ (((n + k) % R) - s) % R = ((n - s) % R) + k
<1>1. (n - s) % R = IF s =< n THEN n - s ELSE n - s + R
  BY Distance
<1>2. PICK y \in Int : y = n + k
  OBVIOUS
<1>2a. 0 =< y /\ y < 2 * R
  BY <1>1, <1>2
<1>3. (n + k) % R = IF n + k < R THEN n + k ELSE n + k - R
  <2>1. (y < R => y % R = y) /\ (R =< y => y % R = y - R)
    BY <1>2a, SmallMod
  <2>2. QED
    BY <1>2, <2>1
<1>4. (n + k) % R \in 0 .. (R - 1)
  BY <1>2, <1>2a, <1>3
<1>5. PICK x \in 0 .. (R - 1) : x = (n + k) % R
  BY <1>4
<1>6. (x - s) % R = IF s =< x THEN x - s ELSE x - s + R
  BY Distance
<1>7. QED
  BY <1>1, <1>3, <1>4, <1>5, <1>6

LEMMA OffRange == ASSUME NEW n \in Int PROVE Off(n) \in 0 .. (MessageRange - 1)
  BY SmallMod, ReliabilityAssumption DEF Off

LEMMA OffOfSum ==
    ASSUME NEW n \in 0 .. (MessageRange - 1), NEW k \in Nat, Off(n) + k < MessageRange
    PROVE  /\ MessageSum(n, k) \in 0 .. (MessageRange - 1)
           /\ Off(MessageSum(n, k)) = Off(n) + k
  BY DistanceOfSum, ReliabilityAssumption DEF Off, MessageSum

LEMMA OffTellsApart ==
    ASSUME NEW n \in 0 .. (MessageRange - 1), NEW k \in 0 .. (MessageRange - 1),
           Off(n) = Off(k)
    PROVE  n = k
<1>1. PICK a \in Int, b \in Int : a = Off(n) /\ b = Off(k)
  BY Distance, ReliabilityAssumption DEF Off
<1>2. /\ a = IF Start =< n THEN n - Start ELSE n - Start + MessageRange
      /\ b = IF Start =< k THEN k - Start ELSE k - Start + MessageRange
  BY <1>1, Distance, ReliabilityAssumption DEF Off
<1>3. QED
  BY <1>1, <1>2, ReliabilityAssumption

LEMMA RankRange == ASSUME NEW i \in Int PROVE Rank(i) \in 0 .. (OrderRange - 1)
  BY SmallMod, ReliabilityAssumption DEF Rank

LEMMA RankOfSum ==
    ASSUME NEW i \in 0 .. (OrderRange - 1), NEW k \in Nat, Rank(i) + k < OrderRange
    PROVE  /\ OrderSum(i, k) \in 0 .. (OrderRange - 1)
           /\ Rank(OrderSum(i, k)) = Rank(i) + k
  BY DistanceOfSum, ReliabilityAssumption DEF Rank, OrderSum

LEMMA RankTellsApart ==
    ASSUME NEW i \in 0 .. (OrderRange - 1), NEW k \in 0 .. (OrderRange - 1),
           Rank(i) = Rank(k)
    PROVE  i = k
<1>1. PICK a \in Int, b \in Int : a = Rank(i) /\ b = Rank(k)
  BY Distance, ReliabilityAssumption DEF Rank
<1>2. /\ a = IF OrderStart =< i THEN i - OrderStart ELSE i - OrderStart + OrderRange
      /\ b = IF OrderStart =< k THEN k - OrderStart ELSE k - OrderStart + OrderRange
  BY <1>1, Distance, ReliabilityAssumption DEF Rank
<1>3. QED
  BY <1>1, <1>2, ReliabilityAssumption

LEMMA RankOfStart == Rank(OrderStart) = 0 /\ OrderStart \in 0 .. (OrderRange - 1)
  BY SmallMod, ReliabilityAssumption DEF Rank

LEMMA OffOfStart == Off(Start) = 0 /\ Start \in 0 .. (MessageRange - 1)
  BY SmallMod, ReliabilityAssumption DEF Off

\* The distance from the window's base, and the half of the range that is behind it.
LEMMA HoleOfNumber ==
    ASSUME base \in 0 .. (MessageRange - 1), Base =< MaxPackets,
           NEW n \in 0 .. (MessageRange - 1), Off(n) =< MaxPackets
    PROVE  /\ HoleCount(n) = IF Base =< Off(n) THEN Off(n) - Base
                             ELSE Off(n) - Base + MessageRange
           /\ Underflow(HoleCount(n)) <=> Off(n) < Base
<1> DEFINE h == (MessageRange - 1) \div 2
<1>1. /\ Off(n) = IF Start =< n THEN n - Start ELSE n - Start + MessageRange
      /\ Base = IF Start =< base THEN base - Start ELSE base - Start + MessageRange
  BY Distance, ReliabilityAssumption DEF Off, Base
<1>2. HoleCount(n) = IF base =< n THEN n - base ELSE n - base + MessageRange
  BY Distance, ReliabilityAssumption DEF HoleCount
<1>3. HoleCount(n) = IF Base =< Off(n) THEN Off(n) - Base ELSE Off(n) - Base + MessageRange
  BY <1>1, <1>2, ReliabilityAssumption
<1>4. h \in Nat /\ 2 * h =< MessageRange - 1 /\ MessageRange - 1 =< 2 * h + 1
  BY ReliabilityAssumption
<1>5. Off(n) \in Nat /\ Base \in Nat
  BY OffRange, ReliabilityAssumption DEF Base
<1>6. Underflow(HoleCount(n)) <=> HoleCount(n) > MessageRange - 1 - h
  BY DEF Underflow
<1>7. QED
  BY <1>3, <1>4, <1>5, <1>6, ReliabilityAssumption

\* What the code takes for an older index is one.
LEMMA OlderIsOlder ==
    ASSUME NEW i \in 0 .. (OrderRange - 1), NEW w \in 0 .. (OrderRange - 1),
           Rank(i) < MaxPackets, Rank(w) =< MaxPackets, IsOlderOrderedPacket(i, w)
    PROVE  Rank(i) < Rank(w)
<1> DEFINE h == (OrderRange - 1) \div 2
<1>1. /\ Rank(i) = IF OrderStart =< i THEN i - OrderStart ELSE i - OrderStart + OrderRange
      /\ Rank(w) = IF OrderStart =< w THEN w - OrderStart ELSE w - OrderStart + OrderRange
  BY Distance, ReliabilityAssumption DEF Rank
<1>2. h \in Nat /\ 2 * h =< OrderRange - 1 /\ OrderRange - 1 =< 2 * h + 1
  BY ReliabilityAssumption
<1>3. IF w > h THEN i >= w - h + 1 /\ i < w
               ELSE i >= (w - (h + 1)) % OrderRange \/ i < w
  BY DEF IsOlderOrderedPacket
<1>4. w =< h => (w - (h + 1)) % OrderRange = w - (h + 1) + OrderRange
  <2>1. SUFFICES ASSUME w =< h
                 PROVE  (w - (h + 1)) % OrderRange = w - (h + 1) + OrderRange
    OBVIOUS
  <2>2. w - (h + 1) \in Int /\ -OrderRange =< w - (h + 1) /\ w - (h + 1) < 0
    BY <1>2, <2>1, ReliabilityAssumption
  <2>3. QED
    BY <2>2, SmallMod, ReliabilityAssumption
<1> HIDE DEF h
<1>5. QED
  BY <1>1, <1>2, <1>3, <1>4, ReliabilityAssumption

\* In a conversation a little shorter, it misses none.
LEMMA OlderIsSeen ==
    ASSUME 2 * MaxPackets + 2 < OrderRange,
           NEW i \in 0 .. (OrderRange - 1), NEW w \in 0 .. (OrderRange - 1),
           Rank(i) < Rank(w), Rank(w) =< MaxPackets
    PROVE  IsOlderOrderedPacket(i, w)
<1> DEFINE h == (OrderRange - 1) \div 2
<1>1. /\ Rank(i) = IF OrderStart =< i THEN i - OrderStart ELSE i - OrderStart + OrderRange
      /\ Rank(w) = IF OrderStart =< w THEN w - OrderStart ELSE w - OrderStart + OrderRange
  BY Distance, ReliabilityAssumption DEF Rank
<1>2. h \in Nat /\ 2 * h =< OrderRange - 1 /\ OrderRange - 1 =< 2 * h + 1
  BY ReliabilityAssumption
<1>3. IsOlderOrderedPacket(i, w) <=>
          IF w > h THEN i >= w - h + 1 /\ i < w
                   ELSE i >= (w - (h + 1)) % OrderRange \/ i < w
  BY DEF IsOlderOrderedPacket
<1>4. w =< h => (w - (h + 1)) % OrderRange = w - (h + 1) + OrderRange
  <2>1. SUFFICES ASSUME w =< h
                 PROVE  (w - (h + 1)) % OrderRange = w - (h + 1) + OrderRange
    OBVIOUS
  <2>2. w - (h + 1) \in Int /\ -OrderRange =< w - (h + 1) /\ w - (h + 1) < 0
    BY <1>2, <2>1, ReliabilityAssumption
  <2>3. QED
    BY <2>2, SmallMod, ReliabilityAssumption
<1> HIDE DEF h
<1>5. QED
  BY <1>1, <1>2, <1>3, <1>4, ReliabilityAssumption

-----------------------------------------------------------------------------
(* What the invariant says of single numbers, packets and messages. *)

LEMMA Bounds ==
    ASSUME SentInv, PacketInv, WindowInv
    PROVE  /\ Total \in Nat /\ Gone \in Nat /\ Base \in Nat /\ Len(queue) \in Nat
           /\ Base + Len(queue) =< Gone /\ Gone =< Total /\ Total =< MaxPackets
           /\ MaxPackets < MessageRange
<1>1. Total \in Nat /\ Base \in Nat
  BY OffRange, ReliabilityAssumption DEF Total, Base, SentInv, WindowInv
<1>2. Len(queue) \in Nat /\ Len(sendPacketSet) \in Nat
  BY DEF WindowInv, PacketInv
<1>3. QED
  BY <1>1, <1>2, ReliabilityAssumption DEF Gone, SentInv, PacketInv, WindowInv

LEMMA MessageFacts ==
    ASSUME SentInv, NEW m \in Messages
    PROVE  /\ sent[m].kind \in Traffic /\ sent[m].kind \in Kind
           /\ sent[m].kind.ch \in Channels /\ sent[m].kind.parts \in Nat \ {0}
           /\ sent[m].num \in 0 .. (MessageRange - 1)
           /\ Begin(m) \in Nat
           /\ m \in Nat \ {0}
           /\ Len(sent) \in Nat
<1>0. PICK S : S = [kind : Traffic, num : 0 .. (MessageRange - 1)]
  OBVIOUS
<1>0a. sent \in Seq(S) /\ m \in 1 .. Len(sent)
  BY <1>0 DEF SentInv, Messages
<1>0b. sent[m] \in S /\ Len(sent) \in Nat /\ m \in Nat \ {0}
  BY <1>0a
<1>1. sent[m] \in [kind : Traffic, num : 0 .. (MessageRange - 1)] /\ m \in Nat \ {0}
      /\ Len(sent) \in Nat
  BY <1>0, <1>0b
<1>1a. sent[m].kind \in Traffic /\ sent[m].num \in Int
  BY <1>1, ReliabilityAssumption
<1>2. sent[m].kind \in Kind
  BY <1>1, ReliabilityAssumption
<1>3. Begin(m) \in Nat
  BY <1>1a, OffRange, ReliabilityAssumption DEF Begin
<1>4. QED
  BY <1>1, <1>2, <1>3 DEF Kind

LEMMA SpanFacts ==
    ASSUME SentInv, NEW m \in Messages, NEW k \in Span(m)
    PROVE  k \in Nat /\ Begin(m) =< k /\ k < Total
<1>1. Total \in Nat
  BY OffRange, ReliabilityAssumption DEF Total, SentInv
<1>2. Begin(m) + sent[m].kind.parts =< Total
  BY DEF SentInv
<1>3. k \in Begin(m) .. (Begin(m) + sent[m].kind.parts - 1)
  BY DEF Span
<1>4. Begin(m) \in Nat /\ sent[m].kind.parts \in Nat \ {0}
  BY MessageFacts
<1>5. QED
  BY <1>1, <1>2, <1>3, <1>4

\* The numbers of a message are its packets' offsets, wrapped.
LEMMA NumberFacts ==
    ASSUME SentInv, NEW m \in Messages, NEW n \in NumbersOf(m)
    PROVE  /\ n \in 0 .. (MessageRange - 1)
           /\ Off(n) \in Span(m)
           /\ Off(n) \in Nat /\ Off(n) < Total
<1>1. PICK i \in 0 .. (sent[m].kind.parts - 1) : n = MessageSum(sent[m].num, i)
  BY DEF NumbersOf
<1>2. Total \in Nat /\ Total < MessageRange
  BY OffRange, ReliabilityAssumption DEF Total, SentInv
<1>3. i \in Nat /\ Begin(m) + i < Total /\ Begin(m) \in Nat
  <2>1. Begin(m) + sent[m].kind.parts =< Total
    BY DEF SentInv
  <2>2. Begin(m) \in Nat /\ sent[m].kind.parts \in Nat \ {0}
    BY MessageFacts
  <2>3. QED
    BY <1>1, <1>2, <2>1, <2>2
<1>4. Off(sent[m].num) = Begin(m)
  BY DEF Begin
<1>5. n \in 0 .. (MessageRange - 1) /\ Off(n) = Begin(m) + i
  <2>1. Off(sent[m].num) + i < MessageRange /\ sent[m].num \in 0 .. (MessageRange - 1)
    BY <1>2, <1>3, <1>4, MessageFacts, ReliabilityAssumption
  <2>2. QED
    BY <1>1, <1>3, <1>4, <2>1, OffOfSum
<1>6. QED
  BY <1>2, <1>3, <1>5, MessageFacts DEF Span

\* Every offset of a message is that of one of its numbers.
LEMMA NumberAt ==
    ASSUME SentInv, NEW m \in Messages, NEW k \in Span(m)
    PROVE  \E n \in NumbersOf(m) : Off(n) = k
<1>1. PICK i \in 0 .. (sent[m].kind.parts - 1) : k = Begin(m) + i
  <2>1. k - Begin(m) \in 0 .. (sent[m].kind.parts - 1)
    BY MessageFacts DEF Span
  <2>2. QED
    BY <2>1, MessageFacts DEF Span
<1>2. Total \in Nat /\ Total < MessageRange
  BY OffRange, ReliabilityAssumption DEF Total, SentInv
<1>3. i \in Nat /\ Begin(m) + i < MessageRange
  BY <1>1, <1>2, SpanFacts, MessageFacts, ReliabilityAssumption
<1>4. Off(MessageSum(sent[m].num, i)) = k
  BY <1>1, <1>3, OffOfSum, MessageFacts DEF Begin
<1>5. QED
  BY <1>4 DEF NumbersOf

\* Messages do not share packets.
LEMMA SpansAreDisjoint ==
    ASSUME SentInv, NEW m \in Messages, NEW l \in Messages,
           NEW k \in Span(m), k \in Span(l)
    PROVE  m = l
<1>1. /\ m \in Nat /\ l \in Nat /\ Begin(m) \in Nat /\ Begin(l) \in Nat /\ k \in Nat
      /\ sent[m].kind.parts \in Nat /\ sent[l].kind.parts \in Nat
  BY MessageFacts, SpanFacts
<1>2. Begin(m) =< k /\ k < Begin(m) + sent[m].kind.parts
  BY <1>1 DEF Span
<1>3. Begin(l) =< k /\ k < Begin(l) + sent[l].kind.parts
  BY <1>1 DEF Span
<1>4. ~(m < l) /\ ~(l < m)
  <2>1. /\ m < l => Begin(m) + sent[m].kind.parts =< Begin(l)
        /\ l < m => Begin(l) + sent[l].kind.parts =< Begin(m)
    BY DEF SentInv
  <2>2. QED
    BY <1>1, <1>2, <1>3, <2>1
<1>5. QED
  BY <1>1, <1>4

LEMMA PacketFacts ==
    ASSUME SentInv, NEW p, Genuine(p)
    PROVE  /\ p.num \in 0 .. (MessageRange - 1) /\ p.idx \in 0 .. (OrderRange - 1)
           /\ p.part \in Nat \ {0} /\ p.msg \in Nat \ {0} /\ p.kind \in Traffic
           /\ p.kind.ch \in Channels /\ p.kind.parts \in Nat \ {0}
           /\ Off(p.num) \in Span(p.msg)
           /\ Off(p.num) \in Nat /\ Off(p.num) < Total
           /\ p.num \in NumbersOf(p.msg)
<1>1. /\ p \in Packet /\ p.msg \in Messages /\ p.kind = sent[p.msg].kind
      /\ p.part \in 1 .. p.kind.parts /\ Off(p.num) = Begin(p.msg) + p.part - 1
  BY DEF Genuine
<1>2. /\ p.num \in 0 .. (MessageRange - 1) /\ p.idx \in 0 .. (OrderRange - 1)
      /\ p.part \in Nat /\ p.msg \in Nat \ {0} /\ p.kind \in Traffic
  BY <1>1 DEF Packet
<1>3. p.kind.ch \in Channels /\ p.kind.parts \in Nat \ {0} /\ Begin(p.msg) \in Nat
  BY <1>1, MessageFacts
<1>4. Off(p.num) \in Span(p.msg)
  BY <1>1, <1>2, <1>3 DEF Span
<1>5. PICK n \in NumbersOf(p.msg) : Off(n) = Off(p.num)
  BY <1>1, <1>4, NumberAt
<1>6. n = p.num
  BY <1>1, <1>2, <1>5, NumberFacts, OffTellsApart
<1>7. QED
  BY <1>1, <1>2, <1>3, <1>4, <1>5, <1>6, SpanFacts

\* The window's test is Counted.
LEMMA WindowCounts ==
    ASSUME SentInv, PacketInv, WindowInv,
           NEW n \in 0 .. (MessageRange - 1), Off(n) =< Total
    PROVE  AlreadyCounted(n) <=> Counted(Off(n))
<1>1. /\ Total \in Nat /\ Gone \in Nat /\ Base \in Nat /\ Len(queue) \in Nat
      /\ Base + Len(queue) =< Gone /\ Gone =< Total /\ Total =< MaxPackets
      /\ MaxPackets < MessageRange
  BY Bounds
<1>2. Off(n) \in Nat /\ MaxPackets \in Nat
  BY OffRange, ReliabilityAssumption
<1>3. /\ HoleCount(n) = IF Base =< Off(n) THEN Off(n) - Base ELSE Off(n) - Base + MessageRange
      /\ Underflow(HoleCount(n)) <=> Off(n) < Base
  BY <1>1, <1>2, HoleOfNumber DEF WindowInv
<1>4. CASE Off(n) < Base
  BY <1>3, <1>4 DEF AlreadyCounted, Counted
<1>5. CASE Base =< Off(n)
  <2>1. HoleCount(n) = Off(n) - Base /\ ~Underflow(HoleCount(n)) /\ HoleCount(n) \in Nat
    BY <1>1, <1>2, <1>3, <1>5
  <2>2. HoleCount(n) + 1 =< Len(queue) /\ queue[HoleCount(n) + 1] = "got" => HoleCount(n) # 0
    BY <1>1, <2>1 DEF WindowInv
  <2>3. QED
    BY <1>1, <1>2, <1>5, <2>1, <2>2 DEF AlreadyCounted, Counted
<1>6. QED
  BY <1>1, <1>2, <1>4, <1>5

-----------------------------------------------------------------------------
(* The invariant implies the properties. *)

LEMMA InvImpliesTypes == IInv => TypeOK
<1> SUFFICES ASSUME IInv PROVE TypeOK
  OBVIOUS
<1> USE DEF IInv
<1>1. /\ messageNumber \in 0 .. (MessageRange - 1)
      /\ orderedWrite \in [Channels -> 0 .. (OrderRange - 1)]
      /\ sequencedWrite \in [Channels -> 0 .. (OrderRange - 1)]
      /\ sent \in Seq([kind : Traffic, num : 0 .. (MessageRange - 1)])
  BY DEF SentInv
<1>2. /\ base \in 0 .. (MessageRange - 1) /\ gaveUp \subseteq 0 .. (MessageRange - 1)
      /\ queue \in Seq({"got", "hole"})
  BY DEF WindowInv
<1>3. /\ orderedRead \in [Channels -> 0 .. (OrderRange - 1)]
      /\ sequencedRead \in [Channels -> 0 .. (OrderRange - 1)]
  BY DEF SequenceInv
<1>4. /\ sendPacketSet \in Seq(Packet) /\ deadConnection \in BOOLEAN
      /\ \A p \in resendList \cup net \cup orderingList \cup splitList : p \in Packet
  BY DEF PacketInv, Genuine
<1>5. acknowlegements \subseteq 0 .. (MessageRange - 1) /\ output \in Seq(Messages)
  BY DEF ResendInv, DeliveryInv
<1>6. QED
  BY <1>1, <1>2, <1>3, <1>4, <1>5 DEF TypeOK

LEMMA InvImpliesKept == IInv => AcknowledgedIsKept
<1> SUFFICES ASSUME IInv, NEW m \in Messages, Reliable(sent[m].kind),
                    NEW n \in NumbersOf(m), Forgotten(n)
             PROVE  m \in Outputs \/ Superseded(m) \/ Waiting(m, n) \/ n \in gaveUp
  BY DEF AcknowledgedIsKept
<1> USE DEF IInv
<1>1. n \in 0 .. (MessageRange - 1) /\ Off(n) \in Span(m) /\ Off(n) \in Nat /\ Off(n) < Total
  BY NumberFacts
<1>2. Gone \in Nat /\ Total \in Nat /\ Gone =< Total
  BY Bounds
<1>3. CASE Off(n) < Gone
  <2>1. Counted(Off(n)) \/ \E p \in resendList : Off(p.num) = Off(n)
    BY <1>1, <1>3 DEF ResendInv
  <2>2. ASSUME NEW p \in resendList, Off(p.num) = Off(n)
        PROVE  FALSE
    <3>1. p.num \in 0 .. (MessageRange - 1)
      BY PacketFacts DEF PacketInv
    <3>2. p.num = n
      BY <1>1, <2>2, <3>1, OffTellsApart
    <3>3. QED
      BY <3>2 DEF Forgotten
  <2>3. Counted(Off(n))
    BY <2>1, <2>2
  <2>4. QED
    BY <2>3 DEF DeliveryInv
<1>4. CASE Gone =< Off(n)
  <2>1. PICK i \in 1 .. Len(sendPacketSet) : Off(n) = Gone + i - 1
    <3>1. Len(sendPacketSet) \in Nat /\ Gone + Len(sendPacketSet) = Total
      BY <1>2 DEF Gone, PacketInv
    <3>2. Off(n) - Gone + 1 \in 1 .. Len(sendPacketSet)
      BY <1>1, <1>2, <1>4, <3>1
    <3>3. QED
      BY <1>1, <1>2, <3>2
  <2>2. Genuine(sendPacketSet[i]) /\ Off(sendPacketSet[i].num) = Off(n)
    BY <2>1 DEF PacketInv, Unsent
  <2>3. sendPacketSet[i].num = n
    BY <1>1, <2>2, PacketFacts, OffTellsApart
  <2>4. QED
    BY <2>1, <2>3 DEF Forgotten, Unsent
<1>5. QED
  BY <1>1, <1>2, <1>3, <1>4

LEMMA InvImpliesExact == IInv => WindowIsExact
<1> SUFFICES ASSUME IInv
             PROVE  WindowIsExact
  OBVIOUS
<1> USE DEF IInv
<1>1. /\ Total \in Nat /\ Gone \in Nat /\ Base \in Nat /\ Len(queue) \in Nat
      /\ Base + Len(queue) =< Gone /\ Gone =< Total /\ Total =< MaxPackets
      /\ MaxPackets < MessageRange
  BY Bounds
<1>2. queue # <<>> => queue[1] = "hole" /\ queue[Len(queue)] = "got"
  BY DEF WindowInv
<1>3. Len(queue) =< HoleCount(messageNumber)
  <2>1. messageNumber \in 0 .. (MessageRange - 1) /\ Off(messageNumber) = Total
    BY DEF SentInv, Total
  <2>2. HoleCount(messageNumber) = Total - Base
    <3>1. base \in 0 .. (MessageRange - 1) /\ Base =< MaxPackets /\ Base =< Total
      BY <1>1, ReliabilityAssumption DEF WindowInv
    <3>2. QED
      BY <1>1, <2>1, <3>1, HoleOfNumber
  <2>3. QED
    BY <1>1, <2>2
<1>4. ASSUME NEW m \in Messages, NEW n \in NumbersOf(m)
      PROVE  /\ m \in Outputs \/ Waiting(m, n) => AlreadyCounted(n)
             /\ Reliable(sent[m].kind) /\ AlreadyCounted(n)
                  => m \in Outputs \/ Waiting(m, n) \/ Superseded(m) \/ n \in gaveUp
  <2>1. n \in 0 .. (MessageRange - 1) /\ Off(n) \in Span(m) /\ Off(n) \in Nat /\ Off(n) < Total
    BY NumberFacts
  <2>2. AlreadyCounted(n) <=> Counted(Off(n))
    BY <1>1, <2>1, WindowCounts
  <2>3. m \in Outputs \/ Waiting(m, n) => Counted(Off(n))
    BY <2>1 DEF DeliveryInv, Waiting
  <2>4. QED
    BY <2>2, <2>3 DEF DeliveryInv
<1>5. ASSUME NEW p \in Unsent, AlreadyCounted(p.num)
      PROVE  FALSE
  <2>1. PICK i \in 1 .. Len(sendPacketSet) : p = sendPacketSet[i]
    BY DEF Unsent
  <2>2. i \in Nat /\ i >= 1 /\ Genuine(p) /\ Off(p.num) = Gone + i - 1
    BY <2>1 DEF PacketInv, Unsent
  <2>3. p.num \in 0 .. (MessageRange - 1) /\ Off(p.num) < Total
    BY <2>2, PacketFacts
  <2>4. Counted(Off(p.num))
    BY <1>1, <1>5, <2>2, <2>3, WindowCounts
  <2>5. QED
    BY <1>1, <2>2, <2>4 DEF Counted
<1>6. QED
  BY <1>2, <1>3, <1>4, <1>5 DEF WindowIsExact

-----------------------------------------------------------------------------
(* What steps do to the messages. *)

\* Nothing is sent.
LEMMA NothingSent ==
    ASSUME sent' = sent
    PROVE  /\ Messages' = Messages
           /\ \A m : Begin(m)' = Begin(m) /\ Span(m)' = Span(m) /\ NumbersOf(m)' = NumbersOf(m)
           /\ \A ch : SequencedOf(ch)' = SequencedOf(ch) /\ OrderedOf(ch)' = OrderedOf(ch)
           /\ \A p : Genuine(p)' <=> Genuine(p)
<1>1. /\ Messages' = Messages
      /\ \A m : Begin(m)' = Begin(m) /\ NumbersOf(m)' = NumbersOf(m)
  BY DEF Messages, Begin, NumbersOf
<1>2. \A m : Span(m)' = Span(m)
  BY <1>1 DEF Span
<1>3. \A ch : SequencedOf(ch)' = SequencedOf(ch) /\ OrderedOf(ch)' = OrderedOf(ch)
  BY <1>1 DEF SequencedOf, OrderedOf
<1>4. ASSUME NEW p
      PROVE  Genuine(p)' <=> Genuine(p)
  BY <1>1, <1>3 DEF Genuine
<1>5. QED
  BY <1>1, <1>2, <1>3, <1>4

\* A message is sent: nothing changes for the earlier ones.
LEMMA OneMoreSent ==
    ASSUME SentInv, NEW e, sent' = Append(sent, e), NEW l \in Nat, l = Len(sent) + 1
    PROVE  /\ Len(sent') = l /\ Messages' = Messages \cup {l}
           /\ sent'[l] = e
           /\ \A m \in Messages :
                /\ m \in Nat /\ m < l
                /\ sent'[m] = sent[m] /\ Begin(m)' = Begin(m)
                /\ Span(m)' = Span(m) /\ NumbersOf(m)' = NumbersOf(m)
                /\ \A ch : /\ Before(m, SequencedOf(ch))' = Before(m, SequencedOf(ch))
                           /\ Before(m, OrderedOf(ch))' = Before(m, OrderedOf(ch))
           /\ \A ch :
                /\ Before(l, SequencedOf(ch))' = SequencedOf(ch)
                /\ Before(l, OrderedOf(ch))' = OrderedOf(ch)
                /\ SequencedOf(ch)' = IF Sequenced(e.kind) /\ e.kind.ch = ch
                     THEN SequencedOf(ch) \cup {l} ELSE SequencedOf(ch)
                /\ OrderedOf(ch)' = IF Ordered(e.kind) /\ e.kind.ch = ch
                     THEN OrderedOf(ch) \cup {l} ELSE OrderedOf(ch)
           /\ \A p : Genuine(p) => Genuine(p)'
<1>0. PICK S : sent \in Seq(S)
  BY DEF SentInv
<1>1. Len(sent) \in Nat /\ Len(sent') = l /\ sent'[l] = e
  BY <1>0
<1>2. Messages' = Messages \cup {l}
  BY <1>1 DEF Messages
<1>3. \A m \in Messages : m \in Nat /\ m < l /\ sent'[m] = sent[m]
  BY <1>0, <1>1 DEF Messages
<1>4. \A m \in Messages : Begin(m)' = Begin(m) /\ NumbersOf(m)' = NumbersOf(m)
  BY <1>3 DEF Begin, NumbersOf
<1>5. \A m \in Messages : Span(m)' = Span(m)
  BY <1>3, <1>4 DEF Span
<1>6. ASSUME NEW ch
      PROVE  /\ SequencedOf(ch)' = IF Sequenced(e.kind) /\ e.kind.ch = ch
                  THEN SequencedOf(ch) \cup {l} ELSE SequencedOf(ch)
             /\ OrderedOf(ch)' = IF Ordered(e.kind) /\ e.kind.ch = ch
                  THEN OrderedOf(ch) \cup {l} ELSE OrderedOf(ch)
  BY <1>1, <1>2, <1>3 DEF SequencedOf, OrderedOf
<1>7. ASSUME NEW ch, NEW m \in Messages
      PROVE  /\ Before(m, SequencedOf(ch))' = Before(m, SequencedOf(ch))
             /\ Before(m, OrderedOf(ch))' = Before(m, OrderedOf(ch))
  BY <1>1, <1>3, <1>6 DEF Before
<1>8. ASSUME NEW ch
      PROVE  /\ Before(l, SequencedOf(ch))' = SequencedOf(ch)
             /\ Before(l, OrderedOf(ch))' = OrderedOf(ch)
  <2>1. \A k \in SequencedOf(ch) \cup OrderedOf(ch) : k \in Nat /\ k < l
    BY <1>1, <1>3 DEF SequencedOf, OrderedOf
  <2>2. ~(l < l)
    BY <1>1
  <2>3. QED
    BY <1>6, <2>1, <2>2 DEF Before
<1>9. ASSUME NEW p, Genuine(p)
      PROVE  Genuine(p)'
  <2>1. p.msg \in Messages
    BY <1>9 DEF Genuine
  <2>2. p.msg \in Messages' /\ sent'[p.msg] = sent[p.msg] /\ Begin(p.msg)' = Begin(p.msg)
    BY <1>2, <1>3, <1>4, <2>1
  <2>3. QED
    BY <1>7, <1>9, <2>1, <2>2 DEF Genuine
<1>10. QED
  BY <1>1, <1>2, <1>3, <1>4, <1>5, <1>6, <1>7, <1>8, <1>9

\* Places in a set of numbers grow with the numbers.
LEMMA Places ==
    ASSUME NEW L \in Nat, NEW S \in SUBSET (1 .. L)
    PROVE  /\ IsFiniteSet(S) /\ Cardinality(S) \in 0 .. L
           /\ \A m \in S : Cardinality(Before(m, S)) \in 0 .. (Cardinality(S) - 1)
           /\ \A m, k \in S : m < k => Cardinality(Before(m, S)) < Cardinality(Before(k, S))
<1>1. IsFiniteSet(1 .. L) /\ Cardinality(1 .. L) = L
  BY FS_Interval
<1>2. IsFiniteSet(S) /\ Cardinality(S) =< L /\ Cardinality(S) \in Nat
  BY <1>1, FS_Subset, FS_CardinalityType
<1>3. ASSUME NEW m \in S
      PROVE  IsFiniteSet(Before(m, S)) /\ Cardinality(Before(m, S)) \in 0 .. (Cardinality(S) - 1)
  <2>1. Before(m, S) \in SUBSET S /\ m \notin Before(m, S)
    BY DEF Before
  <2>2. /\ IsFiniteSet(Before(m, S)) /\ Cardinality(Before(m, S)) =< Cardinality(S)
        /\ Cardinality(Before(m, S)) = Cardinality(S) => Before(m, S) = S
    BY <1>2, <2>1, FS_Subset
  <2>3. Cardinality(Before(m, S)) \in Nat
    BY <2>2, FS_CardinalityType
  <2>4. QED
    BY <1>2, <2>1, <2>2, <2>3
<1>4. ASSUME NEW m \in S, NEW k \in S, m < k
      PROVE  Cardinality(Before(m, S)) < Cardinality(Before(k, S))
  <2>0. m \in Nat /\ k \in Nat /\ \A x \in S : x \in Nat /\ (x < m => x < k)
    <3>1. m \in Nat /\ k \in Nat /\ \A x \in S : x \in Nat
      OBVIOUS
    <3>2. QED
      BY <1>4, <3>1
  <2>1. Before(m, S) \in SUBSET Before(k, S) /\ m \notin Before(m, S) /\ m \in Before(k, S)
    <3>1. \A x \in Before(m, S) : x \in Before(k, S)
      BY <2>0 DEF Before
    <3>2. m \notin Before(m, S)
      BY <2>0 DEF Before
    <3>3. m \in Before(k, S)
      BY <1>4 DEF Before
    <3>4. QED
      BY <3>1, <3>2, <3>3
  <2>2. /\ Cardinality(Before(m, S)) =< Cardinality(Before(k, S))
        /\ Cardinality(Before(m, S)) = Cardinality(Before(k, S)) => Before(m, S) = Before(k, S)
    BY <1>3, <2>1, FS_Subset
  <2>3. QED
    BY <1>3, <2>1, <2>2
<1>5. QED
  BY <1>2, <1>3, <1>4

LEMMA StreamFacts ==
    ASSUME SentInv, NEW ch
    PROVE  /\ Len(sent) \in Nat /\ Messages = 1 .. Len(sent)
           /\ SequencedOf(ch) \in SUBSET (1 .. Len(sent))
           /\ OrderedOf(ch) \in SUBSET (1 .. Len(sent))
           /\ IsFiniteSet(SequencedOf(ch)) /\ Cardinality(SequencedOf(ch)) \in 0 .. Len(sent)
           /\ IsFiniteSet(OrderedOf(ch)) /\ Cardinality(OrderedOf(ch)) \in 0 .. Len(sent)
           /\ Len(sent) =< MaxPackets
<1>1. Len(sent) \in Nat /\ Messages = 1 .. Len(sent)
  BY DEF SentInv, Messages
<1>2. /\ SequencedOf(ch) \in SUBSET (1 .. Len(sent))
      /\ OrderedOf(ch) \in SUBSET (1 .. Len(sent))
  BY <1>1 DEF SequencedOf, OrderedOf
<1>3. Total \in Nat
  BY OffRange, ReliabilityAssumption DEF Total, SentInv
<1>4. QED
  BY SMTT(30), <1>1, <1>2, <1>3, Places, ReliabilityAssumption DEF SentInv

-----------------------------------------------------------------------------
(* Sending. *)

\* Counting depends on the window alone.
LEMMA SameWindow ==
    ASSUME base' = base, queue' = queue
    PROVE  Base' = Base /\ \A k : Counted(k)' <=> Counted(k)
<1>1. Base' = Base
  BY DEF Base, Off
<1>2. QED
  BY <1>1 DEF Counted

\* An index that is taken counts on.
LEMMA IndexCountsOn ==
    ASSUME SentInv, NEW i \in 0 .. (OrderRange - 1), NEW S \in SUBSET (1 .. Len(sent)),
           Rank(i) = Cardinality(S), Len(sent) < MaxPackets,
           NEW l \in Nat, l = Len(sent) + 1
    PROVE  /\ OrderSum(i, 1) \in 0 .. (OrderRange - 1)
           /\ Rank(OrderSum(i, 1)) = Cardinality(S \cup {l})
<1>1. Len(sent) \in Nat /\ Len(sent) =< MaxPackets
  BY StreamFacts
<1>2. IsFiniteSet(S) /\ Cardinality(S) \in 0 .. Len(sent)
  BY <1>1, Places
<1>3. l \notin S
  BY <1>1
<1>4. Cardinality(S \cup {l}) = Cardinality(S) + 1
  BY <1>2, <1>3, FS_AddElement
<1>5. Rank(i) + 1 < OrderRange
  BY <1>1, <1>2, ReliabilityAssumption
<1>6. QED
  BY <1>4, <1>5, RankOfSum

\* The packets of a new message are its packets.
LEMMA NewPackets ==
    ASSUME IInv, NEW kind \in Traffic, Send(kind), NEW P, P = PacketsOf(kind)
    PROVE  /\ P \in Seq(Packet) /\ Len(P) = kind.parts
           /\ \A i \in 1 .. kind.parts : Genuine(P[i])' /\ Off(P[i].num) = Total + i - 1
<1> PICK l \in Nat : l = Len(sent) + 1
  BY StreamFacts DEF IInv
<1> PICK e : e = [kind |-> kind, num |-> messageNumber]
  OBVIOUS
<1> USE DEF IInv
<1>1. kind.parts \in Nat \ {0} /\ kind.ch \in Channels
  BY ReliabilityAssumption DEF Kind
<1>2. sent' = Append(sent, e) /\ e.kind = kind /\ e.num = messageNumber
  BY DEF Send
<1>3. /\ Total \in Nat /\ Len(sent) \in Nat /\ Total + kind.parts =< MaxPackets
      /\ MaxPackets \in Nat /\ MaxPackets < MessageRange
      /\ messageNumber \in 0 .. (MessageRange - 1)
  BY Bounds, StreamFacts, ReliabilityAssumption DEF Send, Total, Off, SentInv
<1>4. /\ Messages' = Messages \cup {l} /\ sent'[l] = e
      /\ Before(l, SequencedOf(kind.ch))' = SequencedOf(kind.ch)
      /\ Before(l, OrderedOf(kind.ch))' = OrderedOf(kind.ch)
  BY <1>2, OneMoreSent
<1>5. Begin(l)' = Total
  BY <1>2, <1>4 DEF Begin, Total, Off
<1>6. /\ IndexFor(kind) \in 0 .. (OrderRange - 1)
      /\ Sequenced(kind) => Rank(IndexFor(kind)) = Cardinality(SequencedOf(kind.ch))
      /\ Ordered(kind) => Rank(IndexFor(kind)) = Cardinality(OrderedOf(kind.ch))
  <2>1. Ordered(kind) => ~Sequenced(kind)
    BY DEF Ordered, Sequenced
  <2>2. 0 \in 0 .. (OrderRange - 1)
    BY ReliabilityAssumption
  <2>3. QED
    BY <1>1, <2>1, <2>2 DEF IndexFor, SentInv
<1>7. P = [i \in 1 .. kind.parts |-> P[i]]
  BY DEF PacketsOf
<1>8. ASSUME NEW i \in 1 .. kind.parts, NEW p, p = P[i]
      PROVE  p \in Packet /\ Genuine(p)' /\ Off(p.num) = Total + i - 1
  <2>1. /\ p = [num |-> MessageSum(messageNumber, i - 1), kind |-> kind,
                idx |-> IndexFor(kind), part |-> i, msg |-> l]
    BY <1>8 DEF PacketsOf
  <2>2. i - 1 \in Nat /\ Off(messageNumber) + (i - 1) < MessageRange
    <3>1. Off(messageNumber) = Total
      BY DEF Total
    <3>2. Total + (i - 1) < MessageRange /\ i - 1 \in Nat
      BY <1>1, <1>3, ReliabilityAssumption
    <3>3. QED
      BY <3>1, <3>2
  <2>3. /\ MessageSum(messageNumber, i - 1) \in 0 .. (MessageRange - 1)
        /\ Off(MessageSum(messageNumber, i - 1)) = Total + (i - 1)
    BY <1>3, <2>2, OffOfSum DEF Total
  <2>4. p \in Packet
    BY <1>3, <1>6, <2>1, <2>3 DEF Packet
  <2>5. Off(p.num) = Total + i - 1
    BY <1>1, <1>3, <2>1, <2>3
  <2>6. Genuine(p)'
    <3>1. p.msg = l /\ p.kind = kind /\ p.part = i /\ p.idx = IndexFor(kind)
      BY <2>1
    <3>2. QED
      BY <1>2, <1>4, <1>5, <1>6, <2>4, <2>5, <3>1 DEF Genuine
  <2>7. QED
    BY <2>4, <2>5, <2>6
<1>9. P \in Seq(Packet) /\ Len(P) = kind.parts
  <2>1. P \in [1 .. kind.parts -> Packet]
    BY <1>7, <1>8
  <2>2. QED
    BY <1>1, <2>1
<1>10. QED
  BY <1>8, <1>9

LEMMA SendKeepsSent ==
    ASSUME IInv, NEW kind \in Traffic, Send(kind)
    PROVE  /\ SentInv' /\ Total' = Total + kind.parts
           /\ Len(sendPacketSet') = Len(sendPacketSet) + kind.parts /\ Gone' = Gone
<1> PICK l \in Nat : l = Len(sent) + 1
  BY StreamFacts DEF IInv
<1> PICK e : e = [kind |-> kind, num |-> messageNumber]
  OBVIOUS
<1> USE DEF IInv
<1>1. kind.parts \in Nat \ {0} /\ kind.ch \in Channels
  BY ReliabilityAssumption DEF Kind
<1>2. sent' = Append(sent, e) /\ e.kind = kind /\ e.num = messageNumber
  BY DEF Send
<1>3. /\ Total \in Nat /\ Len(sent) \in Nat /\ Total + kind.parts =< MaxPackets
      /\ MaxPackets \in Nat /\ MaxPackets < MessageRange
  BY Bounds, StreamFacts, ReliabilityAssumption DEF Send, Total, Off
<1>4. messageNumber' \in 0 .. (MessageRange - 1) /\ Total' = Total + kind.parts
  <2>1. Off(messageNumber) + kind.parts < MessageRange /\ kind.parts \in Nat
    <3>1. Off(messageNumber) = Total
      BY DEF Total
    <3>2. Total + kind.parts < MessageRange
      BY <1>1, <1>3, ReliabilityAssumption
    <3>3. QED
      BY <1>1, <3>1, <3>2
  <2>2. messageNumber' = MessageSum(messageNumber, kind.parts)
    BY DEF Send
  <2>3. Off(messageNumber)' = Off(messageNumber')
    BY DEF Off
  <2>4. QED
    BY <2>1, <2>2, <2>3, OffOfSum DEF SentInv, Total
<1>5. sent' \in Seq([kind : Traffic, num : 0 .. (MessageRange - 1)])
  <2>1. PICK S : S = [kind : Traffic, num : 0 .. (MessageRange - 1)]
    OBVIOUS
  <2>2. sent \in Seq(S)
    BY <2>1 DEF SentInv
  <2>3. e \in S
    BY <2>1 DEF SentInv
  <2>4. QED
    BY <1>2, <2>1, <2>2, <2>3
<1>5a. Len(sent) < MaxPackets
  BY <1>1, <1>3 DEF SentInv
<1>6a. \A ch : /\ SequencedOf(ch)' = IF Sequenced(e.kind) /\ e.kind.ch = ch
                    THEN SequencedOf(ch) \cup {l} ELSE SequencedOf(ch)
               /\ OrderedOf(ch)' = IF Ordered(e.kind) /\ e.kind.ch = ch
                    THEN OrderedOf(ch) \cup {l} ELSE OrderedOf(ch)
  BY <1>2, OneMoreSent
<1>6b. /\ Len(sent') = l /\ Messages' = Messages \cup {l}
       /\ sent'[l] = e
       /\ \A m \in Messages : m \in Nat /\ m < l /\ sent'[m] = sent[m] /\ Begin(m)' = Begin(m)
  BY <1>2, OneMoreSent
<1>6. /\ Len(sent') = l /\ Messages' = Messages \cup {l}
      /\ sent'[l] = e
      /\ \A m \in Messages : m \in Nat /\ m < l /\ sent'[m] = sent[m] /\ Begin(m)' = Begin(m)
      /\ \A ch :
                /\ SequencedOf(ch)' = IF Sequenced(kind) /\ kind.ch = ch
                     THEN SequencedOf(ch) \cup {l} ELSE SequencedOf(ch)
                /\ OrderedOf(ch)' = IF Ordered(kind) /\ kind.ch = ch
                     THEN OrderedOf(ch) \cup {l} ELSE OrderedOf(ch)
  BY <1>2, <1>6a, <1>6b
<1>7. Begin(l)' = Total
  BY <1>2, <1>6 DEF Begin, Total, Off
<1>8. Len(sent') =< Total'
  BY <1>1, <1>3, <1>4, <1>6 DEF SentInv
<1>9. ASSUME NEW m \in Messages'
      PROVE  (Begin(m) + sent[m].kind.parts =< Total)'
  <2>1. CASE m = l
    BY <1>1, <1>2, <1>3, <1>4, <1>6, <1>7, <2>1
  <2>2. CASE m \in Messages
    <3>1. Begin(m) + sent[m].kind.parts =< Total
      BY <2>2 DEF SentInv
    <3>2. QED
      BY SMTT(30), <1>1, <1>3, <1>4, <1>6, <2>2, <3>1, MessageFacts
  <2>3. QED
    BY <1>6, <2>1, <2>2
<1>10. ASSUME NEW m \in Messages', NEW k \in Messages', m < k
       PROVE  (Begin(m) + sent[m].kind.parts =< Begin(k))'
  <2>1. m \in Messages
    BY <1>6, <1>10
  <2>2. Begin(m) + sent[m].kind.parts =< Total
    BY <2>1 DEF SentInv
  <2>3. k \in Messages => Begin(m) + sent[m].kind.parts =< Begin(k)
    BY <1>10, <2>1 DEF SentInv
  <2>4. QED
    BY <1>6, <1>7, <2>1, <2>2, <2>3
<1>11. /\ sequencedWrite' \in [Channels -> 0 .. (OrderRange - 1)]
       /\ \A ch \in Channels : Rank(sequencedWrite[ch])' = Cardinality(SequencedOf(ch))'
  <2>1. /\ sequencedWrite \in [Channels -> 0 .. (OrderRange - 1)]
        /\ \A ch \in Channels : Rank(sequencedWrite[ch]) = Cardinality(SequencedOf(ch))
    BY DEF SentInv
  <2>2. sequencedWrite' = IF Sequenced(kind)
         THEN [sequencedWrite EXCEPT ![kind.ch] = OrderSum(@, 1)] ELSE sequencedWrite
    BY DEF Send
  <2>3. /\ OrderSum(sequencedWrite[kind.ch], 1) \in 0 .. (OrderRange - 1)
        /\ Rank(OrderSum(sequencedWrite[kind.ch], 1)) = Cardinality(SequencedOf(kind.ch) \cup {l})
    BY <1>1, <1>5a, <2>1, IndexCountsOn, StreamFacts
  <2>4. \A ch : Rank(sequencedWrite[ch])' = Rank(sequencedWrite'[ch])
    BY DEF Rank
  <2>5. QED
    BY <1>1, <1>6, <2>1, <2>2, <2>3, <2>4
<1>12. /\ orderedWrite' \in [Channels -> 0 .. (OrderRange - 1)]
       /\ \A ch \in Channels : Rank(orderedWrite[ch])' = Cardinality(OrderedOf(ch))'
  <2>1. /\ orderedWrite \in [Channels -> 0 .. (OrderRange - 1)]
        /\ \A ch \in Channels : Rank(orderedWrite[ch]) = Cardinality(OrderedOf(ch))
    BY DEF SentInv
  <2>2. orderedWrite' = IF Ordered(kind)
         THEN [orderedWrite EXCEPT ![kind.ch] = OrderSum(@, 1)] ELSE orderedWrite
    BY DEF Send
  <2>3. /\ OrderSum(orderedWrite[kind.ch], 1) \in 0 .. (OrderRange - 1)
        /\ Rank(OrderSum(orderedWrite[kind.ch], 1)) = Cardinality(OrderedOf(kind.ch) \cup {l})
    BY <1>1, <1>5a, <2>1, IndexCountsOn, StreamFacts
  <2>4. \A ch : Rank(orderedWrite[ch])' = Rank(orderedWrite'[ch])
    BY DEF Rank
  <2>5. QED
    BY <1>1, <1>6, <2>1, <2>2, <2>3, <2>4
<1>13. Len(sendPacketSet') = Len(sendPacketSet) + kind.parts /\ Gone' = Gone
  <2>1. sendPacketSet' = sendPacketSet \o PacketsOf(kind) /\ Len(PacketsOf(kind)) = kind.parts
    BY <1>1 DEF Send, PacketsOf
  <2>2. Len(sendPacketSet') = Len(sendPacketSet) + kind.parts
    <3>1. PICK P : P = PacketsOf(kind)
      OBVIOUS
    <3>2. P \in Seq(Packet) /\ Len(P) = kind.parts /\ sendPacketSet \in Seq(Packet)
      BY <3>1, NewPackets DEF PacketInv
    <3>3. QED
      BY <2>1, <3>1, <3>2, ConcatProperties
  <2>3. QED
    BY <1>1, <1>3, <1>4, <2>2 DEF Gone, PacketInv
<1>14. QED
  BY <1>3, <1>4, <1>5, <1>8, <1>9, <1>10, <1>11, <1>12, <1>13 DEF SentInv

LEMMA SendStep ==
    ASSUME IInv, NEW kind \in Traffic, Send(kind)
    PROVE  IInv'
<1> PICK l \in Nat : l = Len(sent) + 1
  BY StreamFacts DEF IInv
<1> PICK e : e = [kind |-> kind, num |-> messageNumber]
  OBVIOUS
<1> PICK P : P = PacketsOf(kind)
  OBVIOUS
<1> USE DEF IInv
<1>1. kind.parts \in Nat \ {0}
  BY ReliabilityAssumption DEF Kind
<1>2. sent' = Append(sent, e) /\ e.kind = kind /\ e.num = messageNumber
  BY DEF Send
<1>3. /\ Total \in Nat /\ Gone \in Nat /\ Base \in Nat /\ Len(queue) \in Nat
      /\ Base + Len(queue) =< Gone /\ Gone =< Total /\ Len(sendPacketSet) \in Nat
      /\ Gone = Total - Len(sendPacketSet)
  BY Bounds DEF PacketInv, Gone
<1>4. /\ SentInv' /\ Total' = Total + kind.parts /\ Gone' = Gone
      /\ Len(sendPacketSet') = Len(sendPacketSet) + kind.parts
  BY SendKeepsSent
<1>5. /\ P \in Seq(Packet) /\ Len(P) = kind.parts
      /\ \A i \in 1 .. kind.parts : Genuine(P[i])' /\ Off(P[i].num) = Total + i - 1
  BY NewPackets
<1>6. /\ net' = net /\ resendList' = resendList /\ deadConnection' = deadConnection
      /\ base' = base /\ queue' = queue /\ gaveUp' = gaveUp
      /\ sequencedRead' = sequencedRead /\ orderedRead' = orderedRead
      /\ splitList' = splitList /\ orderingList' = orderingList /\ output' = output
      /\ acknowlegements' = acknowlegements
  BY DEF Send, receiverVars, windowVars, orderVars
<1>7. \A p : Genuine(p) => Genuine(p)'
  BY <1>2, OneMoreSent
<1>8. /\ Messages' = Messages \cup {l} /\ sent'[l] = e
      /\ \A m \in Messages : m \in Nat /\ m < l /\ sent'[m] = sent[m]
                             /\ Span(m)' = Span(m) /\ NumbersOf(m)' = NumbersOf(m)
  BY <1>2, OneMoreSent
<1>9. Outputs' = Outputs /\ \A k : Counted(k)' <=> Counted(k)
  BY <1>6, SameWindow DEF Outputs
<1>10. PacketInv'
  <2>1. sendPacketSet' = sendPacketSet \o P /\ sendPacketSet \in Seq(Packet)
    BY DEF Send, PacketInv
  <2>2. /\ sendPacketSet' \in Seq(Packet)
        /\ \A i \in 1 .. Len(sendPacketSet) : sendPacketSet'[i] = sendPacketSet[i]
        /\ \A i \in 1 .. kind.parts : sendPacketSet'[Len(sendPacketSet) + i] = P[i]
    BY <1>3, <1>5, <2>1
  <2>3. Len(sendPacketSet') =< Total'
    BY SMTT(30), <1>1, <1>3, <1>4
  <2>4. ASSUME NEW i \in 1 .. Len(sendPacketSet')
        PROVE  Off(sendPacketSet'[i].num) = Gone + i - 1
    <3>1. CASE i =< Len(sendPacketSet)
      <4>1. i \in 1 .. Len(sendPacketSet) /\ sendPacketSet'[i] = sendPacketSet[i]
        BY <1>3, <2>2, <3>1
      <4>2. Off(sendPacketSet[i].num) = Gone + i - 1
        BY <4>1 DEF PacketInv
      <4>3. QED
        BY <4>1, <4>2
    <3>2. CASE i > Len(sendPacketSet)
      <4>1. PICK j \in 1 .. kind.parts : i = Len(sendPacketSet) + j
        <5>1. i - Len(sendPacketSet) \in 1 .. kind.parts
          BY SMTT(30), <1>1, <1>3, <1>4, <3>2
        <5>2. QED
          BY <1>3, <5>1
      <4>2. sendPacketSet'[i] = P[j]
        BY <2>2, <4>1
      <4>3. Off(P[j].num) = Total + j - 1
        BY <1>5
      <4>4. Total + j - 1 = Gone + i - 1
        BY <1>1, <1>3, <4>1
      <4>5. QED
        BY <4>2, <4>3, <4>4
    <3>3. QED
      BY <1>1, <1>3, <1>4, <3>1, <3>2
  <2>5. ASSUME NEW p \in net \cup resendList \cup splitList \cup orderingList
        PROVE  Genuine(p)' /\ Off(p.num) < Gone
    BY <1>7 DEF PacketInv
  <2>6. ASSUME NEW p \in Unsent'
        PROVE  Genuine(p)'
    <3>1. PICK i \in 1 .. Len(sendPacketSet') : p = sendPacketSet'[i]
      BY DEF Unsent
    <3>2. CASE i =< Len(sendPacketSet)
      <4>1. i \in 1 .. Len(sendPacketSet) /\ p = sendPacketSet[i]
        BY <1>3, <2>2, <3>1, <3>2
      <4>2. QED
        BY <1>7, <4>1 DEF PacketInv, Unsent
    <3>3. CASE i > Len(sendPacketSet)
      <4>1. i - Len(sendPacketSet) \in 1 .. kind.parts
        BY SMTT(30), <1>1, <1>3, <1>4, <3>3
      <4>2. p = P[i - Len(sendPacketSet)]
        BY <1>3, <2>2, <3>1, <4>1
      <4>3. QED
        BY <1>5, <4>1, <4>2
    <3>4. QED
      BY <1>1, <1>3, <1>4, <3>2, <3>3
  <2>7. \A i \in 1 .. Len(sendPacketSet') : Off(sendPacketSet[i].num)' = (Gone + i - 1)'
    BY <1>4, <2>4 DEF Off
  <2>8. \A p \in (net \cup resendList \cup splitList \cup orderingList)' :
            Genuine(p)' /\ Off(p.num)' < Gone'
    BY <1>4, <1>6, <2>5 DEF Off
  <2>9. QED
    BY <1>6, <2>2, <2>3, <2>6, <2>7, <2>8 DEF PacketInv
<1>11. WindowInv'
  <2>1. Base' = Base
    BY <1>6, SameWindow
  <2>2. QED
    BY <1>4, <1>6, <2>1 DEF WindowInv
<1>12. ResendInv'
  <2>1. Span(l)' = Total .. (Total + kind.parts - 1)
    BY <1>2, <1>8 DEF Span, Begin, Total, Off
  <2>2. ASSUME NEW m \in Messages', Reliable(sent'[m].kind), NEW k \in Span(m)', k < Gone
        PROVE  Counted(k) \/ \E p \in resendList : Off(p.num) = k
    <3>1. CASE m = l
      BY <1>1, <1>3, <2>1, <2>2, <3>1
    <3>2. CASE m \in Messages
      BY <1>8, <2>2, <3>2 DEF ResendInv
    <3>3. QED
      BY <1>8, <3>1, <3>2
  <2>3. ASSUME NEW n \in acknowlegements
        PROVE  Counted(Off(n))
    BY DEF ResendInv
  <2>4. acknowlegements \subseteq 0 .. (MessageRange - 1)
    BY DEF ResendInv
  <2>5. QED
    BY <1>4, <1>6, <1>9, <2>2, <2>3, <2>4 DEF ResendInv, Off
<1>13. DeliveryInv'
  <2>1. output' \in Seq(Messages')
    BY <1>6, <1>8, SeqMonotonic DEF DeliveryInv
  <2>2. \A m \in Outputs : m \in Messages
    <3>1. output \in Seq(Messages)
      BY DEF DeliveryInv
    <3>2. QED
      BY <3>1 DEF Outputs
  <2>3. \A p \in orderingList : p.msg \in Messages
    BY DEF PacketInv, Genuine
  <2>4. ASSUME NEW m \in Messages', Reliable(sent'[m].kind), NEW n \in NumbersOf(m)',
               Counted(Off(n))
        PROVE  m \in Outputs \/ Waiting(m, n) \/ Superseded(m)' \/ n \in gaveUp
    <3>1. CASE m = l
      <4>1. PICK i \in 0 .. (kind.parts - 1) : n = MessageSum(messageNumber, i)
        BY <1>2, <1>8, <3>1 DEF NumbersOf
      <4>2. Off(messageNumber) = Total /\ messageNumber \in 0 .. (MessageRange - 1)
        BY DEF SentInv, Total
      <4>3. i \in Nat /\ Total + i < MessageRange
        <5>1. Total + kind.parts < MessageRange
          <6>1. Total' =< MaxPackets
            BY <1>4 DEF SentInv
          <6>2. QED
            BY <1>1, <1>3, <1>4, <6>1, ReliabilityAssumption
        <5>2. QED
          BY <1>1, <1>3, <5>1, ReliabilityAssumption
      <4>4. Off(n) = Total + i
        BY <4>1, <4>2, <4>3, OffOfSum
      <4>5. QED
        BY <1>3, <2>4, <4>3, <4>4 DEF Counted
    <3>2. CASE m \in Messages
      <4>1. m \in Outputs \/ Waiting(m, n) \/ Superseded(m) \/ n \in gaveUp
        BY <1>8, <2>4, <3>2 DEF DeliveryInv
      <4>2. Superseded(m) => Superseded(m)'
        BY <1>8, <1>9, <2>2, <3>2 DEF Superseded
      <4>3. QED
        BY <4>1, <4>2
    <3>3. QED
      BY <1>8, <3>1, <3>2
  <2>5. \A m, n : Waiting(m, n)' <=> Waiting(m, n)
    BY <1>6 DEF Waiting
  <2>6. /\ \A p \in splitList : Counted(Off(p.num))
        /\ \A p, q \in splitList : p.num = q.num => p = q
        /\ \A m \in Outputs : \A k \in Span(m)' : Counted(k)
        /\ \A p \in orderingList : \A k \in Span(p.msg)' : Counted(k)
    BY <1>8, <2>2, <2>3 DEF DeliveryInv
  <2>7. IsFiniteSet(splitList) /\ IsFiniteSet(orderingList)
    BY DEF DeliveryInv
  <2>8. QED
    BY <1>6, <1>9, <2>1, <2>4, <2>5, <2>6, <2>7 DEF DeliveryInv, Off
<1>14. SequenceInv'
  <2>1. ASSUME NEW ch \in Channels, NEW k \in Outputs \cap SequencedOf(ch)
        PROVE  /\ k \in SequencedOf(ch)'
               /\ Before(k, SequencedOf(ch))' = Before(k, SequencedOf(ch))
    <3>1. k \in Messages
      BY DEF SequencedOf
    <3>2. QED
      BY <1>2, <3>1, OneMoreSent
  <2>2. \A ch : Rank(sequencedRead[ch])' = Rank(sequencedRead[ch])
    BY <1>6 DEF Rank
  <2>3. QED
    BY <1>6, <1>9, <2>1, <2>2 DEF SequenceInv
<1>15. QED
  BY <1>4, <1>10, <1>11, <1>12, <1>13, <1>14

-----------------------------------------------------------------------------
(* The steps that leave the receiver's messages and window alone. *)

LEMMA QuietStep ==
    ASSUME IInv, UNCHANGED <<messageNumber, orderedWrite, sequencedWrite, sent>>,
           UNCHANGED <<windowVars, orderVars>>, Gone =< Gone', Gone' \in Nat
    PROVE  SentInv' /\ WindowInv' /\ DeliveryInv' /\ SequenceInv'
<1> USE DEF IInv
<1>1. /\ sent' = sent /\ messageNumber' = messageNumber /\ orderedWrite' = orderedWrite
      /\ sequencedWrite' = sequencedWrite
  OBVIOUS
<1>2. /\ base' = base /\ queue' = queue /\ gaveUp' = gaveUp
      /\ sequencedRead' = sequencedRead /\ orderedRead' = orderedRead
      /\ splitList' = splitList /\ orderingList' = orderingList /\ output' = output
  BY DEF windowVars, orderVars
<1>3. /\ Messages' = Messages
      /\ \A m : Begin(m)' = Begin(m) /\ Span(m)' = Span(m) /\ NumbersOf(m)' = NumbersOf(m)
      /\ \A ch : SequencedOf(ch)' = SequencedOf(ch) /\ OrderedOf(ch)' = OrderedOf(ch)
  BY <1>1, NothingSent
<1>4. Outputs' = Outputs /\ Base' = Base /\ \A k : Counted(k)' <=> Counted(k)
  BY <1>2, SameWindow DEF Outputs
<1>5. \A i : Rank(i)' = Rank(i) /\ Off(i)' = Off(i)
  BY DEF Rank, Off
<1>6. SentInv'
  <2>1. Total' = Total
    BY <1>1 DEF Total, Off
  <2>2. QED
    BY <1>1, <1>3, <2>1 DEF SentInv, Rank
<1>7. WindowInv'
  <2>1. /\ base \in 0 .. (MessageRange - 1) /\ queue \in Seq({"got", "hole"})
        /\ queue # <<>> => queue[1] = "hole" /\ queue[Len(queue)] = "got"
        /\ Base + Len(queue) =< Gone /\ gaveUp \subseteq 0 .. (MessageRange - 1)
    BY DEF WindowInv
  <2>2. Base + Len(queue) =< Gone'
    BY <2>1, Bounds
  <2>3. QED
    BY <1>2, <1>4, <2>1, <2>2 DEF WindowInv
<1>8. DeliveryInv'
  <2>1. \A m : Superseded(m)' <=> Superseded(m)
    BY <1>1, <1>3, <1>4 DEF Superseded
  <2>2. \A m, n : Waiting(m, n)' <=> Waiting(m, n)
    BY <1>2 DEF Waiting
  <2>3. QED
    BY <1>1, <1>2, <1>3, <1>4, <2>1, <2>2 DEF DeliveryInv, Off
<1>9. SequenceInv'
  BY <1>2, <1>3, <1>4 DEF SequenceInv, Rank
<1>10. QED
  BY <1>6, <1>7, <1>8, <1>9

LEMMA TransmitStep ==
    ASSUME IInv, Transmit
    PROVE  IInv'
<1> PICK h : h = Head(sendPacketSet)
  OBVIOUS
<1> USE DEF IInv
<1>1. /\ UNCHANGED <<messageNumber, orderedWrite, sequencedWrite, sent>>
      /\ UNCHANGED <<windowVars, orderVars>>
      /\ acknowlegements' = acknowlegements /\ splitList' = splitList
      /\ orderingList' = orderingList /\ deadConnection' = deadConnection
      /\ base' = base /\ queue' = queue /\ sent' = sent /\ messageNumber' = messageNumber
  BY DEF Transmit, receiverVars, windowVars, orderVars
<1>2. /\ sendPacketSet # <<>> /\ sendPacketSet' = Tail(sendPacketSet)
      /\ net' = net \cup {h} /\ resendList' = resendList \cup ToResend(h)
  BY DEF Transmit
<1>3. /\ Len(sendPacketSet) \in Nat \ {0} /\ sendPacketSet \in Seq(Packet)
      /\ sendPacketSet' \in Seq(Packet) /\ Len(sendPacketSet') = Len(sendPacketSet) - 1
      /\ h = sendPacketSet[1]
      /\ \A i \in 1 .. Len(sendPacketSet') : sendPacketSet'[i] = sendPacketSet[i + 1]
  BY <1>2 DEF PacketInv
<1>4. Gone \in Nat /\ Total \in Nat /\ Gone = Total - Len(sendPacketSet)
  BY Bounds DEF Gone
<1>5. Total' = Total /\ Gone' = Gone + 1
  BY <1>1, <1>3, <1>4 DEF Gone, Total, Off
<1>6. Genuine(h) /\ Off(h.num) = Gone
  <2>1. 1 \in 1 .. Len(sendPacketSet)
    BY <1>3
  <2>2. Off(sendPacketSet[1].num) = Gone + 1 - 1 /\ Genuine(sendPacketSet[1])
    BY <2>1 DEF PacketInv, Unsent
  <2>3. QED
    BY <1>3, <1>4, <2>2
<1>7. \A p : Genuine(p)' <=> Genuine(p)
  BY <1>1, NothingSent
<1>8. PacketInv'
  <2>1. Unsent' \subseteq Unsent
    BY <1>3 DEF Unsent
  <2>2. \A p \in (Unsent \cup net \cup resendList \cup splitList \cup orderingList)' : Genuine(p)'
    BY <1>1, <1>2, <1>6, <1>7, <2>1 DEF PacketInv, ToResend
  <2>3. ASSUME NEW p \in (net \cup resendList \cup splitList \cup orderingList)'
        PROVE  Off(p.num) < Gone + 1
    <3>1. CASE p = h
      BY <1>4, <1>6, <3>1
    <3>2. CASE p \in net \cup resendList \cup splitList \cup orderingList
      <4>1. Off(p.num) < Gone /\ Off(p.num) \in Nat
        BY <3>2, PacketFacts DEF PacketInv
      <4>2. QED
        BY <1>4, <4>1
    <3>3. QED
      BY <1>1, <1>2, <3>1, <3>2 DEF ToResend
  <2>4. ASSUME NEW i \in 1 .. Len(sendPacketSet')
        PROVE  Off(sendPacketSet'[i].num) = Gone + 1 + i - 1
    <3>1. i + 1 \in 1 .. Len(sendPacketSet) /\ i \in Nat
      BY <1>3
    <3>2. Off(sendPacketSet[i + 1].num) = Gone + (i + 1) - 1
      BY <3>1 DEF PacketInv
    <3>3. sendPacketSet'[i] = sendPacketSet[i + 1]
      BY <1>3
    <3>4. Gone + (i + 1) - 1 = Gone + 1 + i - 1
      BY <1>4, <3>1
    <3>5. QED
      BY <3>2, <3>3, <3>4
  <2>5. Len(sendPacketSet') =< Total /\ deadConnection \in BOOLEAN
    BY <1>3, <1>4 DEF PacketInv
  <2>6. \A p \in (net \cup resendList \cup splitList \cup orderingList)' : Off(p.num)' < Gone'
    BY <1>5, <2>3 DEF Off
  <2>7. \A i \in 1 .. Len(sendPacketSet') : Off(sendPacketSet[i].num)' = (Gone + i - 1)'
    BY <1>5, <2>4 DEF Off
  <2>8. QED
    BY <1>1, <1>3, <1>5, <2>2, <2>5, <2>6, <2>7 DEF PacketInv
<1>9. ResendInv'
  <2>1. /\ Messages' = Messages /\ \A m : Span(m)' = Span(m)
        /\ \A k : Counted(k)' <=> Counted(k)
    BY <1>1, NothingSent, SameWindow
  <2>2. ASSUME NEW m \in Messages, Reliable(sent[m].kind), NEW k \in Span(m), k < Gone + 1
        PROVE  Counted(k) \/ \E p \in resendList' : Off(p.num) = k
    <3>1. CASE k < Gone
      BY <1>2, <2>2, <3>1 DEF ResendInv
    <3>2. CASE k = Gone
      <4>1. Off(h.num) \in Span(h.msg) /\ h.msg \in Messages /\ h.kind = sent[h.msg].kind
        BY <1>6, PacketFacts DEF Genuine
      <4>2. h.msg = m
        BY <1>6, <2>2, <3>2, <4>1, SpansAreDisjoint
      <4>3. h \in resendList'
        BY <1>2, <2>2, <4>1, <4>2 DEF ToResend
      <4>4. QED
        BY <1>6, <3>2, <4>3
    <3>3. QED
      BY <1>4, <2>2, <3>1, <3>2, SpanFacts
  <2>3. acknowlegements \subseteq 0 .. (MessageRange - 1)
        /\ \A n \in acknowlegements : Counted(Off(n))
    BY DEF ResendInv
  <2>4. QED
    BY <1>1, <1>5, <2>1, <2>2, <2>3 DEF ResendInv, Off
<1>10. QED
  BY <1>1, <1>4, <1>5, <1>8, <1>9, QuietStep

\* Packets and acknowledgements are lost, resent and received again.
LEMMA ShuffleStep ==
    ASSUME IInv, UNCHANGED <<messageNumber, orderedWrite, sequencedWrite, sent>>,
           UNCHANGED <<windowVars, orderVars>>, sendPacketSet' = sendPacketSet,
           net' \subseteq net \cup resendList, resendList' \subseteq resendList,
           \A p \in resendList : p \in resendList' \/ p.num \in acknowlegements,
           acknowlegements' \subseteq 0 .. (MessageRange - 1),
           \A n \in acknowlegements' : Counted(Off(n)),
           deadConnection' \in BOOLEAN
    PROVE  IInv'
<1> USE DEF IInv
<1>1. sent' = sent /\ messageNumber' = messageNumber /\ base' = base /\ queue' = queue
      /\ splitList' = splitList /\ orderingList' = orderingList
  BY DEF windowVars, orderVars
<1>2. Gone' = Gone /\ Total' = Total /\ Gone \in Nat /\ Unsent' = Unsent
  BY <1>1, Bounds DEF Gone, Total, Off, Unsent
<1>3. \A p : Genuine(p)' <=> Genuine(p)
  BY <1>1, NothingSent
<1>4. PacketInv'
  <2>1. \A p \in (Unsent \cup net \cup resendList \cup splitList \cup orderingList)' : Genuine(p)'
    BY <1>1, <1>2, <1>3 DEF PacketInv
  <2>2. \A p \in (net \cup resendList \cup splitList \cup orderingList)' : Off(p.num) < Gone
    BY <1>1 DEF PacketInv
  <2>3. QED
    BY <1>2, <2>1, <2>2 DEF PacketInv, Off
<1>5. ResendInv'
  <2>1. /\ Messages' = Messages /\ \A m : Span(m)' = Span(m)
        /\ \A k : Counted(k)' <=> Counted(k)
    BY <1>1, NothingSent, SameWindow
  <2>2. ASSUME NEW m \in Messages, Reliable(sent[m].kind), NEW k \in Span(m), k < Gone
        PROVE  Counted(k) \/ \E p \in resendList' : Off(p.num) = k
    <3>1. Counted(k) \/ \E p \in resendList : Off(p.num) = k
      BY <2>2 DEF ResendInv
    <3>2. \A p \in resendList : p \in resendList' \/ Counted(Off(p.num))
      BY DEF ResendInv
    <3>3. QED
      BY <3>1, <3>2
  <2>3. QED
    BY <1>1, <1>2, <2>1, <2>2 DEF ResendInv, Off
<1>6. QED
  BY <1>2, <1>4, <1>5, QuietStep

LEMMA QuietActions ==
    ASSUME IInv,
           \/ \E p \in resendList : Resend(p)
           \/ GiveUpConnection
           \/ \E p \in net : Lose(p) \/ ReceiveDuplicate(p)
           \/ \E arriving \in SUBSET acknowlegements : Acknowledge(arriving)
           \/ UNCHANGED vars
    PROVE  IInv'
<1> USE DEF IInv
<1>1. /\ acknowlegements \subseteq 0 .. (MessageRange - 1)
      /\ \A n \in acknowlegements : Counted(Off(n))
      /\ deadConnection \in BOOLEAN
  BY DEF ResendInv, PacketInv
<1>2. ASSUME NEW p \in resendList, Resend(p)
      PROVE  IInv'
  BY <1>1, <1>2, ShuffleStep DEF Resend, senderVars, receiverVars
<1>3. ASSUME GiveUpConnection
      PROVE  IInv'
  BY <1>1, <1>3, ShuffleStep DEF GiveUpConnection, receiverVars
<1>4. ASSUME NEW p \in net, Lose(p)
      PROVE  IInv'
  BY <1>1, <1>4, ShuffleStep DEF Lose, senderVars, receiverVars
<1>5. ASSUME NEW p \in net, ReceiveDuplicate(p)
      PROVE  IInv'
  <2>1. Genuine(p)
    BY DEF PacketInv
  <2>2. p.num \in 0 .. (MessageRange - 1) /\ Off(p.num) =< Total
    BY <2>1, PacketFacts, Bounds
  <2>3. Counted(Off(p.num))
    BY <1>5, <2>2, WindowCounts DEF ReceiveDuplicate
  <2>4. /\ acknowlegements' \subseteq 0 .. (MessageRange - 1)
        /\ \A n \in acknowlegements' : Counted(Off(n))
    BY <1>1, <1>5, <2>2, <2>3 DEF ReceiveDuplicate, Acknowledged
  <2>5. QED
    BY <1>1, <1>5, <2>4, ShuffleStep DEF ReceiveDuplicate, Take, senderVars
<1>6. ASSUME NEW arriving \in SUBSET acknowlegements, Acknowledge(arriving)
      PROVE  IInv'
  BY <1>1, <1>6, ShuffleStep DEF Acknowledge, StillUnacknowledged
<1>7. ASSUME UNCHANGED vars
      PROVE  IInv'
  BY <1>1, <1>7, ShuffleStep DEF vars, senderVars, receiverVars
<1>8. QED
  BY <1>2, <1>3, <1>4, <1>5, <1>6, <1>7

-----------------------------------------------------------------------------
(* The receiver's window. *)

\* Marking a number and dropping the front of the queue counts that number, keeps
\* what was counted, and counts nothing else but what is given up.
LEMMA CountStep ==
    ASSUME SentInv, PacketInv, WindowInv, SentInv', Total' = Total, Gone' = Gone,
           NEW n \in 0 .. (MessageRange - 1), Off(n) < Gone, ~Counted(Off(n)), Count(n)
    PROVE  /\ WindowInv' /\ gaveUp \subseteq gaveUp'
           /\ \A k \in Nat : Counted(k) => Counted(k)'
           /\ Counted(Off(n))'
           /\ \A j \in 0 .. (MessageRange - 1) :
                Counted(Off(j))' => Counted(Off(j)) \/ j = n \/ j \in gaveUp'
<1> PICK h : h = HoleCount(n)
  OBVIOUS
<1> PICK q : q = Marked(h)
  OBVIOUS
<1>1. /\ Total \in Nat /\ Gone \in Nat /\ Base \in Nat /\ Len(queue) \in Nat
      /\ Base + Len(queue) =< Gone /\ Gone =< Total /\ Total =< MaxPackets
      /\ MaxPackets < MessageRange /\ MaxPackets \in Nat /\ MessageRange \in Nat
  BY Bounds, ReliabilityAssumption
<1>2. Off(n) \in Nat /\ Base =< Off(n) /\ h = Off(n) - Base /\ h \in Nat
  <2>1. Off(n) \in Nat
    BY OffRange, ReliabilityAssumption
  <2>2. Base =< Off(n)
    BY <1>1, <2>1 DEF Counted
  <2>3. Off(n) =< MaxPackets /\ Base =< MaxPackets
    BY <1>1, <2>1, <2>2
  <2>4. base \in 0 .. (MessageRange - 1)
    BY DEF WindowInv
  <2>5. h = Off(n) - Base
    BY <2>2, <2>3, <2>4, HoleOfNumber
  <2>6. QED
    BY <1>1, <2>1, <2>2, <2>5
<1>3. PICK L \in Nat : L = IF h < Len(queue) THEN Len(queue) ELSE h + 1
  BY <1>1, <1>2
<1>4. /\ q \in Seq({"got", "hole"}) /\ Len(q) = L
      /\ \A i \in 1 .. L : q[i] = IF i = h + 1 THEN "got"
                                  ELSE IF i =< Len(queue) THEN queue[i] ELSE "hole"
  <2>1. q = [i \in 1 .. L |-> IF i = h + 1 THEN "got"
                              ELSE IF i =< Len(queue) THEN queue[i] ELSE "hole"]
    BY <1>3 DEF Marked
  <2>2. \A i \in 1 .. L : i =< Len(queue) => queue[i] \in {"got", "hole"}
    BY <1>1 DEF WindowInv
  <2>3. q \in [1 .. L -> {"got", "hole"}]
    BY <2>1, <2>2
  <2>4. QED
    BY <2>1, <2>3
<1>5. PICK d \in Dropped(q) :
          /\ base' = MessageSum(base, d)
          /\ queue' = SubSeq(q, d + 1, Len(q))
          /\ gaveUp' = gaveUp \cup {MessageSum(base, i - 1) : i \in {j \in 1 .. d : q[j] = "hole"}}
  BY DEF Count
<1>6. d \in 0 .. L /\ (d < L => q[d + 1] = "hole")
  BY <1>4, <1>5 DEF Dropped
<1>7. L >= 1 /\ h + 1 \in 1 .. L /\ Base + L =< Gone /\ q[L] = "got" /\ Len(queue) =< L
  <2>1. h + 1 \in 1 .. L /\ L >= 1 /\ Len(queue) =< L
    BY <1>1, <1>2, <1>3
  <2>2. Base + L =< Gone
    BY SMTT(30), <1>1, <1>2, <1>3
  <2>3. q[L] = "got"
    <3>1. CASE h < Len(queue)
      <4>1. queue # <<>> /\ L = Len(queue)
        BY <1>2, <1>3, <3>1 DEF WindowInv
      <4>2. queue[L] = "got"
        BY <4>1 DEF WindowInv
      <4>3. QED
        BY <1>4, <2>1, <4>1, <4>2
    <3>2. CASE ~(h < Len(queue))
      BY <1>3, <1>4, <2>1, <3>2
    <3>3. QED
      BY <3>1, <3>2
  <2>4. QED
    BY <2>1, <2>2, <2>3
<1>8. \A i \in 0 .. L : Base + i < MessageRange \/ i = L
  BY <1>1, <1>7
<1>9. base' \in 0 .. (MessageRange - 1) /\ Base' = Base + d
  <2>1. d \in Nat /\ Base + d < MessageRange
    BY <1>1, <1>6, <1>7
  <2>2. Base' = Off(base')
    BY DEF Base, Off
  <2>3. base \in 0 .. (MessageRange - 1) /\ Off(base) = Base
    BY DEF WindowInv, Base
  <2>4. QED
    BY <1>5, <2>1, <2>2, <2>3, OffOfSum
<1>10. /\ queue' \in Seq({"got", "hole"}) /\ Len(queue') = L - d
       /\ \A i \in 1 .. (L - d) : queue'[i] = q[d + i]
  BY <1>4, <1>5, <1>6
<1>11. queue' # <<>> => queue'[1] = "hole" /\ queue'[Len(queue')] = "got"
  <2>1. SUFFICES ASSUME queue' # <<>>
                 PROVE  queue'[1] = "hole" /\ queue'[L - d] = "got"
    BY <1>10
  <2>2. d < L
    BY <1>6, <1>10, <2>1
  <2>3. 1 \in 1 .. (L - d) /\ L - d \in 1 .. (L - d) /\ d + (L - d) = L
    BY <1>6, <2>2
  <2>4. QED
    BY <1>6, <1>7, <1>10, <2>2, <2>3
<1>12. \A i \in {j \in 1 .. d : q[j] = "hole"} :
           /\ MessageSum(base, i - 1) \in 0 .. (MessageRange - 1)
           /\ Off(MessageSum(base, i - 1)) = Base + (i - 1)
  <2>1. ASSUME NEW i \in 1 .. d
        PROVE  /\ MessageSum(base, i - 1) \in 0 .. (MessageRange - 1)
               /\ Off(MessageSum(base, i - 1)) = Base + (i - 1)
    <3>1. i - 1 \in Nat /\ Base + (i - 1) < MessageRange
      BY <1>1, <1>6, <1>7
    <3>2. base \in 0 .. (MessageRange - 1) /\ Off(base) = Base
      BY DEF WindowInv, Base
    <3>3. QED
      BY <3>1, <3>2, OffOfSum
  <2>2. QED
    BY <2>1
<1>13. gaveUp \subseteq gaveUp' /\ gaveUp' \subseteq 0 .. (MessageRange - 1)
  BY <1>5, <1>12 DEF WindowInv
<1>14. WindowInv'
  <2>1. Base' + Len(queue') =< Gone'
    BY <1>1, <1>6, <1>7, <1>9, <1>10
  <2>2. QED
    BY <1>9, <1>10, <1>11, <1>13, <2>1 DEF WindowInv
\* an entry of the marked queue, and what it means after the step
<1>15. ASSUME NEW k \in Nat, Base =< k, k < Base + L
       PROVE  Counted(k)' <=> q[k - Base + 1] = "got" \/ k < Base + d
  <2>1. k - Base + 1 \in 1 .. L
    BY <1>1, <1>15
  <2>2. CASE k < Base + d
    BY <1>9, <2>2 DEF Counted
  <2>3. CASE Base + d =< k
    <3>1. k - (Base + d) + 1 \in 1 .. (L - d) /\ d + (k - (Base + d) + 1) = k - Base + 1
      BY <1>1, <1>6, <1>15, <2>3
    <3>2. queue'[k - (Base + d) + 1] = q[k - Base + 1]
      BY <1>10, <3>1
    <3>3. ~(k < Base + d) /\ k - (Base + d) + 1 =< L - d
      BY <1>1, <1>6, <2>3, <3>1
    <3>4. QED
      BY <1>9, <1>10, <3>2, <3>3 DEF Counted
  <2>4. QED
    BY <1>1, <1>6, <1>15, <2>2, <2>3
<1>16. ASSUME NEW k \in Nat, Base + L =< k
       PROVE  ~Counted(k)' /\ ~Counted(k)
  BY <1>1, <1>6, <1>7, <1>9, <1>10, <1>16 DEF Counted
<1>17. ASSUME NEW k \in Nat, k < Base
       PROVE  Counted(k)'
  BY <1>1, <1>6, <1>9, <1>17 DEF Counted
<1>18. ASSUME NEW k \in Nat, Counted(k)
       PROVE  Counted(k)'
  <2>1. CASE k < Base
    BY <1>17, <2>1
  <2>2. CASE Base =< k
    <3>1. k - Base + 1 =< Len(queue) /\ queue[k - Base + 1] = "got" /\ k - Base + 1 >= 1
      BY <1>1, <1>18, <2>2 DEF Counted
    <3>2. k - Base + 1 \in 1 .. L /\ k < Base + L
      BY <1>1, <1>7, <3>1
    <3>3. q[k - Base + 1] = "got"
      BY <1>4, <3>1, <3>2
    <3>4. QED
      BY <1>15, <2>2, <3>2, <3>3
  <2>3. QED
    BY <1>1, <2>1, <2>2
<1>19. Counted(Off(n))'
  <2>1. PICK k \in Nat : k = Off(n)
    BY <1>2
  <2>2. Base =< k /\ k < Base + L /\ k - Base + 1 = h + 1
    BY <1>1, <1>2, <1>7, <2>1
  <2>3. Counted(k)'
    BY <1>4, <1>7, <1>15, <2>2
  <2>4. QED
    BY <2>1, <2>3 DEF Off
<1>20. ASSUME NEW j \in 0 .. (MessageRange - 1), Counted(Off(j))', ~Counted(Off(j)), j # n
       PROVE  j \in gaveUp'
  <2>1. PICK k \in Nat : k = Off(j)
    BY OffRange, ReliabilityAssumption
  <2>2. Counted(k)' /\ ~Counted(k)
    BY <1>20, <2>1 DEF Off
  <2>3. k # Off(n)
    BY <1>20, <2>1, OffTellsApart
  <2>4. Base =< k /\ k < Base + L
    BY <1>1, <1>16, <2>2 DEF Counted
  <2>5. k - Base + 1 \in 1 .. L /\ k - Base + 1 # h + 1
    BY <1>1, <1>2, <2>3, <2>4
  <2>6. q[k - Base + 1] # "got"
    BY <1>1, <1>4, <2>2, <2>4, <2>5 DEF Counted
  <2>7. k < Base + d /\ q[k - Base + 1] = "hole"
    BY <1>4, <1>15, <2>2, <2>4, <2>5, <2>6
  <2>8. k - Base + 1 \in {i \in 1 .. d : q[i] = "hole"}
    BY <1>1, <1>6, <2>4, <2>7
  <2>9. PICK i \in {i \in 1 .. d : q[i] = "hole"} : i = k - Base + 1
    BY <2>8
  <2>10. /\ MessageSum(base, i - 1) \in 0 .. (MessageRange - 1)
         /\ Off(MessageSum(base, i - 1)) = Base + (i - 1)
    BY <1>12
  <2>11. Base + (i - 1) = k
    BY <1>1, <2>1, <2>9
  <2>12. MessageSum(base, i - 1) = j
    BY <2>1, <2>10, <2>11, OffTellsApart
  <2>13. QED
    BY <1>5, <2>12
<1>21. QED
  BY <1>13, <1>14, <1>18, <1>19, <1>20

-----------------------------------------------------------------------------
(* A packet that was not received before. *)

\* When the fragments of a message are as many as it has parts, they are all there.
LEMMA CompleteIsComplete ==
    ASSUME IInv, NEW p, Genuine(p), ~Counted(Off(p.num)),
           NEW splits \in SUBSET splitList, Complete(p, splits)
    PROVE  \A k \in Span(p.msg) : Counted(k) \/ k = Off(p.num)
<1> DEFINE F == FragmentsOf(p, splits)
           G == F \cup {p}
           part == [f \in G |-> f.part]
<1> USE DEF IInv
<1>1. /\ F \subseteq splitList /\ \A f \in F : f.msg = p.msg /\ Genuine(f) /\ Counted(Off(f.num))
      /\ IsFiniteSet(F)
  <2>1. F \subseteq splitList
    BY DEF FragmentsOf
  <2>2. QED
    BY <2>1, FS_Subset DEF FragmentsOf, PacketInv, DeliveryInv
<1>2. p \notin F
  BY <1>1
<1> HIDE DEF F
<1>3. \A f \in G : /\ f.msg = p.msg /\ f.kind = p.kind /\ f.part \in 1 .. p.kind.parts
                   /\ Off(f.num) = Begin(p.msg) + f.part - 1 /\ Genuine(f)
  BY <1>1 DEF Genuine
<1>4. p.kind.parts \in Nat \ {0} /\ Begin(p.msg) \in Nat
  BY PacketFacts, MessageFacts DEF Genuine
<1>5. ASSUME NEW f \in G, NEW g \in G, f.part = g.part
      PROVE  f = g
  <2>1. Off(f.num) = Off(g.num)
    BY <1>3, <1>5
  <2>2. f.num = g.num
    BY <1>3, <2>1, PacketFacts, OffTellsApart
  <2>3. CASE f \in F /\ g \in F
    BY <1>1, <2>2, <2>3 DEF DeliveryInv
  <2>4. CASE f = p \/ g = p
    BY <1>1, <2>1, <2>4
  <2>5. QED
    BY <2>3, <2>4
<1>6. part \in Injection(G, 1 .. p.kind.parts)
  BY <1>3, <1>5 DEF Injection, IsInjective
<1>7. Cardinality(G) = p.kind.parts
  <2>1. Cardinality(F) + 1 = p.kind.parts
    BY DEF Complete, F
  <2>2. QED
    BY <1>1, <1>2, <2>1, FS_AddElement
<1>8. IsFiniteSet(1 .. p.kind.parts) /\ Cardinality(1 .. p.kind.parts) = p.kind.parts
  <2>1. PICK parts \in Nat \ {0} : parts = p.kind.parts
    BY <1>4
  <2>2. IsFiniteSet(1 .. parts) /\ Cardinality(1 .. parts) = parts
    BY FS_Interval
  <2>3. QED
    BY <2>1, <2>2
<1>9. part \in Surjection(G, 1 .. p.kind.parts)
  BY <1>6, <1>7, <1>8, FS_Injection
<1>10. ASSUME NEW k \in Span(p.msg)
       PROVE  Counted(k) \/ k = Off(p.num)
  <2>1. p.kind = sent[p.msg].kind /\ p.msg \in Messages
    BY DEF Genuine
  <2>2. k \in Nat /\ k - Begin(p.msg) + 1 \in 1 .. p.kind.parts
    BY <1>4, <2>1, SpanFacts DEF Span
  <2>3. PICK f \in G : f.part = k - Begin(p.msg) + 1
    BY <1>9, <2>2 DEF Surjection
  <2>4. Off(f.num) = k
    <3>1. Off(f.num) = Begin(p.msg) + (k - Begin(p.msg) + 1) - 1
      BY <1>3, <2>3
    <3>2. QED
      BY <1>4, <2>2, <3>1
  <2>5. QED
    BY <1>1, <2>4
<1>11. QED
  BY <1>10

\* The messages that wait without a gap after an index are in the list.
LEMMA RunFacts ==
    ASSUME IsFiniteSet(orderingList), NEW ch, NEW idx, NEW n, n = RunAfter(ch, idx)
    PROVE  /\ n \in Nat /\ n =< Cardinality(orderingList)
           /\ \A j \in 1 .. n : \E b \in orderingList :
                b = Buffered(ch, OrderSum(idx, j)) /\ b.kind.ch = ch /\ b.idx = OrderSum(idx, j)
<1> DEFINE S == {k \in 0 .. Cardinality(orderingList) :
            \A j \in 1 .. k : \E b \in orderingList : b.kind.ch = ch /\ b.idx = OrderSum(idx, j)}
<1>1. Cardinality(orderingList) \in Nat
  BY FS_CardinalityType
<1>2. S \subseteq 0 .. Cardinality(orderingList) /\ 0 \in S
  BY <1>1
<1>3. IsFiniteSet(S)
  <2>1. IsFiniteSet(0 .. Cardinality(orderingList))
    BY <1>1, FS_Interval
  <2>2. QED
    BY <1>2, <2>1, FS_Subset
<1>4. PICK m \in S : \A k \in S : k =< m
  <2>1. S \in SUBSET Int /\ S # {}
    BY <1>1, <1>2
  <2>2. QED
    BY <1>3, <2>1, FiniteMaximum
<1>5. n = CHOOSE m_1 \in S : \A k \in S : m_1 >= k
  BY DEF RunAfter, Max
<1> HIDE DEF S
<1>6. \E m_1 \in S : \A k \in S : m_1 >= k
  BY <1>1, <1>2, <1>4
<1>7. n \in S
  BY <1>5, <1>6
<1>8. n \in Nat /\ n =< Cardinality(orderingList)
      /\ \A j \in 1 .. n : \E b \in orderingList : b.kind.ch = ch /\ b.idx = OrderSum(idx, j)
  BY <1>1, <1>7 DEF S
<1>9. ASSUME NEW j \in 1 .. n
      PROVE  \E b \in orderingList :
                b = Buffered(ch, OrderSum(idx, j)) /\ b.kind.ch = ch /\ b.idx = OrderSum(idx, j)
  <2>1. PICK i : i = OrderSum(idx, j)
    OBVIOUS
  <2>2. \E b \in orderingList : b.kind.ch = ch /\ b.idx = i
    BY <1>8, <2>1
  <2>3. PICK b : b = CHOOSE b_1 \in orderingList : b_1.kind.ch = ch /\ b_1.idx = i
    OBVIOUS
  <2>4. b \in orderingList /\ b.kind.ch = ch /\ b.idx = i
    BY <2>2, <2>3
  <2>5. b = Buffered(ch, i)
    BY <2>3 DEF Buffered
  <2>6. QED
    BY <2>1, <2>4, <2>5
<1>10. QED
  BY <1>8, <1>9

\* What is handed over with a message that was waited for.
Handed(out, x, R) == Append(out, x) \o R

\* Its entries are those of the parts, in their order.
InParts(new, out, x, R) ==
    /\ Len(new) = Len(out) + 1 + Len(R)
    /\ \A i \in 1 .. Len(out) : new[i] = out[i]
    /\ new[Len(out) + 1] = x
    /\ \A j \in 1 .. Len(R) : new[Len(out) + 1 + j] = R[j]

LEMMA HandedOver ==
    ASSUME NEW S, NEW out \in Seq(S), NEW x \in S, NEW R \in Seq(S)
    PROVE  /\ Handed(out, x, R) \in Seq(S)
           /\ InParts(Handed(out, x, R), out, x, R)
           /\ Range(Handed(out, x, R)) = Range(out) \cup {x} \cup Range(R)
<1>0a. PICK new : new = Handed(out, x, R)
  OBVIOUS
<1>0. Append(out, x) \in Seq(S)
  OBVIOUS
<1>1. PICK a \in Seq(S) : a = Append(out, x)
  BY <1>0
<1>2. /\ Len(a) = Len(out) + 1 /\ a[Len(out) + 1] = x /\ Len(out) \in Nat /\ Len(R) \in Nat
      /\ \A i \in 1 .. Len(out) : a[i] = out[i]
  BY <1>1
<1>3. /\ new \in Seq(S) /\ Len(new) = Len(a) + Len(R)
      /\ \A i \in 1 .. Len(a) + Len(R) : new[i] = IF i <= Len(a) THEN a[i] ELSE R[i - Len(a)]
  <2>1. new = a \o R
    BY <1>0a, <1>1 DEF Handed
  <2>2. QED
    BY <1>1, <2>1, ConcatProperties
<1>4. \A i \in 1 .. Len(out) : new[i] = out[i]
  BY <1>2, <1>3
<1>5. new[Len(out) + 1] = x
  BY <1>2, <1>3
<1>6. \A j \in 1 .. Len(R) : new[Len(out) + 1 + j] = R[j]
  <2>1. ASSUME NEW j \in 1 .. Len(R)
        PROVE  new[Len(out) + 1 + j] = R[j]
    <3>1. PICK i \in Nat : i = Len(out) + 1 + j
      BY <1>2
    <3>2. i \in 1 .. Len(a) + Len(R) /\ ~(i <= Len(a)) /\ i - Len(a) = j
      BY <1>2, <3>1
    <3>3. QED
      BY <1>3, <3>1, <3>2
  <2>2. QED
    BY <2>1
<1>7. Len(new) = Len(out) + 1 + Len(R)
  BY <1>2, <1>3
<1>7a. /\ Range(out) = {out[i] : i \in 1 .. Len(out)} /\ Range(R) = {R[i] : i \in 1 .. Len(R)}
       /\ Range(new) = {new[i] : i \in 1 .. Len(new)}
  <2>1. /\ out \in [1 .. Len(out) -> S] /\ R \in [1 .. Len(R) -> S]
        /\ new \in [1 .. Len(new) -> S]
    BY <1>3
  <2>2. QED
    BY <2>1 DEF Range
<1>8. ASSUME NEW i \in 1 .. Len(new)
      PROVE  new[i] \in Range(out) \cup {x} \cup Range(R)
  <2>1. CASE i =< Len(out)
    BY <1>2, <1>4, <1>7a, <2>1
  <2>2. CASE i = Len(out) + 1
    BY <1>5, <2>2
  <2>3. CASE i > Len(out) + 1
    <3>1. PICK j \in 1 .. Len(R) : i = Len(out) + 1 + j
      <4>1. PICK l, r \in Nat : l = Len(out) /\ r = Len(R)
        BY <1>2
      <4>2. i - (l + 1) \in 1 .. r /\ i = l + 1 + (i - (l + 1))
        BY <1>7, <2>3, <4>1
      <4>3. QED
        BY <4>1, <4>2
    <3>2. QED
      BY <1>6, <1>7a, <3>1
  <2>4. QED
    BY <1>2, <2>1, <2>2, <2>3
<1>9. /\ \A k \in 1 .. Len(out) : k \in 1 .. Len(new)
      /\ Len(out) + 1 \in 1 .. Len(new)
      /\ \A j \in 1 .. Len(R) : Len(out) + 1 + j \in 1 .. Len(new)
  BY <1>2, <1>7
<1>10. Range(new) = Range(out) \cup {x} \cup Range(R)
  <2>1. Range(out) \subseteq Range(new)
    BY <1>4, <1>7a, <1>9
  <2>2. x \in Range(new) /\ Range(R) \subseteq Range(new)
    BY <1>5, <1>6, <1>7a, <1>9
  <2>3. Range(new) \subseteq Range(out) \cup {x} \cup Range(R)
    BY <1>7a, <1>8
  <2>4. QED
    BY <2>1, <2>2, <2>3
<1>11. QED
  <2>1. InParts(new, out, x, R)
    BY <1>4, <1>5, <1>6, <1>7 DEF InParts
  <2>2. QED
    BY <1>0a, <1>3, <1>10, <2>1

\* The packet whose turn it is goes with the n of the run that waited for it.
Turn(p, n, run) ==
    /\ n \in Nat /\ n =< Cardinality(orderingList)
    /\ \A j \in 1 .. n : /\ run[j] \in orderingList /\ run[j].kind.ch = p.kind.ch
                          /\ run[j].idx = OrderSum(p.idx, j)
    /\ output' \in Seq(Messages) /\ Len(output') = Len(output) + 1 + n
    /\ \A i \in 1 .. Len(output) : output'[i] = output[i]
    /\ output'[Len(output) + 1] = p.msg
    /\ \A j \in 1 .. n : output'[Len(output) + 1 + j] = run[j].msg
    /\ Outputs' = Outputs \cup {p.msg} \cup {run[j].msg : j \in 1 .. n}
    /\ orderingList' = orderingList \ {run[j] : j \in 1 .. n}
    /\ orderedRead' = [orderedRead EXCEPT ![p.kind.ch] = OrderSum(@, n + 1)]

LEMMA TurnFacts ==
    ASSUME IInv, NEW p, Genuine(p), PushOrdered(p), p.idx = orderedRead[p.kind.ch]
    PROVE  \E n, run : Turn(p, n, run)
<1>0. PICK ch, n, run : /\ ch = p.kind.ch /\ n = RunAfter(ch, p.idx)
                        /\ run = [j \in 1 .. n |-> Buffered(ch, OrderSum(p.idx, j))]
  OBVIOUS
<1>1. /\ n \in Nat /\ n =< Cardinality(orderingList)
      /\ \A j \in 1 .. n : /\ run[j] \in orderingList /\ run[j].kind.ch = ch
                            /\ run[j].idx = OrderSum(p.idx, j)
  BY <1>0, RunFacts DEF IInv, DeliveryInv
<1>2. output \in Seq(Messages) /\ p.msg \in Messages
  BY DEF IInv, DeliveryInv, Genuine
<1>3. PICK R : R = [j \in 1 .. n |-> run[j].msg]
  OBVIOUS
<1>4. /\ output' = Append(output, p.msg) \o R
      /\ orderedRead' = [orderedRead EXCEPT ![ch] = OrderSum(@, n + 1)]
      /\ orderingList' = orderingList \ {run[j] : j \in 1 .. n}
  BY <1>0, <1>3 DEF PushOrdered
<1>5. \A j \in 1 .. n : R[j] \in Messages /\ R[j] = run[j].msg
  BY <1>1, <1>3 DEF IInv, PacketInv, Genuine
<1>6. R \in Seq(Messages) /\ Len(R) = n
  <2>1. R \in [1 .. n -> Messages]
    BY <1>3, <1>5
  <2>2. QED
    BY <1>1, <2>1
<1>7. PICK new : new = Handed(output, p.msg, R)
  OBVIOUS
<1>8. /\ new \in Seq(Messages) /\ InParts(new, output, p.msg, R)
      /\ Range(new) = Range(output) \cup {p.msg} \cup Range(R)
  <2>1. PICK S, out, x : S = Messages /\ out = output /\ x = p.msg
    OBVIOUS
  <2>2. out \in Seq(S) /\ R \in Seq(S) /\ x \in S /\ new = Handed(out, x, R)
    BY <1>2, <1>6, <1>7, <2>1
  <2>3. /\ new \in Seq(S) /\ InParts(new, out, x, R)
        /\ Range(new) = Range(out) \cup {x} \cup Range(R)
    BY <2>2, HandedOver
  <2>4. QED
    BY <2>1, <2>3
<1>9. output' = new
  BY <1>4, <1>7 DEF Handed
<1>10. Outputs' = Outputs \cup {p.msg} \cup {run[j].msg : j \in 1 .. n}
  <2>1. Outputs = Range(output) /\ Outputs' = Range(new)
    BY <1>2, <1>8, <1>9 DEF Outputs, Range
  <2>2. Range(R) = {R[j] : j \in 1 .. n}
    BY <1>6 DEF Range
  <2>3. {R[j] : j \in 1 .. n} = {run[j].msg : j \in 1 .. n}
    BY <1>5
  <2>4. QED
    BY <1>8, <2>1, <2>2, <2>3
<1>11. /\ Len(output') = Len(output) + 1 + n
       /\ \A i \in 1 .. Len(output) : output'[i] = output[i]
       /\ output'[Len(output) + 1] = p.msg
       /\ \A j \in 1 .. n : output'[Len(output) + 1 + j] = run[j].msg
  BY <1>5, <1>6, <1>8, <1>9 DEF InParts
<1>12. Turn(p, n, run)
  BY <1>0, <1>1, <1>4, <1>8, <1>9, <1>10, <1>11 DEF Turn
<1>13. QED
  BY <1>12

\* Handing over an ordered message takes from the list what it hands over.
LEMMA OrderedFacts ==
    ASSUME IInv, NEW p, Genuine(p), PushOrdered(p)
    PROVE  /\ output' \in Seq(Messages) /\ Outputs \subseteq Outputs'
           /\ \A m \in Outputs' : m \in Outputs \/ m = p.msg
                                  \/ \E b \in orderingList : b.msg = m
           /\ orderingList' \subseteq orderingList \cup {p}
           /\ \A b \in orderingList : b \in orderingList' \/ b.msg \in Outputs'
           /\ p.msg \in Outputs' \/ p \in orderingList'
           /\ orderedRead' \in [Channels -> 0 .. (OrderRange - 1)]
<1>1. PICK ch : ch = p.kind.ch
  OBVIOUS
<1>2. /\ orderedRead \in [Channels -> 0 .. (OrderRange - 1)] /\ output \in Seq(Messages)
      /\ ch \in Channels
  BY <1>1, PacketFacts DEF IInv, SequenceInv, DeliveryInv
<1>3. CASE p.idx = orderedRead[ch]
  <2>1. PICK n, run : Turn(p, n, run)
    BY <1>1, <1>3, TurnFacts
  <2>2. n \in Nat /\ \A j \in 1 .. n : run[j] \in orderingList
    BY <2>1 DEF Turn
  <2>3. Outputs' = Outputs \cup {p.msg} \cup {run[j].msg : j \in 1 .. n}
    BY <2>1 DEF Turn
  <2>4. OrderSum(orderedRead[ch], n + 1) \in 0 .. (OrderRange - 1)
    <3>1. orderedRead[ch] + (n + 1) \in Int
      BY <1>2, <2>2, ReliabilityAssumption
    <3>2. QED
      BY <3>1, SmallMod, ReliabilityAssumption DEF OrderSum
  <2>5. orderedRead' \in [Channels -> 0 .. (OrderRange - 1)]
    BY <1>1, <1>2, <2>1, <2>4 DEF Turn
  <2>6. \A b \in orderingList : b \in orderingList' \/ b.msg \in Outputs'
    BY <2>1, <2>3 DEF Turn
  <2>7. output' \in Seq(Messages) /\ orderingList' \subseteq orderingList
    BY <2>1 DEF Turn
  <2>8. QED
    BY <2>2, <2>3, <2>5, <2>6, <2>7
<1>4. CASE p.idx # orderedRead[ch]
  BY <1>1, <1>2, <1>4 DEF PushOrdered, Outputs
<1>5. QED
  BY <1>3, <1>4

\* Handing over one message.
LEMMA OneMoreOut ==
    ASSUME output \in Seq(Messages), NEW m \in Messages, output' = Append(output, m)
    PROVE  output' \in Seq(Messages) /\ Outputs' = Outputs \cup {m}
<1>1. output' \in Seq(Messages)
  BY Append(output, m) \in Seq(Messages)
<1>2. /\ Len(output') = Len(output) + 1 /\ output'[Len(output) + 1] = m /\ Len(output) \in Nat
      /\ \A i \in 1 .. Len(output) : output'[i] = output[i]
  OBVIOUS
<1>3. PICK l \in Nat : l = Len(output)
  BY <1>2
<1>4. 1 .. (l + 1) = (1 .. l) \cup {l + 1}
  BY <1>3
<1>5. Outputs' = {output'[i] : i \in 1 .. (l + 1)} /\ Outputs = {output[i] : i \in 1 .. l}
  BY <1>2, <1>3 DEF Outputs
<1>6. QED
  BY <1>1, <1>2, <1>3, <1>4, <1>5

\* Handing over a sequenced message makes its channel wait for the next.
LEMMA SequencedFacts ==
    ASSUME IInv, NEW p, Genuine(p), PushSequenced(p)
    PROVE  /\ output' \in Seq(Messages) /\ Outputs' = Outputs \cup {p.msg}
           /\ orderingList' = orderingList /\ orderedRead' = orderedRead
           /\ sequencedRead' = [sequencedRead EXCEPT ![p.kind.ch] = OrderSum(p.idx, 1)]
<1>1. output \in Seq(Messages) /\ p.msg \in Messages /\ output' = Append(output, p.msg)
  BY DEF IInv, DeliveryInv, Genuine, PushSequenced
<1>2. output' \in Seq(Messages) /\ Outputs' = Outputs \cup {p.msg}
  BY <1>1, OneMoreOut
<1>3. QED
  BY <1>2 DEF PushSequenced

\* The place of a sequenced packet in its channel.
LEMMA SequencedPlace ==
    ASSUME IInv, NEW p, Genuine(p), Sequenced(p.kind), NEW S, S = SequencedOf(p.kind.ch)
    PROVE  /\ p.msg \in S /\ S \in SUBSET (1 .. Len(sent)) /\ Len(sent) \in Nat
           /\ Rank(p.idx) = Cardinality(Before(p.msg, S))
           /\ Rank(p.idx) \in Nat /\ Rank(p.idx) < Len(sent)
           /\ Len(sent) =< MaxPackets /\ MaxPackets \in Nat
           /\ p.idx \in 0 .. (OrderRange - 1) /\ p.kind.ch \in Channels
<1> USE DEF IInv
<1>1. /\ p.msg \in Messages /\ p.kind = sent[p.msg].kind
      /\ Rank(p.idx) = Cardinality(Before(p.msg, S))
  BY DEF Genuine
<1>2. p.msg \in S
  BY <1>1 DEF SequencedOf
<1>3. S \in SUBSET (1 .. Len(sent)) /\ Len(sent) \in Nat /\ Len(sent) =< MaxPackets
  BY StreamFacts
<1>4. Cardinality(S) \in 0 .. Len(sent)
  BY StreamFacts
<1>5. Cardinality(Before(p.msg, S)) \in 0 .. (Cardinality(S) - 1)
  BY <1>2, <1>3, Places
<1>6. Rank(p.idx) \in Nat /\ Rank(p.idx) < Len(sent)
  BY <1>1, <1>3, <1>4, <1>5
<1>7. p.idx \in 0 .. (OrderRange - 1) /\ p.kind.ch \in Channels
  BY PacketFacts
<1>8. QED
  BY <1>1, <1>2, <1>3, <1>6, <1>7, ReliabilityAssumption

\* What is taken for older than the index waited for was superseded.
LEMMA OlderIsSuperseded ==
    ASSUME IInv, NEW p, Genuine(p), Sequenced(p.kind), p.msg \notin Outputs,
           IsOlderOrderedPacket(p.idx, sequencedRead[p.kind.ch])
    PROVE  Superseded(p.msg)
<1> USE DEF IInv
<1>1. PICK ch, S, w : ch = p.kind.ch /\ S = SequencedOf(ch) /\ w = sequencedRead[ch]
  OBVIOUS
<1>2. /\ p.msg \in S /\ S \in SUBSET (1 .. Len(sent)) /\ Len(sent) \in Nat
      /\ Rank(p.idx) = Cardinality(Before(p.msg, S))
      /\ Rank(p.idx) \in Nat /\ Rank(p.idx) < Len(sent)
      /\ Len(sent) =< MaxPackets /\ MaxPackets \in Nat
      /\ p.idx \in 0 .. (OrderRange - 1) /\ ch \in Channels
  BY <1>1, SequencedPlace
<1>3. w \in 0 .. (OrderRange - 1)
  BY <1>1, <1>2 DEF SequenceInv
<1>4. \/ w = OrderStart
      \/ \E k \in Outputs \cap S : Rank(w) = Cardinality(Before(k, S)) + 1
  BY <1>1, <1>2 DEF SequenceInv
<1>5. Cardinality(S) \in 0 .. Len(sent)
  BY <1>2, Places
<1>6. \A k \in S : Cardinality(Before(k, S)) \in 0 .. (Cardinality(S) - 1)
  BY <1>2, Places
<1>7. Rank(w) \in Nat /\ Rank(w) =< MaxPackets
  <2>1. CASE w = OrderStart
    BY <1>2, <2>1, RankOfStart
  <2>2. ASSUME NEW k \in Outputs \cap S, Rank(w) = Cardinality(Before(k, S)) + 1
        PROVE  Rank(w) \in Nat /\ Rank(w) =< MaxPackets
    <3>1. PICK c : c = Cardinality(Before(k, S))
      OBVIOUS
    <3>2. c \in 0 .. (Cardinality(S) - 1) /\ Rank(w) = c + 1
      BY <1>6, <2>2, <3>1
    <3>3. QED
      BY <1>2, <1>5, <3>2
  <2>3. QED
    BY <1>4, <2>1, <2>2
<1>8. Rank(p.idx) < Rank(w)
  <2>1. IsOlderOrderedPacket(p.idx, w) /\ Rank(p.idx) < MaxPackets
    BY <1>1, <1>2
  <2>2. QED
    BY <1>2, <1>3, <1>7, <2>1, OlderIsOlder
<1>9. PICK k \in Outputs \cap S : Rank(w) = Cardinality(Before(k, S)) + 1
  BY <1>2, <1>4, <1>8, RankOfStart
<1>10. ~(k < p.msg)
  <2>1. k < p.msg => Cardinality(Before(k, S)) < Cardinality(Before(p.msg, S))
    BY <1>2, Places
  <2>2. Cardinality(Before(k, S)) \in Nat
    BY <1>5, <1>6
  <2>3. QED
    BY <1>2, <1>8, <1>9, <2>1, <2>2
<1>11. k > p.msg
  BY <1>2, <1>9, <1>10
<1>12. QED
  BY <1>1, <1>2, <1>9, <1>11 DEF Superseded, SequencedOf, Genuine

\* A channel that hands over no sequenced message keeps its index.
LEMMA SequenceKept ==
    ASSUME IInv, sent' = sent, sequencedRead' = sequencedRead, Outputs \subseteq Outputs',
           orderedRead' \in [Channels -> 0 .. (OrderRange - 1)]
    PROVE  SequenceInv'
<1> USE DEF IInv
<1>1. \A ch : SequencedOf(ch)' = SequencedOf(ch)
  BY NothingSent
<1>2. ASSUME NEW ch \in Channels
      PROVE  \/ sequencedRead'[ch] = OrderStart
             \/ \E k \in Outputs' \cap SequencedOf(ch) :
                  Rank(sequencedRead'[ch]) = Cardinality(Before(k, SequencedOf(ch))) + 1
  BY DEF SequenceInv
<1>3. sequencedRead' \in [Channels -> 0 .. (OrderRange - 1)]
  BY DEF SequenceInv
<1>4. ASSUME NEW ch \in Channels
      PROVE  (\/ sequencedRead[ch] = OrderStart
              \/ \E k \in Outputs \cap SequencedOf(ch) :
                  Rank(sequencedRead[ch]) = Cardinality(Before(k, SequencedOf(ch))) + 1)'
  BY <1>1, <1>2 DEF Rank, Before
<1>5. QED
  BY <1>3, <1>4 DEF SequenceInv

\* A channel that hands over a sequenced message waits for the next one.
LEMMA SequenceMovesOn ==
    ASSUME IInv, sent' = sent, NEW p, Genuine(p), Sequenced(p.kind),
           Outputs' = Outputs \cup {p.msg}, orderedRead' = orderedRead,
           sequencedRead' = [sequencedRead EXCEPT ![p.kind.ch] = OrderSum(p.idx, 1)]
    PROVE  SequenceInv'
<1> USE DEF IInv
<1>1. \A ch : SequencedOf(ch)' = SequencedOf(ch)
  BY NothingSent
<1>2. PICK c, S, w : c = p.kind.ch /\ S = SequencedOf(c) /\ w = OrderSum(p.idx, 1)
  OBVIOUS
<1>3. /\ p.msg \in S /\ Rank(p.idx) = Cardinality(Before(p.msg, S))
      /\ Rank(p.idx) \in Nat /\ Rank(p.idx) < Len(sent) /\ Len(sent) \in Nat
      /\ Len(sent) =< MaxPackets /\ MaxPackets \in Nat
      /\ p.idx \in 0 .. (OrderRange - 1) /\ c \in Channels
  BY <1>2, SequencedPlace
<1>4. w \in 0 .. (OrderRange - 1) /\ Rank(w) = Cardinality(Before(p.msg, S)) + 1
  <2>1. Rank(p.idx) + 1 < OrderRange
    BY <1>3, ReliabilityAssumption
  <2>2. QED
    BY <1>2, <1>3, <2>1, RankOfSum
<1>5. /\ sequencedRead' \in [Channels -> 0 .. (OrderRange - 1)]
      /\ sequencedRead'[c] = w
      /\ \A ch \in Channels : ch # c => sequencedRead'[ch] = sequencedRead[ch]
  BY <1>2, <1>3, <1>4 DEF SequenceInv
<1>6. ASSUME NEW ch \in Channels
      PROVE  \/ sequencedRead'[ch] = OrderStart
             \/ \E k \in Outputs' \cap SequencedOf(ch) :
                  Rank(sequencedRead'[ch]) = Cardinality(Before(k, SequencedOf(ch))) + 1
  <2>1. CASE ch = c
    BY <1>2, <1>3, <1>4, <1>5, <2>1
  <2>2. CASE ch # c
    BY <1>5, <2>2 DEF SequenceInv
  <2>3. QED
    BY <2>1, <2>2
<1>7. ASSUME NEW ch \in Channels
      PROVE  (\/ sequencedRead[ch] = OrderStart
              \/ \E k \in Outputs \cap SequencedOf(ch) :
                  Rank(sequencedRead[ch]) = Cardinality(Before(k, SequencedOf(ch))) + 1)'
  BY <1>1, <1>6 DEF Rank, Before
<1>8. QED
  BY <1>5, <1>7 DEF SequenceInv

\* Messages once handed over or complete in the list are wholly received.
LEMMA NewIsNotThere ==
    ASSUME IInv, NEW p, Genuine(p), ~Counted(Off(p.num))
    PROVE  p.msg \notin Outputs /\ p \notin orderingList /\ p \notin splitList
<1>1. Off(p.num) \in Span(p.msg)
  BY PacketFacts DEF IInv
<1>2. QED
  BY <1>1 DEF IInv, DeliveryInv

\* What a packet does to the messages; splits are the fragments still kept.
Accepted(p, splits) ==
    /\ output' \in Seq(Messages) /\ Outputs \subseteq Outputs'
    /\ \A m \in Outputs' : m \in Outputs \/ m = p.msg \/ \E b \in orderingList : b.msg = m
    /\ orderingList' \subseteq orderingList \cup {p}
    /\ \A b \in orderingList : b \in orderingList' \/ b.msg \in Outputs'
    /\ splitList' \subseteq splits \cup {p}
    /\ p.msg \in Outputs' \/ p \in orderingList' =>
         \A k \in Span(p.msg) : Counted(k) \/ k = Off(p.num)
    /\ \A f \in splits :
         f \in splitList' \/ f.msg \in Outputs' \/ \E b \in orderingList' : b.msg = f.msg
    /\ Reliable(p.kind) =>
         p \in splitList' \/ p.msg \in Outputs' \/ p \in orderingList' \/ Superseded(p.msg)

LEMMA AcceptFacts ==
    ASSUME IInv, sent' = sent, NEW p, Genuine(p), ~Counted(Off(p.num)),
           NEW splits \in SUBSET splitList, Accept(p, splits)
    PROVE  Accepted(p, splits) /\ SequenceInv'
<1> USE DEF IInv
<1>1. p.msg \notin Outputs /\ p \notin orderingList /\ p \notin splitList
  BY NewIsNotThere
<1>2. /\ output \in Seq(Messages) /\ p.msg \in Messages
      /\ orderedRead \in [Channels -> 0 .. (OrderRange - 1)]
  BY DEF DeliveryInv, SequenceInv, Genuine
<1>3. CASE UNCHANGED <<output, orderedRead, sequencedRead, orderingList>>
  <2>1. Outputs' = Outputs /\ SequenceInv'
    <3>1. Outputs' = Outputs
      BY <1>3 DEF Outputs
    <3>2. QED
      BY <1>2, <1>3, <3>1, SequenceKept
  <2>2. (splitList' = splits /\ Superseded(p.msg)) \/ splitList' = splits \cup {p}
    <3>1. CASE Sequenced(p.kind) /\ IsOlderOrderedPacket(p.idx, sequencedRead[p.kind.ch])
      BY <1>1, <3>1, OlderIsSuperseded DEF Accept
    <3>2. CASE ~(Sequenced(p.kind) /\ IsOlderOrderedPacket(p.idx, sequencedRead[p.kind.ch]))
      <4>1. CASE ~Complete(p, splits)
        BY <3>2, <4>1 DEF Accept, WithFragment
      <4>2. CASE Complete(p, splits)
        <5>1. \/ PushSequenced(p) \/ PushOrdered(p) \/ output' = Append(output, p.msg)
          BY <3>2, <4>2 DEF Accept
        <5>2. ASSUME output' = Append(output, p.msg)
              PROVE  FALSE
          <6>1. Len(Append(output, p.msg)) = Len(output) + 1 /\ Len(output) \in Nat
            BY <1>2
          <6>2. QED
            BY <1>3, <5>2, <6>1
        <5>3. ~PushOrdered(p) \/ p \in orderingList' \/ p.msg \in Outputs'
          BY OrderedFacts
        <5>4. QED
          BY <1>1, <1>3, <2>1, <5>1, <5>2, <5>3 DEF PushSequenced
      <4>3. QED
        BY <4>1, <4>2
    <3>3. QED
      BY <3>1, <3>2
  <2>3. QED
    BY <1>1, <1>2, <1>3, <2>1, <2>2 DEF Accepted
<1>4. CASE /\ Complete(p, splits) /\ splitList' = splits \ FragmentsOf(p, splits)
           /\ \/ PushSequenced(p) /\ Sequenced(p.kind)
              \/ PushOrdered(p) /\ UNCHANGED sequencedRead
              \/ /\ output' = Append(output, p.msg)
                 /\ UNCHANGED <<orderedRead, sequencedRead, orderingList>>
  <2>1. \A k \in Span(p.msg) : Counted(k) \/ k = Off(p.num)
    BY <1>4, CompleteIsComplete
  <2>2. /\ output' \in Seq(Messages) /\ Outputs \subseteq Outputs'
        /\ \A m \in Outputs' : m \in Outputs \/ m = p.msg \/ \E b \in orderingList : b.msg = m
        /\ orderingList' \subseteq orderingList \cup {p}
        /\ \A b \in orderingList : b \in orderingList' \/ b.msg \in Outputs'
        /\ p.msg \in Outputs' \/ p \in orderingList'
        /\ SequenceInv'
    <3>1. CASE PushSequenced(p) /\ Sequenced(p.kind)
      <4>1. SequenceInv'
        BY <3>1, SequencedFacts, SequenceMovesOn
      <4>2. QED
        BY <3>1, <4>1, SequencedFacts
    <3>2. CASE PushOrdered(p) /\ UNCHANGED sequencedRead
      <4>1. /\ Outputs \subseteq Outputs'
            /\ orderedRead' \in [Channels -> 0 .. (OrderRange - 1)]
        BY <3>2, OrderedFacts
      <4>2. SequenceInv'
        BY <3>2, <4>1, SequenceKept
      <4>3. QED
        BY <3>2, <4>2, OrderedFacts
    <3>3. CASE output' = Append(output, p.msg)
                 /\ UNCHANGED <<orderedRead, sequencedRead, orderingList>>
      <4>1. output' \in Seq(Messages) /\ Outputs' = Outputs \cup {p.msg}
        BY <1>2, <3>3, OneMoreOut
      <4>2. Outputs \subseteq Outputs'
        BY <4>1
      <4>3. SequenceInv'
        BY <1>2, <3>3, <4>2, SequenceKept
      <4>4. QED
        BY <3>3, <4>1, <4>3
    <3>4. QED
      BY <1>4, <3>1, <3>2, <3>3
  <2>3. /\ splitList' \subseteq splits \cup {p}
        /\ \A f \in splits :
             f \in splitList' \/ f.msg \in Outputs' \/ \E b \in orderingList' : b.msg = f.msg
    BY <1>4, <2>2 DEF FragmentsOf
  <2>4. QED
    BY <2>1, <2>2, <2>3 DEF Accepted
<1>5. QED
  BY <1>3, <1>4 DEF Accept, WithFragment

\* A new packet keeps the invariant, whichever old fragments were dropped.
LEMMA NewPacketStep ==
    ASSUME IInv, SentInv', Total' = Total, Gone' = Gone,
           sent' = sent, sendPacketSet' = sendPacketSet, resendList' = resendList,
           deadConnection' = deadConnection, net' \subseteq net,
           NEW p, Genuine(p), Off(p.num) < Gone, ~Counted(Off(p.num)), Count(p.num),
           acknowlegements' \subseteq acknowlegements \cup {p.num},
           NEW splits \in SUBSET splitList, Accepted(p, splits), SequenceInv',
           \A f \in splitList : Reliable(f.kind) => f \in splits
    PROVE  IInv'
<1> USE DEF IInv
<1>1. /\ p.num \in 0 .. (MessageRange - 1) /\ Off(p.num) \in Nat
      /\ p.num \in NumbersOf(p.msg) /\ p.msg \in Messages
  BY PacketFacts DEF Genuine
<1>2. /\ WindowInv' /\ gaveUp \subseteq gaveUp'
      /\ \A k \in Nat : Counted(k) => Counted(k)'
      /\ Counted(Off(p.num))'
      /\ \A j \in 0 .. (MessageRange - 1) :
           Counted(Off(j))' => Counted(Off(j)) \/ j = p.num \/ j \in gaveUp'
  BY <1>1, CountStep
<1>3. /\ Messages' = Messages
      /\ \A m : Begin(m)' = Begin(m) /\ Span(m)' = Span(m) /\ NumbersOf(m)' = NumbersOf(m)
      /\ \A q : Genuine(q)' <=> Genuine(q)
  BY NothingSent
<1>4. /\ output' \in Seq(Messages) /\ Outputs \subseteq Outputs'
      /\ \A m \in Outputs' : m \in Outputs \/ m = p.msg \/ \E b \in orderingList : b.msg = m
      /\ orderingList' \subseteq orderingList \cup {p}
      /\ \A b \in orderingList : b \in orderingList' \/ b.msg \in Outputs'
      /\ splitList' \subseteq splits \cup {p}
  BY DEF Accepted
<1>5. /\ p.msg \in Outputs' \/ p \in orderingList' =>
           \A k \in Span(p.msg) : Counted(k) \/ k = Off(p.num)
      /\ \A f \in splits :
           f \in splitList' \/ f.msg \in Outputs' \/ \E b \in orderingList' : b.msg = f.msg
      /\ Reliable(p.kind) =>
           p \in splitList' \/ p.msg \in Outputs' \/ p \in orderingList' \/ Superseded(p.msg)
  BY DEF Accepted
<1>6. PacketInv'
  <2>1. splitList' \subseteq splitList \cup {p}
    BY <1>4
  <2>2. \A q \in (Unsent \cup net \cup resendList \cup splitList \cup orderingList)' : Genuine(q)'
    BY <1>3, <1>4, <2>1 DEF PacketInv, Unsent
  <2>3. \A q \in (net \cup resendList \cup splitList \cup orderingList)' : Off(q.num) < Gone'
    BY <1>4, <2>1 DEF PacketInv
  <2>4. \A i \in 1 .. Len(sendPacketSet') : Off(sendPacketSet'[i].num) = Gone' + i - 1
    BY DEF PacketInv
  <2>5. QED
    BY <2>2, <2>3, <2>4 DEF PacketInv, Off
<1>7. ResendInv'
  <2>1. acknowlegements' \subseteq 0 .. (MessageRange - 1)
    BY <1>1 DEF ResendInv
  <2>2. ASSUME NEW n \in acknowlegements'
        PROVE  Counted(Off(n))'
    <3>1. CASE n = p.num
      BY <1>2, <3>1
    <3>2. CASE n \in acknowlegements
      <4>1. n \in 0 .. (MessageRange - 1) /\ Counted(Off(n))
        BY <3>2 DEF ResendInv
      <4>2. PICK k \in Nat : k = Off(n)
        BY <4>1, OffRange, ReliabilityAssumption
      <4>3. Counted(k)'
        BY <1>2, <4>1, <4>2
      <4>4. QED
        BY <4>2, <4>3 DEF Off
    <3>3. QED
      BY <3>1, <3>2
  <2>3. ASSUME NEW m \in Messages, Reliable(sent[m].kind), NEW k \in Span(m), k < Gone
        PROVE  Counted(k)' \/ \E q \in resendList' : Off(q.num) = k
    BY <1>2, <2>3, SpanFacts DEF ResendInv
  <2>4. \A m \in Messages' : Reliable(sent'[m].kind) =>
           \A k \in Span(m)' :
               k < Gone' => Counted(k)' \/ \E q \in resendList' : Off(q.num) = k
    BY <1>3, <2>3
  <2>5. QED
    BY <2>1, <2>2, <2>4 DEF ResendInv, Off
<1>8. IsFiniteSet(splitList') /\ IsFiniteSet(orderingList')
  <2>1. IsFiniteSet(splitList \cup {p}) /\ IsFiniteSet(orderingList \cup {p})
    BY FS_AddElement DEF DeliveryInv
  <2>2. splitList' \subseteq splitList \cup {p}
    BY <1>4
  <2>3. QED
    BY <1>4, <2>1, <2>2, FS_Subset
<1>9. ASSUME NEW f \in splitList'
      PROVE  Counted(Off(f.num))'
  <2>1. CASE f = p
    BY <1>2, <2>1
  <2>2. CASE f \in splitList
    <3>1. Counted(Off(f.num)) /\ Genuine(f)
      BY <2>2 DEF DeliveryInv, PacketInv
    <3>2. PICK k \in Nat : k = Off(f.num)
      BY <3>1, PacketFacts
    <3>3. Counted(k)'
      BY <1>2, <3>1, <3>2
    <3>4. QED
      BY <3>2, <3>3 DEF Off
  <2>3. QED
    BY <1>4, <2>1, <2>2
<1>10. ASSUME NEW f \in splitList', NEW g \in splitList', f.num = g.num
       PROVE  f = g
  <2>1. \A h \in splitList : h.num # p.num
    BY DEF DeliveryInv
  <2>2. QED
    BY <1>4, <1>10, <2>1 DEF DeliveryInv
<1>11. ASSUME NEW m \in Outputs', NEW k \in Span(m)
       PROVE  Counted(k)'
  <2>1. m \in Messages
    BY <1>4, <1>1 DEF DeliveryInv, PacketInv, Genuine, Outputs
  <2>2. k \in Nat
    BY <1>11, <2>1, SpanFacts
  <2>3. Counted(k) \/ k = Off(p.num)
    BY <1>4, <1>5, <1>11 DEF DeliveryInv
  <2>4. k = Off(p.num) => Counted(k)'
    BY <1>2 DEF Off
  <2>5. QED
    BY <1>2, <2>2, <2>3, <2>4
<1>12. ASSUME NEW b \in orderingList', NEW k \in Span(b.msg)
       PROVE  Counted(k)'
  <2>1. b.msg \in Messages
    BY <1>1, <1>4 DEF PacketInv, Genuine
  <2>2. k \in Nat
    BY <1>12, <2>1, SpanFacts
  <2>3. Counted(k) \/ k = Off(p.num)
    BY <1>4, <1>5, <1>12 DEF DeliveryInv
  <2>4. k = Off(p.num) => Counted(k)'
    BY <1>2 DEF Off
  <2>5. QED
    BY <1>2, <2>2, <2>3, <2>4
<1>13. ASSUME NEW m \in Messages, Reliable(sent[m].kind), NEW n \in NumbersOf(m), Counted(Off(n))'
       PROVE  m \in Outputs' \/ Waiting(m, n)' \/ Superseded(m)' \/ n \in gaveUp'
  <2>1. n \in 0 .. (MessageRange - 1) /\ Off(n) \in Span(m) /\ Off(n) \in Nat
    BY <1>13, NumberFacts
  <2>2. Superseded(m) => Superseded(m)'
    BY <1>3, <1>4 DEF Superseded
  <2>3. \A b \in orderingList' : b.msg = m => Waiting(m, n)'
    BY DEF Waiting
  <2>4. CASE n = p.num
    <3>1. p.msg = m /\ Reliable(p.kind)
      <4>1. Off(n) \in Span(p.msg)
        BY <2>4, PacketFacts
      <4>2. p.msg = m
        BY <1>1, <2>1, <4>1, SpansAreDisjoint
      <4>3. QED
        BY <1>13, <4>2 DEF Genuine
    <3>2. p \in splitList' => Waiting(m, n)'
      BY <2>4 DEF Waiting
    <3>3. QED
      BY <1>5, <2>2, <2>3, <3>1, <3>2
  <2>5. CASE Counted(Off(n))
    <3>1. m \in Outputs \/ Waiting(m, n) \/ Superseded(m) \/ n \in gaveUp
      BY <1>13, <2>5 DEF DeliveryInv
    <3>2. ASSUME NEW b \in orderingList, b.msg = m
          PROVE  m \in Outputs' \/ Waiting(m, n)'
      BY <1>4, <2>3, <3>2
    <3>3. ASSUME NEW f \in splitList, f.num = n
          PROVE  m \in Outputs' \/ Waiting(m, n)'
      <4>1. Genuine(f)
        BY DEF PacketInv
      <4>2. f.msg \in Messages /\ f.kind = sent[f.msg].kind /\ Off(n) \in Span(f.msg)
        BY <3>3, <4>1, PacketFacts DEF Genuine
      <4>3. f.msg = m
        BY <2>1, <4>2, SpansAreDisjoint
      <4>4. f \in splits
        BY <1>13, <4>2, <4>3
      <4>5. f \in splitList' => Waiting(m, n)'
        BY <3>3 DEF Waiting
      <4>6. QED
        BY <1>5, <2>3, <4>3, <4>4, <4>5
    <3>4. QED
      BY <1>2, <1>4, <2>2, <3>1, <3>2, <3>3 DEF Waiting
  <2>6. QED
    BY <1>2, <1>13, <2>1, <2>4, <2>5
<1>14. DeliveryInv'
  <2>1. \A m \in Messages' : Reliable(sent'[m].kind) =>
          \A n \in NumbersOf(m)' : Counted(Off(n))' =>
            m \in Outputs' \/ Waiting(m, n)' \/ Superseded(m)' \/ n \in gaveUp'
    BY <1>3, <1>13
  <2>2. \A m \in Outputs' : \A k \in Span(m)' : Counted(k)'
    BY <1>3, <1>11
  <2>3. \A b \in orderingList' : \A k \in Span(b.msg)' : Counted(k)'
    BY <1>3, <1>12
  <2>4. output' \in Seq(Messages')
    BY <1>3, <1>4
  <2>5. QED
    BY <1>8, <1>9, <1>10, <2>1, <2>2, <2>3, <2>4 DEF DeliveryInv
<1>15. QED
  BY <1>2, <1>6, <1>7, <1>14

LEMMA ReceiveNewStep ==
    ASSUME IInv, NEW p \in net, ReceiveNew(p)
    PROVE  IInv'
<1>1. Genuine(p) /\ Off(p.num) < Gone
  BY DEF IInv, PacketInv
<1>2. ~Counted(Off(p.num))
  <2>1. p.num \in 0 .. (MessageRange - 1) /\ Off(p.num) =< Total
    BY <1>1, PacketFacts, Bounds DEF IInv
  <2>2. QED
    BY <2>1, WindowCounts DEF IInv, ReceiveNew
<1>3. PICK splits \in SUBSET splitList :
          Accept(p, splits) /\ \A f \in splitList : Reliable(f.kind) => f \in splits
  <2>1. PICK old \in (IF p.kind.parts > 1 THEN OldUnreliableSplits ELSE {{}}) :
            Accept(p, {f \in splitList : f.msg \notin old})
    BY DEF ReceiveNew
  <2>2. \A f \in splitList : f.msg \in old => ~Reliable(f.kind)
    BY <2>1 DEF OldUnreliableSplits
  <2>3. PICK splits : splits = {f \in splitList : f.msg \notin old}
    OBVIOUS
  <2>4. QED
    BY <2>1, <2>2, <2>3
<1>4. /\ UNCHANGED <<messageNumber, orderedWrite, sequencedWrite, sendPacketSet, resendList,
                     deadConnection, sent>>
      /\ net' \subseteq net /\ Count(p.num)
      /\ acknowlegements' \subseteq acknowlegements \cup {p.num}
  BY DEF ReceiveNew, Take, Acknowledged, senderVars
<1>5. SentInv' /\ Total' = Total /\ Gone' = Gone
  <2>1. Total' = Total /\ Gone' = Gone
    BY <1>4 DEF Total, Gone, Off
  <2>2. /\ Messages' = Messages
        /\ \A m : Begin(m)' = Begin(m)
        /\ \A ch : SequencedOf(ch)' = SequencedOf(ch) /\ OrderedOf(ch)' = OrderedOf(ch)
    BY <1>4, NothingSent
  <2>3. QED
    BY <1>4, <2>1, <2>2 DEF IInv, SentInv, Rank
<1>6. Accepted(p, splits) /\ SequenceInv'
  BY <1>1, <1>2, <1>3, <1>4, AcceptFacts
<1>7. QED
  BY <1>1, <1>2, <1>3, <1>4, <1>5, <1>6, NewPacketStep

-----------------------------------------------------------------------------
(* The invariant. *)

LEMMA InitInv == Init => IInv
<1> SUFFICES ASSUME Init
             PROVE  IInv
  OBVIOUS
<1> USE DEF Init
<1>1. Total = 0 /\ Base = 0 /\ Gone = 0 /\ Len(sendPacketSet) = 0
  <2>1. Len(sendPacketSet) = 0
    OBVIOUS
  <2>2. Total = Off(Start) /\ Base = Off(Start)
    BY DEF Total, Base
  <2>3. Total = 0 /\ Base = 0
    BY <2>2, OffOfStart
  <2>4. PICK l : l = Len(sendPacketSet)
    OBVIOUS
  <2>5. Gone = Total - l /\ l = 0
    BY <2>1, <2>4 DEF Gone
  <2>6. QED
    BY <2>1, <2>3, <2>5
<1>2. Messages = {} /\ Outputs = {} /\ Unsent = {}
  BY DEF Messages, Outputs, Unsent
<1>3. \A ch : SequencedOf(ch) = {} /\ OrderedOf(ch) = {}
  BY <1>2 DEF SequencedOf, OrderedOf
<1>4. SentInv
  <2>1. sent \in Seq([kind : Traffic, num : 0 .. (MessageRange - 1)]) /\ Len(sent) = 0
    OBVIOUS
  <2>2. Total =< MaxPackets /\ Len(sent) =< Total
    BY <1>1, <2>1, ReliabilityAssumption
  <2>3. /\ sequencedWrite = [c \in Channels |-> OrderStart]
        /\ orderedWrite = [c \in Channels |-> OrderStart]
    OBVIOUS
  <2>4. ASSUME NEW ch \in Channels
        PROVE  /\ Rank(sequencedWrite[ch]) = Cardinality(SequencedOf(ch))
               /\ Rank(orderedWrite[ch]) = Cardinality(OrderedOf(ch))
    BY <1>3, <2>3, FS_EmptySet, RankOfStart
  <2>5. /\ sequencedWrite \in [Channels -> 0 .. (OrderRange - 1)]
        /\ orderedWrite \in [Channels -> 0 .. (OrderRange - 1)]
        /\ messageNumber \in 0 .. (MessageRange - 1)
    BY <2>3, OffOfStart, RankOfStart
  <2>6. QED
    BY <1>2, <2>1, <2>2, <2>4, <2>5 DEF SentInv
<1>5. PacketInv
  <2>1. sendPacketSet \in Seq(Packet)
    OBVIOUS
  <2>2. QED
    <3>1. \A p \in Unsent \cup net \cup resendList \cup splitList \cup orderingList : FALSE
      BY <1>2
    <3>2. Len(sendPacketSet) =< Total /\ 1 .. Len(sendPacketSet) = {}
      BY <1>1
    <3>3. QED
      BY <2>1, <3>1, <3>2 DEF PacketInv
<1>6. WindowInv
  <2>1. queue \in Seq({"got", "hole"}) /\ Len(queue) = 0
    OBVIOUS
  <2>2. QED
    BY <1>1, <2>1, OffOfStart DEF WindowInv
<1>7. ResendInv
  BY <1>2 DEF ResendInv
<1>8. DeliveryInv
  <2>1. output \in Seq(Messages)
    OBVIOUS
  <2>2. QED
    BY <1>2, <2>1, FS_EmptySet DEF DeliveryInv
<1>9. SequenceInv
  BY RankOfStart DEF SequenceInv
<1>10. QED
  BY <1>4, <1>5, <1>6, <1>7, <1>8, <1>9 DEF IInv

LEMMA NextInv == IInv /\ [Next]_vars => IInv'
<1> SUFFICES ASSUME IInv, [Next]_vars
             PROVE  IInv'
  OBVIOUS
<1>1. ASSUME NEW kind \in Traffic, Send(kind)
      PROVE  IInv'
  BY <1>1, SendStep
<1>2. ASSUME Transmit
      PROVE  IInv'
  BY <1>2, TransmitStep
<1>3. ASSUME NEW p \in net, ReceiveNew(p)
      PROVE  IInv'
  BY <1>3, ReceiveNewStep
<1>4. QED
  BY <1>1, <1>2, <1>3, QuietActions DEF Next

(* Numbers and indices stay within their types, whatever wraps, and the    *)
(* lists hold packets of messages that were sent.                          *)
THEOREM TypeCorrect == Spec => []TypeOK
<1>1. IInv => TypeOK
  BY InvImpliesTypes
<1>2. QED
  BY InitInv, NextInv, <1>1, PTL DEF Spec

(* A reliable packet that the sender forgot was handed over, is kept by    *)
(* the receiver, or was superseded or given up, and the receiver counts as *)
(* received exactly what it has or gave up: nothing is delivered twice and *)
(* nothing is mistaken for a duplicate (ReliabilityLayer.cpp:430-508), for *)
(* any loss, duplication and reordering and wherever the numbers wrap.     *)
THEOREM NothingIsLostOrDoubled == Spec => []NothingLostOrDoubled
<1>1. IInv => NothingLostOrDoubled
  BY InvImpliesKept, InvImpliesExact DEF NothingLostOrDoubled
<1>2. QED
  BY InitInv, NextInv, <1>1, PTL DEF Spec

-----------------------------------------------------------------------------
(* What is handed over, and in which order. *)

\* The number of messages before one is its place.
LEMMA PlacesTellApart ==
    ASSUME NEW L \in Nat, NEW S \in SUBSET (1 .. L), NEW m \in S, NEW k \in S
    PROVE  /\ Cardinality(Before(m, S)) \in Nat /\ Cardinality(S) \in Nat
           /\ Cardinality(Before(m, S)) < Cardinality(S)
           /\ m < k <=> Cardinality(Before(m, S)) < Cardinality(Before(k, S))
           /\ Cardinality(Before(m, S)) = Cardinality(Before(k, S)) => m = k
<1>1. /\ m \in Nat /\ k \in Nat /\ Cardinality(S) \in Nat
      /\ Cardinality(Before(m, S)) \in 0 .. (Cardinality(S) - 1)
      /\ Cardinality(Before(k, S)) \in 0 .. (Cardinality(S) - 1)
  BY Places
<1>2. /\ m < k => Cardinality(Before(m, S)) < Cardinality(Before(k, S))
      /\ k < m => Cardinality(Before(k, S)) < Cardinality(Before(m, S))
  BY Places
<1>3. QED
  BY <1>1, <1>2

\* A message has an index of one kind, of one channel.
LEMMA OneStream ==
    ASSUME NEW a, NEW b, NEW m
    PROVE  /\ m \in OrderedOf(a) => m \notin SequencedOf(b)
           /\ m \in OrderedOf(a) /\ m \in OrderedOf(b) => a = b
           /\ m \in SequencedOf(a) /\ m \in SequencedOf(b) => a = b
  BY DEF OrderedOf, SequencedOf, Ordered, Sequenced

\* Messages are handed over at the end.
LEMMA LaterOutputs ==
    ASSUME output \in Seq(Messages), NEW l \in Nat, l = Len(output), NEW n \in Nat,
           Len(output') = l + n, \A i \in 1 .. l : output'[i] = output[i]
    PROVE  Outputs' = Outputs \cup {output'[i] : i \in (l + 1) .. (l + n)}
<1>1. 1 .. (l + n) = (1 .. l) \cup ((l + 1) .. (l + n))
  OBVIOUS
<1>2. Outputs' = {output'[i] : i \in 1 .. (l + n)} /\ Outputs = {output[i] : i \in 1 .. l}
  BY DEF Outputs
<1>3. {output'[i] : i \in 1 .. l} = {output[i] : i \in 1 .. l}
  OBVIOUS
<1>4. QED
  BY <1>1, <1>2, <1>3

\* A message without an ordering index is handed over when it comes.
LEMMA OneMoreArrives ==
    ASSUME IInv, PromiseInv, sent' = sent, NEW x \in Messages, x \notin Outputs,
           output' = Append(output, x), \A ch : x \notin OrderedOf(ch),
           \A ch \in Channels : x \in SequencedOf(ch) =>
               \A k \in Outputs \cap SequencedOf(ch) : k < x
    PROVE  ArrivalInv'
<1>1. /\ \A ch : OrderedOf(ch)' = OrderedOf(ch) /\ SequencedOf(ch)' = SequencedOf(ch)
  BY NothingSent
<1>2. PICK l \in Nat : l = Len(output)
  BY DEF IInv, DeliveryInv
<1>3. /\ Len(output') = l + 1 /\ output'[l + 1] = x
      /\ \A i \in 1 .. l : output'[i] = output[i] /\ output'[i] \in Outputs
      /\ \A i \in 1 .. (l + 1) : i \in 1 .. l \/ i = l + 1
  BY <1>2 DEF IInv, DeliveryInv, Outputs
<1>4. ASSUME NEW i \in 1 .. (l + 1), NEW j \in 1 .. (l + 1), output'[i] = output'[j]
      PROVE  i = j
  <2>1. CASE i \in 1 .. l /\ j \in 1 .. l
    BY <1>2, <1>3, <1>4, <2>1 DEF PromiseInv, ArrivalInv
  <2>2. CASE i = l + 1 \/ j = l + 1
    BY <1>3, <1>4, <2>2
  <2>3. QED
    BY <1>3, <2>1, <2>2
<1>5. ASSUME NEW ch \in Channels, NEW m \in OrderedOf(ch), NEW k \in OrderedOf(ch),
             NEW i \in 1 .. (l + 1), m < k, output'[i] = k
      PROVE  \E j \in 1 .. (i - 1) : output'[j] = m
  <2>1. i \in 1 .. l /\ output[i] = k
    BY <1>3, <1>5
  <2>2. PICK j \in 1 .. (i - 1) : output[j] = m
    BY <1>2, <1>5, <2>1 DEF PromiseInv, ArrivalInv
  <2>3. j \in 1 .. l
    BY <2>1
  <2>4. QED
    BY <1>3, <2>2, <2>3
<1>6. ASSUME NEW ch \in Channels, NEW m \in SequencedOf(ch), NEW k \in SequencedOf(ch),
             NEW i \in 1 .. (l + 1), NEW j \in 1 .. (l + 1),
             i < j, output'[i] = m, output'[j] = k
      PROVE  m < k
  <2>1. i \in 1 .. l /\ output[i] = m /\ m \in Outputs
    BY <1>3, <1>6
  <2>2. CASE j \in 1 .. l
    <3>1. output[j] = k
      BY <1>3, <1>6, <2>2
    <3>2. QED
      BY <1>2, <1>6, <2>1, <2>2, <3>1 DEF PromiseInv, ArrivalInv
  <2>3. CASE j = l + 1
    BY <1>3, <1>6, <2>1, <2>3
  <2>4. QED
    BY <1>3, <2>2, <2>3
<1>7. QED
  BY <1>1, <1>3, <1>4, <1>5, <1>6 DEF ArrivalInv

\* The messages handed over are the next n + 1 of the channel's ordered ones.
NextInOrder(c, r, S, n, l) ==
    /\ r = Rank(orderedRead[c]) /\ S = OrderedOf(c) /\ l = Len(output)
    /\ Len(output') = l + (n + 1)
    /\ \A i \in 1 .. l : output'[i] = output[i]
    /\ \A j \in 0 .. n : /\ output'[l + 1 + j] \in S
                         /\ Cardinality(Before(output'[l + 1 + j], S)) = r + j

LEMMA RunArrives ==
    ASSUME IInv, PromiseInv, sent' = sent, NEW c \in Channels, NEW r, NEW S, NEW n \in Nat,
           NEW l \in Nat, NextInOrder(c, r, S, n, l)
    PROVE  /\ ArrivalInv'
           /\ \A m \in S : m \in Outputs' <=> Cardinality(Before(m, S)) < r + n + 1
           /\ Outputs \subseteq Outputs' /\ Outputs' \subseteq Outputs \cup S
           /\ r + n + 1 =< Cardinality(S)
<1>0. /\ r = Rank(orderedRead[c]) /\ S = OrderedOf(c) /\ l = Len(output)
      /\ Len(output') = l + (n + 1)
      /\ \A i \in 1 .. l : output'[i] = output[i]
  BY DEF NextInOrder
<1>0a. \A j \in 0 .. n : /\ output'[l + 1 + j] \in S
                         /\ Cardinality(Before(output'[l + 1 + j], S)) = r + j
  BY DEF NextInOrder
<1>1. \A ch : OrderedOf(ch)' = OrderedOf(ch) /\ SequencedOf(ch)' = SequencedOf(ch)
  BY NothingSent
<1>2. PICK L \in Nat : L = Len(sent) /\ S \in SUBSET (1 .. L)
  BY <1>0, StreamFacts DEF IInv
<1>3. /\ r \in Nat /\ r =< Cardinality(S) /\ Cardinality(S) \in Nat
      /\ \A m \in S : m \in Outputs <=> Cardinality(Before(m, S)) < r
  <2>1. PICK w \in Int : w = orderedRead[c]
    BY ReliabilityAssumption DEF IInv, SequenceInv
  <2>2. r \in Nat
    <3>1. Rank(w) \in 0 .. (OrderRange - 1)
      BY RankRange
    <3>2. QED
      BY <1>0, <2>1, <3>1, ReliabilityAssumption
  <2>3. Cardinality(S) \in Nat
    BY <1>2, Places
  <2>4. QED
    BY <1>0, <2>2, <2>3 DEF PromiseInv, OrderInv
<1>4. PICK new : new = output'
  OBVIOUS
<1>5. \A i \in 1 .. (l + (n + 1)) :
          i \in 1 .. l \/ (i > l /\ i - l - 1 \in 0 .. n /\ l + 1 + (i - l - 1) = i)
  OBVIOUS
<1>6. \A i \in 1 .. l : new[i] = output[i] /\ new[i] \in Outputs
  BY <1>0, <1>4 DEF Outputs
<1>7. ASSUME NEW i \in 1 .. (l + (n + 1)), i > l
      PROVE  /\ new[i] \in S /\ Cardinality(Before(new[i], S)) = r + (i - l - 1)
             /\ new[i] \notin Outputs
  <2>0. i - l - 1 \in 0 .. n /\ l + 1 + (i - l - 1) = i
    BY <1>7
  <2>1. PICK j \in 0 .. n : j = i - l - 1 /\ l + 1 + j = i
    BY <2>0
  <2>2. new[l + 1 + j] \in S /\ Cardinality(Before(new[l + 1 + j], S)) = r + j
    BY <1>0a, <1>4
  <2>3. new[i] \in S /\ Cardinality(Before(new[i], S)) = r + j
    BY <2>1, <2>2
  <2>4. ~(r + j < r)
    BY <1>3
  <2>5. QED
    BY <1>3, <2>1, <2>3, <2>4
<1>8. ASSUME NEW m \in S, NEW k \in S
      PROVE  /\ Cardinality(Before(m, S)) \in Nat /\ Cardinality(Before(m, S)) < Cardinality(S)
             /\ m < k <=> Cardinality(Before(m, S)) < Cardinality(Before(k, S))
             /\ Cardinality(Before(m, S)) = Cardinality(Before(k, S)) => m = k
  BY <1>2, PlacesTellApart
<1>9. ASSUME NEW m \in S, r =< Cardinality(Before(m, S)), NEW k \in Nat,
             Cardinality(Before(m, S)) =< r + k, k =< n
      PROVE  \E j \in (l + 1) .. (l + 1 + k) : new[j] = m
  <2>1. PICK q \in Nat : q = Cardinality(Before(m, S))
    BY <1>8
  <2>1a. r \in Nat /\ r =< q /\ q =< r + k /\ k =< n
    BY <1>3, <1>9, <2>1
  <2>1b. l + 1 + (q - r) \in (l + 1) .. (l + 1 + k)
    BY <2>1a
  <2>2. PICK j \in (l + 1) .. (l + 1 + k) : j = l + 1 + (q - r)
    BY <2>1b
  <2>3. j \in 1 .. (l + (n + 1)) /\ j > l /\ r + (j - l - 1) = q
    <3>1. PICK e \in Nat : e = q - r
      BY <2>1a
    <3>2. j = l + 1 + e /\ e =< k /\ r + e = q
      BY <2>1a, <2>2, <3>1
    <3>3. j - l - 1 = e /\ j > l /\ j =< l + (n + 1)
      BY <2>1a, <3>2
    <3>4. QED
      BY <3>2, <3>3
  <2>4. new[j] \in S /\ Cardinality(Before(new[j], S)) = q
    BY <1>7, <2>3
  <2>5. new[j] = m
    BY <1>8, <2>1, <2>4
  <2>6. QED
    BY <2>5
<1>10. ASSUME NEW i \in 1 .. (l + (n + 1)), NEW j \in 1 .. (l + (n + 1)), new[i] = new[j]
       PROVE  i = j
  <2>1. CASE i \in 1 .. l /\ j \in 1 .. l
    BY <1>0, <1>6, <1>10, <2>1 DEF PromiseInv, ArrivalInv
  <2>2. CASE i > l /\ j > l
    <3>1. r + (i - l - 1) = r + (j - l - 1)
      BY <1>7, <1>10, <2>2
    <3>2. QED
      BY <1>3, <3>1
  <2>3. CASE (i > l /\ j \in 1 .. l) \/ (j > l /\ i \in 1 .. l)
    BY <1>6, <1>7, <1>10, <2>3
  <2>4. QED
    BY <1>5, <2>1, <2>2, <2>3
<1>11. ASSUME NEW ch \in Channels, NEW m \in OrderedOf(ch), NEW k \in OrderedOf(ch),
              NEW i \in 1 .. (l + (n + 1)), m < k, new[i] = k
       PROVE  \E j \in 1 .. (i - 1) : new[j] = m
  <2>1. CASE i \in 1 .. l
    <3>1. PICK j \in 1 .. (i - 1) : output[j] = m
      BY <1>0, <1>6, <1>11, <2>1 DEF PromiseInv, ArrivalInv
    <3>2. j \in 1 .. l
      BY <2>1
    <3>3. QED
      BY <1>6, <3>1, <3>2
  <2>2. CASE i > l
    <3>1. k \in S /\ Cardinality(Before(k, S)) = r + (i - l - 1)
      BY <1>7, <1>11, <2>2
    <3>2. m \in S
      BY <1>0, <1>11, <3>1, OneStream
    <3>3. PICK q \in Nat : q = Cardinality(Before(m, S))
      BY <1>8, <3>2
    <3>4. q < r + (i - l - 1)
      BY <1>8, <1>11, <3>1, <3>2, <3>3
    <3>5. CASE q < r
      <4>1. m \in Outputs
        BY <1>3, <3>2, <3>3, <3>5
      <4>2. PICK j \in 1 .. l : output[j] = m
        BY <1>0, <4>1 DEF Outputs
      <4>3. j \in 1 .. (i - 1)
        BY <2>2
      <4>4. QED
        BY <1>6, <4>2, <4>3
    <3>6. CASE r =< q
      <4>0. i - l - 2 \in Nat
        <5>1. r \in Nat /\ r < r + (i - l - 1)
          BY <1>3, <3>4, <3>6
        <5>2. QED
          BY <5>1
      <4>1. PICK k2 \in Nat : k2 = i - l - 2
        BY <4>0
      <4>2. q =< r + k2 /\ k2 =< n /\ l + 1 + k2 =< i - 1
        BY <1>3, <3>4, <4>1
      <4>3. PICK j \in (l + 1) .. (l + 1 + k2) : new[j] = m
        BY <1>9, <3>2, <3>3, <3>6, <4>2
      <4>4. j \in 1 .. (i - 1)
        BY <4>2
      <4>5. QED
        BY <4>3, <4>4
    <3>7. QED
      BY <1>3, <3>5, <3>6
  <2>3. QED
    BY <1>5, <2>1, <2>2
<1>12. ASSUME NEW ch \in Channels, NEW m \in SequencedOf(ch), NEW k \in SequencedOf(ch),
              NEW i \in 1 .. (l + (n + 1)), NEW j \in 1 .. (l + (n + 1)),
              i < j, new[i] = m, new[j] = k
       PROVE  m < k
  <2>1. \A q \in 1 .. (l + (n + 1)) : q > l => new[q] \notin SequencedOf(ch)
    BY <1>0, <1>7, OneStream
  <2>2. i \in 1 .. l /\ j \in 1 .. l
    BY <1>5, <1>12, <2>1
  <2>3. QED
    BY <1>0, <1>6, <1>12, <2>2 DEF PromiseInv, ArrivalInv
<1>13. ArrivalInv'
  BY <1>0, <1>1, <1>4, <1>10, <1>11, <1>12 DEF ArrivalInv
<1>14. Outputs' = Outputs \cup {new[i] : i \in (l + 1) .. (l + (n + 1))}
  <2>1. output \in Seq(Messages) /\ n + 1 \in Nat
    BY DEF IInv, DeliveryInv
  <2>2. PICK n1 \in Nat : n1 = n + 1
    BY <2>1
  <2>3. Outputs' = Outputs \cup {output'[i] : i \in (l + 1) .. (l + n1)}
    BY <1>0, <2>1, <2>2, LaterOutputs
  <2>4. QED
    BY <1>4, <2>2, <2>3
<1>15. \A i \in (l + 1) .. (l + (n + 1)) : i \in 1 .. (l + (n + 1)) /\ i > l
  OBVIOUS
<1>16. ASSUME NEW m \in S
       PROVE  m \in Outputs' <=> Cardinality(Before(m, S)) < r + n + 1
  <2>1. PICK q \in Nat : q = Cardinality(Before(m, S))
    BY <1>8
  <2>2. CASE q < r
    BY <1>3, <1>14, <2>1, <2>2
  <2>3. CASE r =< q /\ q < r + n + 1
    <3>1. q =< r + n
      BY <1>3, <2>3
    <3>2. PICK j \in (l + 1) .. (l + 1 + n) : new[j] = m
      BY <1>9, <2>1, <2>3, <3>1
    <3>3. j \in (l + 1) .. (l + (n + 1))
      OBVIOUS
    <3>4. QED
      BY <1>14, <2>1, <2>3, <3>2, <3>3
  <2>4. CASE r + n + 1 =< q
    <3>1. ASSUME NEW i \in (l + 1) .. (l + (n + 1)), new[i] = m
          PROVE  FALSE
      <4>1. q = r + (i - l - 1)
        BY <1>7, <1>15, <2>1, <3>1
      <4>2. QED
        BY <1>3, <2>4, <4>1
    <3>2. m \notin Outputs
      BY <1>3, <2>1, <2>4
    <3>3. QED
      BY <1>3, <1>14, <2>1, <2>4, <3>1, <3>2
  <2>5. QED
    BY <1>3, <2>2, <2>3, <2>4
<1>17. Outputs \subseteq Outputs' /\ Outputs' \subseteq Outputs \cup S
  BY <1>7, <1>14, <1>15
<1>18. r + n + 1 =< Cardinality(S)
  <2>1. PICK i \in 1 .. (l + (n + 1)) : i = l + (n + 1) /\ i > l /\ i - l - 1 = n
    OBVIOUS
  <2>2. new[i] \in S /\ Cardinality(Before(new[i], S)) = r + n
    BY <1>7, <2>1
  <2>3. r + n < Cardinality(S)
    BY <1>8, <2>2
  <2>4. QED
    BY <1>3, <2>3
<1>19. QED
  BY <1>13, <1>16, <1>17, <1>18

\* The place of an ordered packet in its channel.
LEMMA OrderedPlace ==
    ASSUME IInv, NEW p, Genuine(p), Ordered(p.kind), NEW S, S = OrderedOf(p.kind.ch)
    PROVE  /\ p.msg \in S /\ S \in SUBSET (1 .. Len(sent)) /\ Len(sent) \in Nat
           /\ Rank(p.idx) = Cardinality(Before(p.msg, S))
           /\ Rank(p.idx) \in Nat /\ Rank(p.idx) < Len(sent)
           /\ Len(sent) =< MaxPackets /\ MaxPackets \in Nat
           /\ p.idx \in 0 .. (OrderRange - 1) /\ p.kind.ch \in Channels
<1> USE DEF IInv
<1>1. /\ p.msg \in Messages /\ p.kind = sent[p.msg].kind
      /\ Rank(p.idx) = Cardinality(Before(p.msg, S))
  BY DEF Genuine
<1>2. p.msg \in S
  BY <1>1 DEF OrderedOf
<1>3. S \in SUBSET (1 .. Len(sent)) /\ Len(sent) \in Nat /\ Len(sent) =< MaxPackets
  BY StreamFacts
<1>4. Cardinality(S) \in 0 .. Len(sent)
  BY StreamFacts
<1>5. Cardinality(Before(p.msg, S)) \in 0 .. (Cardinality(S) - 1)
  BY <1>2, <1>3, Places
<1>6. Rank(p.idx) \in Nat /\ Rank(p.idx) < Len(sent)
  BY <1>1, <1>3, <1>4, <1>5
<1>7. p.idx \in 0 .. (OrderRange - 1) /\ p.kind.ch \in Channels
  BY PacketFacts
<1>8. QED
  BY <1>1, <1>2, <1>3, <1>6, <1>7, ReliabilityAssumption

\* Not more messages wait than were sent.
LEMMA FewWait ==
    ASSUME IInv, PromiseInv
    PROVE  Cardinality(orderingList) \in Nat /\ Cardinality(orderingList) =< MaxPackets
<1> DEFINE name == [p \in orderingList |-> p.msg]
<1>1. PICK L \in Nat : L = Len(sent) /\ L =< MaxPackets
  BY StreamFacts DEF IInv
<1>2. \A p \in orderingList : p.msg \in 1 .. L
  BY <1>1 DEF IInv, PacketInv, Genuine, Messages
<1>3. name \in Injection(orderingList, 1 .. L)
  BY <1>2 DEF PromiseInv, OnceInv, Injection, IsInjective
<1>4. IsFiniteSet(1 .. L) /\ Cardinality(1 .. L) = L
  BY FS_Interval
<1>5. IsFiniteSet(orderingList) /\ Cardinality(orderingList) =< L
  BY <1>3, <1>4, FS_Injection
<1>6. Cardinality(orderingList) \in Nat
  BY <1>5, FS_CardinalityType
<1>7. QED
  BY <1>1, <1>5, <1>6, ReliabilityAssumption

\* A step that hands nothing over.
LEMMA NothingArrives ==
    ASSUME PromiseInv, sent' = sent, output' = output, orderedRead' = orderedRead,
           sequencedRead' = sequencedRead
    PROVE  ArrivalInv' /\ OrderInv' /\ LatestInv' /\ Outputs' = Outputs
<1>1. \A ch : OrderedOf(ch)' = OrderedOf(ch) /\ SequencedOf(ch)' = SequencedOf(ch)
  BY NothingSent
<1>2. Outputs' = Outputs
  BY DEF Outputs
<1>3. ArrivalInv'
  BY <1>1 DEF PromiseInv, ArrivalInv
<1>4. OrderInv'
  BY <1>1, <1>2 DEF PromiseInv, OrderInv, Before, Rank
<1>5. LatestInv'
  BY <1>1, <1>2 DEF PromiseInv, LatestInv, Before, Rank
<1>6. QED
  BY <1>2, <1>3, <1>4, <1>5

\* A packet that is new is of a message that does not wait.
LEMMA NewDoesNotWait ==
    ASSUME IInv, NEW p, Genuine(p), ~Counted(Off(p.num))
    PROVE  p.msg \notin Outputs /\ \A b \in orderingList : b.msg # p.msg
<1>1. Off(p.num) \in Span(p.msg)
  BY PacketFacts DEF IInv
<1>2. QED
  BY <1>1 DEF IInv, DeliveryInv

\* An ordered message whose turn it is takes along those that waited for it.
LEMMA TurnArrives ==
    ASSUME IInv, PromiseInv, sent' = sent, sequencedRead' = sequencedRead,
           NEW p, Genuine(p), Ordered(p.kind), ~Counted(Off(p.num)),
           p.idx = orderedRead[p.kind.ch], NEW n, NEW run, Turn(p, n, run)
    PROVE  PromiseInv'
<1>1. PICK c, S, r, l : /\ c = p.kind.ch /\ S = OrderedOf(c) /\ r = Rank(orderedRead[c])
                        /\ l = Len(output)
  OBVIOUS
<1>2. /\ p.msg \in S /\ S \in SUBSET (1 .. Len(sent)) /\ Len(sent) \in Nat
      /\ Rank(p.idx) = Cardinality(Before(p.msg, S))
      /\ Rank(p.idx) \in Nat /\ Rank(p.idx) < Len(sent)
      /\ Len(sent) =< MaxPackets /\ MaxPackets \in Nat
      /\ p.idx \in 0 .. (OrderRange - 1) /\ c \in Channels
  BY <1>1, OrderedPlace
<1>3. Rank(p.idx) = r /\ l \in Nat /\ p.idx = orderedRead[c]
  BY <1>1 DEF IInv, DeliveryInv
<1>4. /\ n \in Nat /\ n =< MaxPackets
      /\ \A j \in 1 .. n : /\ run[j] \in orderingList /\ run[j].kind.ch = c
                            /\ run[j].idx = OrderSum(p.idx, j)
  <2>1. Cardinality(orderingList) \in Nat /\ Cardinality(orderingList) =< MaxPackets
    BY FewWait
  <2>2. n \in Nat /\ n =< Cardinality(orderingList)
    BY DEF Turn
  <2>3. QED
    BY <1>1, <1>2, <2>1, <2>2 DEF Turn
<1>5. ASSUME NEW j \in 1 .. n
      PROVE  run[j].msg \in S /\ Cardinality(Before(run[j].msg, S)) = r + j
  <2>1. PICK b \in orderingList : b = run[j] /\ b.kind.ch = c /\ b.idx = OrderSum(p.idx, j)
    BY <1>4
  <2>2. Genuine(b) /\ Ordered(b.kind)
    BY DEF IInv, PacketInv, PromiseInv, OnceInv
  <2>3. b.msg \in S /\ Rank(b.idx) = Cardinality(Before(b.msg, S))
    BY <1>1, <2>1, <2>2, OrderedPlace
  <2>4. Rank(p.idx) + j < OrderRange /\ j \in Nat
    BY <1>2, <1>4, ReliabilityAssumption
  <2>5. Rank(b.idx) = Rank(p.idx) + j
    BY <1>2, <2>1, <2>4, RankOfSum
  <2>6. QED
    BY <1>3, <2>1, <2>3, <2>5
<1>6. ASSUME NEW j \in 0 .. n
      PROVE  /\ output'[l + 1 + j] \in S
             /\ Cardinality(Before(output'[l + 1 + j], S)) = r + j
  <2>1. CASE j = 0
    <3>1. output'[l + 1] = p.msg
      BY <1>1 DEF Turn
    <3>2. l + 1 + j = l + 1 /\ r + j = r
      BY <1>2, <1>3, <2>1
    <3>3. QED
      BY <1>2, <1>3, <3>1, <3>2
  <2>2. CASE j # 0
    <3>1. j \in 1 .. n
      BY <1>4, <2>2
    <3>2. output'[l + 1 + j] = run[j].msg
      BY <1>1, <3>1 DEF Turn
    <3>3. QED
      BY <1>5, <3>1, <3>2
  <2>3. QED
    BY <2>1, <2>2
<1>7. /\ ArrivalInv'
      /\ \A m \in S : m \in Outputs' <=> Cardinality(Before(m, S)) < r + n + 1
      /\ Outputs \subseteq Outputs' /\ Outputs' \subseteq Outputs \cup S
      /\ r + n + 1 =< Cardinality(S)
  <2>1. Len(output') = l + (n + 1)
    <3>1. Len(output') = l + 1 + n
      BY <1>1 DEF Turn
    <3>2. QED
      BY <1>3, <1>4, <3>1
  <2>2. \A i \in 1 .. l : output'[i] = output[i]
    BY <1>1 DEF Turn
  <2>3. NextInOrder(c, r, S, n, l)
    BY <1>1, <1>6, <2>1, <2>2 DEF NextInOrder
  <2>4. QED
    BY <1>2, <1>3, <1>4, <2>3, RunArrives
<1>8. \A ch : OrderedOf(ch)' = OrderedOf(ch) /\ SequencedOf(ch)' = SequencedOf(ch)
  BY NothingSent
<1>9. OnceInv'
  <2>1. orderingList' = orderingList \ {run[j] : j \in 1 .. n}
    BY DEF Turn
  <2>2. Outputs' = Outputs \cup {p.msg} \cup {run[j].msg : j \in 1 .. n}
    BY DEF Turn
  <2>3. ASSUME NEW b \in orderingList'
        PROVE  Ordered(b.kind) /\ b.msg \notin Outputs'
    <3>1. b \in orderingList /\ \A j \in 1 .. n : b # run[j]
      BY <2>1
    <3>2. b.msg \notin Outputs /\ b.msg # p.msg /\ Ordered(b.kind)
      BY <3>1, NewDoesNotWait DEF PromiseInv, OnceInv
    <3>3. \A j \in 1 .. n : b.msg # run[j].msg
      BY <1>4, <3>1 DEF PromiseInv, OnceInv
    <3>4. QED
      BY <2>2, <3>2, <3>3
  <2>4. \A q, b \in orderingList' : q.msg = b.msg => q = b
    BY <2>1 DEF PromiseInv, OnceInv
  <2>5. QED
    BY <2>3, <2>4 DEF OnceInv
<1>10. /\ orderedRead \in [Channels -> 0 .. (OrderRange - 1)]
       /\ orderedRead' = [orderedRead EXCEPT ![c] = OrderSum(p.idx, n + 1)]
  BY <1>1, <1>3 DEF Turn, IInv, SequenceInv
<1>11. Rank(OrderSum(p.idx, n + 1)) = r + n + 1
  <2>1. Cardinality(S) \in 0 .. Len(sent)
    BY <1>2, Places
  <2>2. r + (n + 1) < OrderRange /\ n + 1 \in Nat
    BY <1>2, <1>3, <1>4, <1>7, <2>1, ReliabilityAssumption
  <2>3. Rank(OrderSum(p.idx, n + 1)) = Rank(p.idx) + (n + 1)
    BY <1>2, <1>3, <2>2, RankOfSum
  <2>4. QED
    BY <1>2, <1>3, <1>4, <2>3
<1>12. ASSUME NEW ch \in Channels
       PROVE  /\ Rank(orderedRead'[ch]) =< Cardinality(OrderedOf(ch))
              /\ \A m \in OrderedOf(ch) : m \in Outputs' <=>
                    Cardinality(Before(m, OrderedOf(ch))) < Rank(orderedRead'[ch])
  <2>1. CASE ch = c
    <3>1. Rank(orderedRead'[ch]) = r + n + 1
      BY <1>2, <1>10, <1>11, <2>1
    <3>2. QED
      BY <1>1, <1>7, <2>1, <3>1
  <2>2. CASE ch # c
    <3>1. orderedRead'[ch] = orderedRead[ch]
      BY <1>10, <2>2
    <3>2. \A m \in OrderedOf(ch) : m \in Outputs' <=> m \in Outputs
      BY <1>1, <1>7, <2>2, OneStream
    <3>3. QED
      BY <3>1, <3>2 DEF PromiseInv, OrderInv
  <2>3. QED
    BY <2>1, <2>2
<1>13. OrderInv'
  BY <1>8, <1>12 DEF OrderInv, Before, Rank
<1>14. LatestInv'
  <2>1. \A ch : Outputs' \cap SequencedOf(ch) \subseteq Outputs \cap SequencedOf(ch)
    BY <1>1, <1>7, OneStream
  <2>2. \A ch \in Channels : \A k \in Outputs' \cap SequencedOf(ch) :
            Cardinality(Before(k, SequencedOf(ch))) < Rank(sequencedRead'[ch])
    BY <2>1 DEF PromiseInv, LatestInv
  <2>3. QED
    BY <1>8, <2>2 DEF LatestInv, Before, Rank
<1>15. QED
  BY <1>7, <1>9, <1>13, <1>14 DEF PromiseInv

\* What a new packet does, with the conditions under which it does it.
LEMMA AcceptCases ==
    ASSUME NEW p, NEW splits, Accept(p, splits)
    PROVE  \/ UNCHANGED <<output, orderedRead, sequencedRead, orderingList>>
           \/ /\ Sequenced(p.kind) /\ PushSequenced(p)
              /\ ~IsOlderOrderedPacket(p.idx, sequencedRead[p.kind.ch])
           \/ Ordered(p.kind) /\ PushOrdered(p) /\ UNCHANGED sequencedRead
           \/ /\ ~Sequenced(p.kind) /\ ~Ordered(p.kind)
              /\ output' = Append(output, p.msg)
              /\ UNCHANGED <<orderedRead, sequencedRead, orderingList>>
  BY DEF Accept

\* A sequenced message is handed over after earlier ones only.
LEMMA LatestArrives ==
    ASSUME 2 * MaxPackets + 2 < OrderRange, IInv, PromiseInv, sent' = sent,
           NEW p, Genuine(p), Sequenced(p.kind), ~Counted(Off(p.num)), PushSequenced(p),
           ~IsOlderOrderedPacket(p.idx, sequencedRead[p.kind.ch])
    PROVE  PromiseInv'
<1>1. PICK c, S, w : c = p.kind.ch /\ S = SequencedOf(c) /\ w = sequencedRead[c]
  OBVIOUS
<1>2. /\ p.msg \in S /\ S \in SUBSET (1 .. Len(sent)) /\ Len(sent) \in Nat
      /\ Rank(p.idx) = Cardinality(Before(p.msg, S))
      /\ Rank(p.idx) \in Nat /\ Rank(p.idx) < Len(sent)
      /\ Len(sent) =< MaxPackets /\ MaxPackets \in Nat
      /\ p.idx \in 0 .. (OrderRange - 1) /\ c \in Channels
  BY <1>1, SequencedPlace DEF IInv
<1>3. p.msg \in Messages /\ p.msg \notin Outputs /\ \A b \in orderingList : b.msg # p.msg
  BY NewDoesNotWait DEF Genuine
<1>4. /\ output' \in Seq(Messages) /\ Outputs' = Outputs \cup {p.msg}
      /\ orderingList' = orderingList /\ orderedRead' = orderedRead
      /\ sequencedRead' = [sequencedRead EXCEPT ![c] = OrderSum(p.idx, 1)]
  BY <1>1, SequencedFacts
<1>5. w \in 0 .. (OrderRange - 1) /\ Rank(w) \in Nat /\ Rank(w) =< MaxPackets
  <2>1. w \in 0 .. (OrderRange - 1)
    BY <1>1, <1>2 DEF IInv, SequenceInv
  <2>2. Rank(w) \in Nat
    BY <2>1, RankRange, ReliabilityAssumption
  <2>3. CASE w = OrderStart
    BY <1>2, <2>1, <2>2, <2>3, RankOfStart
  <2>4. ASSUME NEW k \in Outputs \cap S, Rank(w) = Cardinality(Before(k, S)) + 1
        PROVE  Rank(w) =< MaxPackets
    <3>1. PICK q : q = Cardinality(Before(k, S))
      OBVIOUS
    <3>2. q \in Nat /\ Cardinality(S) \in Nat /\ q < Cardinality(S)
      BY <1>2, <3>1, PlacesTellApart
    <3>3. Cardinality(S) =< Len(sent)
      BY <1>2, Places
    <3>4. QED
      BY <1>2, <2>4, <3>1, <3>2, <3>3
  <2>5. w = OrderStart \/ \E k \in Outputs \cap S : Rank(w) = Cardinality(Before(k, S)) + 1
    BY <1>1, <1>2 DEF IInv, SequenceInv
  <2>6. QED
    BY <2>1, <2>2, <2>3, <2>4, <2>5
<1>6. Rank(w) =< Rank(p.idx)
  <2>1. ~IsOlderOrderedPacket(p.idx, w)
    BY <1>1
  <2>2. PICK a, b \in Nat : a = Rank(w) /\ b = Rank(p.idx)
    BY <1>2, <1>5
  <2>3. ~(b < a)
    BY <1>2, <1>5, <2>1, <2>2, OlderIsSeen
  <2>4. QED
    BY <2>2, <2>3
<1>7. ASSUME NEW k \in Outputs \cap S
      PROVE  k < p.msg
  <2>1. Cardinality(Before(k, S)) < Rank(w)
    BY <1>1, <1>2 DEF PromiseInv, LatestInv
  <2>2. Cardinality(Before(k, S)) \in Nat
    BY <1>2, PlacesTellApart
  <2>3. Cardinality(Before(k, S)) < Cardinality(Before(p.msg, S))
    BY <1>2, <1>5, <1>6, <2>1, <2>2
  <2>4. QED
    BY <1>2, <2>3, PlacesTellApart
<1>8. ArrivalInv'
  <2>1. \A ch : p.msg \notin OrderedOf(ch)
    BY <1>1, <1>2, OneStream
  <2>2. \A ch \in Channels : p.msg \in SequencedOf(ch) =>
            \A k \in Outputs \cap SequencedOf(ch) : k < p.msg
    BY <1>1, <1>2, <1>7, OneStream
  <2>3. output' = Append(output, p.msg)
    BY DEF PushSequenced
  <2>4. QED
    BY <1>3, <2>1, <2>2, <2>3, OneMoreArrives
<1>9. \A ch : OrderedOf(ch)' = OrderedOf(ch) /\ SequencedOf(ch)' = SequencedOf(ch)
  BY NothingSent
<1>10. OnceInv'
  BY <1>3, <1>4 DEF PromiseInv, OnceInv
<1>11. OrderInv'
  <2>1. \A ch : \A m \in OrderedOf(ch) : m \in Outputs' <=> m \in Outputs
    BY <1>1, <1>2, <1>4, OneStream
  <2>2. QED
    BY <1>4, <1>9, <2>1 DEF PromiseInv, OrderInv, Before, Rank
<1>12. sequencedRead \in [Channels -> 0 .. (OrderRange - 1)]
  BY DEF IInv, SequenceInv
<1>13. Rank(OrderSum(p.idx, 1)) = Rank(p.idx) + 1
  <2>1. Rank(p.idx) + 1 < OrderRange
    BY <1>2, ReliabilityAssumption
  <2>2. QED
    BY <1>2, <2>1, RankOfSum
<1>14. ASSUME NEW ch \in Channels, NEW k \in Outputs' \cap SequencedOf(ch)
       PROVE  Cardinality(Before(k, SequencedOf(ch))) < Rank(sequencedRead'[ch])
  <2>1. CASE ch = c
    <3>1. Rank(sequencedRead'[ch]) = Rank(p.idx) + 1
      BY <1>2, <1>4, <1>12, <1>13, <2>1
    <3>2. k \in S /\ (k = p.msg \/ k < p.msg)
      BY <1>1, <1>4, <1>7, <1>14, <2>1
    <3>2a. /\ Cardinality(Before(k, S)) \in Nat /\ Cardinality(Before(p.msg, S)) \in Nat
           /\ k < p.msg => Cardinality(Before(k, S)) < Cardinality(Before(p.msg, S))
      BY <1>2, <3>2, PlacesTellApart
    <3>2b. Cardinality(Before(k, S)) =< Cardinality(Before(p.msg, S))
      BY <3>2, <3>2a
    <3>3. PICK a, b \in Nat : /\ a = Cardinality(Before(k, S)) /\ b = Cardinality(Before(p.msg, S))
                              /\ a =< b
      BY <3>2a, <3>2b
    <3>4. QED
      BY <1>1, <1>2, <2>1, <3>1, <3>3
  <2>2. CASE ch # c
    <3>1. sequencedRead'[ch] = sequencedRead[ch]
      BY <1>4, <1>12, <2>2
    <3>2. k \in Outputs \cap SequencedOf(ch)
      BY <1>1, <1>2, <1>4, <2>2, OneStream
    <3>3. QED
      BY <3>1, <3>2 DEF PromiseInv, LatestInv
  <2>3. QED
    BY <2>1, <2>2
<1>15. LatestInv'
  BY <1>9, <1>14 DEF LatestInv, Before, Rank
<1>16. QED
  BY <1>8, <1>10, <1>11, <1>15 DEF PromiseInv

\* A message without an index is handed over.
LEMMA PlainArrives ==
    ASSUME IInv, PromiseInv, sent' = sent, NEW p, Genuine(p), ~Counted(Off(p.num)),
           ~Sequenced(p.kind), ~Ordered(p.kind), output' = Append(output, p.msg),
           UNCHANGED <<orderedRead, sequencedRead, orderingList>>
    PROVE  PromiseInv'
<1>1. p.msg \in Messages /\ p.msg \notin Outputs /\ \A b \in orderingList : b.msg # p.msg
  BY NewDoesNotWait DEF Genuine
<1>2. \A ch : p.msg \notin OrderedOf(ch) /\ p.msg \notin SequencedOf(ch)
  BY DEF OrderedOf, SequencedOf, Genuine
<1>3. Outputs' = Outputs \cup {p.msg}
  BY <1>1, OneMoreOut DEF IInv, DeliveryInv
<1>4. ArrivalInv'
  BY <1>1, <1>2, OneMoreArrives
<1>5. \A ch : OrderedOf(ch)' = OrderedOf(ch) /\ SequencedOf(ch)' = SequencedOf(ch)
  BY NothingSent
<1>6. OnceInv'
  BY <1>1, <1>3 DEF PromiseInv, OnceInv
<1>7. OrderInv'
  <2>1. \A ch : \A m \in OrderedOf(ch) : m \in Outputs' <=> m \in Outputs
    BY <1>2, <1>3
  <2>2. QED
    BY <1>5, <2>1 DEF PromiseInv, OrderInv, Before, Rank
<1>8. LatestInv'
  <2>1. \A ch : Outputs' \cap SequencedOf(ch) = Outputs \cap SequencedOf(ch)
    BY <1>2, <1>3
  <2>2. QED
    BY <1>5, <2>1 DEF PromiseInv, LatestInv, Before, Rank
<1>9. QED
  BY <1>4, <1>6, <1>7, <1>8 DEF PromiseInv

\* An ordered message that comes too early waits.
LEMMA EarlyWaits ==
    ASSUME IInv, PromiseInv, sent' = sent, NEW p, Genuine(p), ~Counted(Off(p.num)),
           Ordered(p.kind), orderingList' = orderingList \cup {p},
           UNCHANGED <<output, orderedRead, sequencedRead>>
    PROVE  PromiseInv'
<1>1. p.msg \notin Outputs /\ \A b \in orderingList : b.msg # p.msg
  BY NewDoesNotWait
<1>2. ArrivalInv' /\ OrderInv' /\ LatestInv' /\ Outputs' = Outputs
  BY NothingArrives
<1>3. OnceInv'
  BY <1>1, <1>2 DEF PromiseInv, OnceInv
<1>4. QED
  BY <1>2, <1>3 DEF PromiseInv

LEMMA NewKeepsPromise ==
    ASSUME 2 * MaxPackets + 2 < OrderRange, IInv, PromiseInv, NEW p \in net, ReceiveNew(p)
    PROVE  PromiseInv'
<1>1. Genuine(p) /\ ~Counted(Off(p.num))
  <2>1. Genuine(p)
    BY DEF IInv, PacketInv
  <2>2. p.num \in 0 .. (MessageRange - 1) /\ Off(p.num) =< Total
    BY <2>1, PacketFacts, Bounds DEF IInv
  <2>3. QED
    BY <2>1, <2>2, WindowCounts DEF IInv, ReceiveNew
<1>2. sent' = sent
  BY DEF ReceiveNew, senderVars
<1>3. PICK splits : Accept(p, splits)
  BY DEF ReceiveNew
<1>4. CASE UNCHANGED <<output, orderedRead, sequencedRead, orderingList>>
  <2>1. ArrivalInv' /\ OrderInv' /\ LatestInv' /\ Outputs' = Outputs
    BY <1>2, <1>4, NothingArrives
  <2>2. QED
    BY <1>4, <2>1 DEF PromiseInv, OnceInv
<1>5. CASE /\ Sequenced(p.kind) /\ PushSequenced(p)
           /\ ~IsOlderOrderedPacket(p.idx, sequencedRead[p.kind.ch])
  BY <1>1, <1>2, <1>5, LatestArrives
<1>6. CASE Ordered(p.kind) /\ PushOrdered(p) /\ UNCHANGED sequencedRead
  <2>1. CASE p.idx = orderedRead[p.kind.ch]
    <3>1. PICK n, run : Turn(p, n, run)
      BY <1>1, <1>6, <2>1, TurnFacts
    <3>2. QED
      BY <1>1, <1>2, <1>6, <2>1, <3>1, TurnArrives
  <2>2. CASE p.idx # orderedRead[p.kind.ch]
    <3>1. orderingList' = orderingList \cup {p} /\ UNCHANGED <<output, orderedRead>>
      BY <1>6, <2>2 DEF PushOrdered
    <3>2. QED
      BY <1>1, <1>2, <1>6, <3>1, EarlyWaits
  <2>3. QED
    BY <2>1, <2>2
<1>7. CASE /\ ~Sequenced(p.kind) /\ ~Ordered(p.kind)
           /\ output' = Append(output, p.msg)
           /\ UNCHANGED <<orderedRead, sequencedRead, orderingList>>
  BY <1>1, <1>2, <1>7, PlainArrives
<1>8. QED
  BY <1>3, <1>4, <1>5, <1>6, <1>7, AcceptCases

\* A message that is sent comes after all others.
LEMMA SendKeepsPromise ==
    ASSUME IInv, PromiseInv, NEW kind \in Traffic, Send(kind)
    PROVE  PromiseInv'
<1>1. PICK l \in Nat : l = Len(sent) + 1
  BY StreamFacts DEF IInv
<1>2. PICK e : e = [kind |-> kind, num |-> messageNumber]
  OBVIOUS
<1>3. SentInv /\ sent' = Append(sent, e)
  BY <1>2 DEF Send, IInv
<1>4. /\ sequencedRead' = sequencedRead /\ orderedRead' = orderedRead
      /\ orderingList' = orderingList /\ output' = output /\ Outputs' = Outputs
  BY DEF Send, receiverVars, orderVars, Outputs
<1>5. /\ Messages' = Messages \cup {l}
      /\ \A m \in Messages :
           /\ m \in Nat /\ m < l
           /\ \A ch : /\ Before(m, SequencedOf(ch))' = Before(m, SequencedOf(ch))
                      /\ Before(m, OrderedOf(ch))' = Before(m, OrderedOf(ch))
  BY <1>1, <1>3, OneMoreSent
<1>6. \A ch : /\ Before(l, OrderedOf(ch))' = OrderedOf(ch)
              /\ OrderedOf(ch)' = OrderedOf(ch) \/ OrderedOf(ch)' = OrderedOf(ch) \cup {l}
              /\ SequencedOf(ch)' = SequencedOf(ch) \/ SequencedOf(ch)' = SequencedOf(ch) \cup {l}
  BY <1>1, <1>3, OneMoreSent
<1>7. /\ \A i \in 1 .. Len(output) : output[i] \in Messages
      /\ l \notin Outputs /\ Outputs \subseteq Messages
  BY <1>5 DEF IInv, DeliveryInv, Outputs
<1>8. \A ch : OrderedOf(ch) \subseteq Messages /\ SequencedOf(ch) \subseteq Messages
  BY DEF OrderedOf, SequencedOf
<1>9. ArrivalInv'
  <2>1. ASSUME NEW ch \in Channels, NEW m \in OrderedOf(ch)', NEW k \in OrderedOf(ch)',
               NEW i \in 1 .. Len(output), m < k, output[i] = k
        PROVE  \E j \in 1 .. (i - 1) : output[j] = m
    <3>1. k \in Messages /\ k # l /\ k < l /\ k \in Nat
      BY <1>5, <1>7, <2>1
    <3>2. m # l
      BY <1>1, <2>1, <3>1
    <3>3. m \in OrderedOf(ch) /\ k \in OrderedOf(ch)
      BY <1>6, <2>1, <3>1, <3>2
    <3>4. QED
      BY <2>1, <3>3 DEF PromiseInv, ArrivalInv
  <2>2. ASSUME NEW ch \in Channels, NEW m \in SequencedOf(ch)', NEW k \in SequencedOf(ch)',
               NEW i \in 1 .. Len(output), NEW j \in 1 .. Len(output),
               i < j, output[i] = m, output[j] = k
        PROVE  m < k
    <3>1. m \in Messages /\ k \in Messages /\ m # l /\ k # l
      BY <1>5, <1>7, <2>2
    <3>2. m \in SequencedOf(ch) /\ k \in SequencedOf(ch)
      BY <1>6, <2>2, <3>1
    <3>3. QED
      BY <2>2, <3>2 DEF PromiseInv, ArrivalInv
  <2>3. \A i, j \in 1 .. Len(output) : output[i] = output[j] => i = j
    BY DEF PromiseInv, ArrivalInv
  <2>4. QED
    BY <1>4, <2>1, <2>2, <2>3 DEF ArrivalInv
<1>10. OnceInv'
  BY <1>4 DEF PromiseInv, OnceInv
<1>11. ASSUME NEW ch \in Channels
       PROVE  /\ Rank(orderedRead[ch]) =< Cardinality(OrderedOf(ch)')
              /\ \A m \in OrderedOf(ch)' :
                   m \in Outputs <=> Cardinality(Before(m, OrderedOf(ch))') < Rank(orderedRead[ch])
  <2>1. PICK c \in Nat, r \in Nat : /\ c = Cardinality(OrderedOf(ch)) /\ r = Rank(orderedRead[ch])
                                    /\ r =< c
    <3>1. Cardinality(OrderedOf(ch)) \in Nat
      BY <1>3, StreamFacts
    <3>2. PICK w \in Int : w = orderedRead[ch]
      BY ReliabilityAssumption DEF IInv, SequenceInv
    <3>3. Rank(w) \in 0 .. (OrderRange - 1)
      BY RankRange
    <3>4. Rank(orderedRead[ch]) \in Nat
      BY <3>2, <3>3, ReliabilityAssumption
    <3>5. QED
      BY <3>1, <3>4 DEF PromiseInv, OrderInv
  <2>2. r =< Cardinality(OrderedOf(ch)')
    <3>1. IsFiniteSet(OrderedOf(ch))
      BY <1>3, StreamFacts
    <3>2. Cardinality(OrderedOf(ch) \cup {l}) = c \/ Cardinality(OrderedOf(ch) \cup {l}) = c + 1
      BY <2>1, <3>1, FS_AddElement
    <3>3. PICK T : T = OrderedOf(ch)'
      OBVIOUS
    <3>4. T = OrderedOf(ch) \/ T = OrderedOf(ch) \cup {l}
      BY <1>6, <3>3
    <3>5. Cardinality(T) = c \/ Cardinality(T) = c + 1
      BY <2>1, <3>2, <3>4
    <3>6. r =< Cardinality(T)
      BY <2>1, <3>5
    <3>7. QED
      BY <3>3, <3>6
  <2>3. ASSUME NEW m \in OrderedOf(ch)'
        PROVE  m \in Outputs <=> Cardinality(Before(m, OrderedOf(ch))') < r
    <3>1. CASE m \in OrderedOf(ch)
      <4>1. Before(m, OrderedOf(ch))' = Before(m, OrderedOf(ch))
        BY <1>5, <1>8, <3>1
      <4>2. m \in Outputs <=> Cardinality(Before(m, OrderedOf(ch))) < r
        BY <2>1, <3>1 DEF PromiseInv, OrderInv
      <4>3. QED
        BY <4>1, <4>2
    <3>2. CASE m = l
      <4>1. Before(m, OrderedOf(ch))' = OrderedOf(ch)
        BY <1>6, <3>2
      <4>2. ~(c < r)
        BY <2>1
      <4>3. QED
        BY <1>7, <2>1, <3>2, <4>1, <4>2
    <3>3. QED
      BY <1>6, <3>1, <3>2
  <2>4. QED
    BY <2>1, <2>2, <2>3
<1>12. OrderInv'
  BY <1>4, <1>11 DEF OrderInv, Rank
<1>13. LatestInv'
  <2>1. ASSUME NEW ch \in Channels, NEW k \in Outputs \cap SequencedOf(ch)'
        PROVE  Cardinality(Before(k, SequencedOf(ch))') < Rank(sequencedRead[ch])
    <3>1. k \in SequencedOf(ch)
      BY <1>6, <1>7
    <3>2. Before(k, SequencedOf(ch))' = Before(k, SequencedOf(ch))
      BY <1>5, <1>8, <3>1
    <3>3. QED
      BY <3>1, <3>2 DEF PromiseInv, LatestInv
  <2>2. QED
    BY <1>4, <2>1 DEF LatestInv, Rank
<1>14. QED
  BY <1>9, <1>10, <1>12, <1>13 DEF PromiseInv

\* No other step changes what was sent, handed over or waits.
LEMMA QuietKeepsPromise ==
    ASSUME PromiseInv, sent' = sent, UNCHANGED orderVars
    PROVE  PromiseInv'
<1>1. ArrivalInv' /\ OrderInv' /\ LatestInv' /\ Outputs' = Outputs
  BY NothingArrives DEF orderVars
<1>2. OnceInv'
  BY <1>1 DEF PromiseInv, OnceInv, orderVars
<1>3. QED
  BY <1>1, <1>2 DEF PromiseInv

\* What a step does for the user of the library: it sends, it may hand something over, or
\* it changes neither what was sent nor what was handed over.
LEMMA StepsForUser ==
    ASSUME [Next]_vars
    PROVE  \/ \E kind \in Traffic : Send(kind)
           \/ \E p \in net : ReceiveNew(p)
           \/ sent' = sent /\ UNCHANGED orderVars
  BY DEF Next, Transmit, Resend, GiveUpConnection, Lose, ReceiveDuplicate, Acknowledge,
         senderVars, receiverVars, vars

LEMMA InitPromise == Init => PromiseInv
<1> SUFFICES ASSUME Init
             PROVE  PromiseInv
  OBVIOUS
<1>1. sent = <<>> /\ output = <<>> /\ orderingList = {} /\ Len(output) = 0
  BY DEF Init
<1>2. Messages = {} /\ Outputs = {}
  BY <1>1 DEF Messages, Outputs
<1>3. \A ch : SequencedOf(ch) = {} /\ OrderedOf(ch) = {}
  BY <1>2 DEF SequencedOf, OrderedOf
<1>4. ASSUME NEW ch \in Channels
      PROVE  Rank(orderedRead[ch]) =< Cardinality(OrderedOf(ch))
  <2>1. orderedRead = [c \in Channels |-> OrderStart]
    BY DEF Init
  <2>2. Rank(orderedRead[ch]) = 0 /\ Cardinality(OrderedOf(ch)) = 0
    BY <1>3, <2>1, FS_EmptySet, RankOfStart
  <2>3. QED
    BY <2>2
<1>5. QED
  BY <1>1, <1>2, <1>3, <1>4 DEF PromiseInv, ArrivalInv, OnceInv, OrderInv, LatestInv

LEMMA NextPromise ==
    ASSUME 2 * MaxPackets + 2 < OrderRange, IInv, PromiseInv, [Next]_vars
    PROVE  PromiseInv'
  BY StepsForUser, SendKeepsPromise, NewKeepsPromise, QuietKeepsPromise

-----------------------------------------------------------------------------
(* The refinement of MessageChannel. *)

\* The promises, of what was handed over.
LEMMA KeepsPromises == IInv /\ PromiseInv => Promise!Promised(output)
<1> SUFFICES ASSUME IInv, PromiseInv
             PROVE  Promise!Promised(output)
  OBVIOUS
<1> PICK kinds : kinds = [m \in 1 .. Len(sent) |-> sent[m].kind]
  OBVIOUS
<1>1. /\ Len(sent) \in Nat /\ Len(kinds) = Len(sent)
      /\ \A m \in Messages : kinds[m] = sent[m].kind /\ sent[m].kind.ch \in Channels
  <2>1. Len(sent) \in Nat /\ \A m \in Messages : sent[m].kind.ch \in Channels
    BY StreamFacts, MessageFacts DEF IInv
  <2>2. QED
    BY <2>1 DEF Messages
<1>2. \A i \in 1 .. Len(output) : output[i] \in Messages
  BY DEF IInv, DeliveryInv
<1>3. Promise!AtMostOnce(output)
  BY <1>1, <1>2 DEF Promise!AtMostOnce, PromiseInv, ArrivalInv, Messages
<1>4. Promise!InOrder(output)
  <2>1. ASSUME NEW i \in 1 .. Len(output), NEW m \in Messages,
               Ordered(kinds[output[i]]), Ordered(kinds[m]), kinds[m].ch = kinds[output[i]].ch,
               m < output[i]
        PROVE  \E j \in 1 .. (i - 1) : output[j] = m
    <3>1. PICK k, ch : k = output[i] /\ ch = sent[k].kind.ch
      OBVIOUS
    <3>2. k \in OrderedOf(ch) /\ m \in OrderedOf(ch) /\ ch \in Channels
      BY <1>1, <1>2, <2>1, <3>1 DEF OrderedOf
    <3>3. QED
      BY <2>1, <3>1, <3>2 DEF PromiseInv, ArrivalInv
  <2>2. QED
    BY <1>1, <2>1 DEF Promise!InOrder, Promise!Ordered, Ordered, Messages
<1>5. Promise!InSequence(output)
  <2>1. ASSUME NEW i \in 1 .. Len(output), NEW j \in 1 .. Len(output),
               Sequenced(kinds[output[i]]), Sequenced(kinds[output[j]]),
               kinds[output[i]].ch = kinds[output[j]].ch
        PROVE  i < j <=> output[i] < output[j]
    <3>1. PICK m, k, ch : m = output[i] /\ k = output[j] /\ ch = sent[m].kind.ch
      OBVIOUS
    <3>2. /\ k \in SequencedOf(ch) /\ m \in SequencedOf(ch) /\ ch \in Channels
          /\ m \in Nat /\ k \in Nat
      BY <1>1, <1>2, <2>1, <3>1 DEF SequencedOf, Messages
    <3>3. (i < j => m < k) /\ (j < i => k < m)
      BY <3>1, <3>2 DEF PromiseInv, ArrivalInv
    <3>4. QED
      BY <3>1, <3>2, <3>3
  <2>2. QED
    BY <1>1, <1>2, <2>1 DEF Promise!InSequence, Promise!Sequenced, Sequenced
<1>6. QED
  BY <1>3, <1>4, <1>5 DEF Promise!Promised

\* What is handed over is kept, and with it the list of those that were.
LEMMA OutputsGrow ==
    ASSUME IInv, NEW p \in net, ReceiveNew(p)
    PROVE  \/ output' = output
           \/ /\ Len(output') > Len(output)
              /\ SubSeq(output', 1, Len(output)) = output
<1>1. Genuine(p) /\ output \in Seq(Messages)
  BY DEF IInv, PacketInv, DeliveryInv
<1>2. PICK l \in Nat : l = Len(output)
  BY <1>1
<1>3. SUFFICES ASSUME output' # output
               PROVE  /\ output' \in Seq(Messages) /\ Len(output') > l
                      /\ \A i \in 1 .. l : output'[i] = output[i]
  <2>1. ASSUME output' \in Seq(Messages), Len(output') > l,
               \A i \in 1 .. l : output'[i] = output[i]
        PROVE  SubSeq(output', 1, l) = output
    <3>1. PICK new \in Seq(Messages) : new = output' /\ Len(new) > l
      BY <2>1
    <3>2. PICK s : s = SubSeq(new, 1, l)
      OBVIOUS
    <3>3. s \in Seq(Messages) /\ Len(s) = l /\ \A i \in 1 .. l : s[i] = new[i]
      BY <1>2, <3>1, <3>2
    <3>4. s = output
      BY <1>1, <1>2, <2>1, <3>1, <3>3, SeqEqual
    <3>5. QED
      BY <3>1, <3>2, <3>4
  <2>2. QED
    BY <1>2, <2>1
<1>4. PICK splits : Accept(p, splits)
  BY DEF ReceiveNew
<1>5. ASSUME output' = Append(output, p.msg)
      PROVE  /\ output' \in Seq(Messages) /\ Len(output') > l
             /\ \A i \in 1 .. l : output'[i] = output[i]
  <2>1. p.msg \in Messages
    BY <1>1 DEF Genuine
  <2>2. output' \in Seq(Messages)
    BY <1>1, <1>5, <2>1, OneMoreOut
  <2>3. QED
    BY <1>1, <1>2, <1>5, <2>2
<1>6. ASSUME PushOrdered(p)
      PROVE  /\ output' \in Seq(Messages) /\ Len(output') > l
             /\ \A i \in 1 .. l : output'[i] = output[i]
  <2>1. p.idx = orderedRead[p.kind.ch]
    BY <1>3, <1>6 DEF PushOrdered
  <2>2. PICK n, run : Turn(p, n, run)
    BY <1>1, <1>6, <2>1, TurnFacts
  <2>3. /\ output' \in Seq(Messages) /\ Len(output') = l + 1 + n /\ n \in Nat
        /\ \A i \in 1 .. l : output'[i] = output[i]
    BY <1>2, <2>2 DEF Turn
  <2>4. l + 1 + n > l
    BY <2>3
  <2>5. QED
    BY <2>3, <2>4
<1>7. QED
  BY <1>3, <1>4, <1>5, <1>6, AcceptCases DEF PushSequenced

LEMMA PromisedInit == Init => Promise!Init
<1> SUFFICES ASSUME Init
             PROVE  Promise!Init
  OBVIOUS
<1>1. sent = <<>> /\ output = <<>> /\ Len(sent) = 0
  BY DEF Init
<1>2. [m \in 1 .. Len(sent) |-> sent[m].kind] = <<>>
  BY <1>1
<1>3. QED
  BY <1>1, <1>2 DEF Promise!Init

LEMMA PromisedStep ==
    ASSUME IInv, IInv', PromiseInv', [Next]_vars
    PROVE  [Promise!Next]_(Promise!vars)
<1>1. ASSUME NEW kind \in Traffic, Send(kind)
      PROVE  Promise!Send(kind)
  <2>1. PICK e, l : e = [kind |-> kind, num |-> messageNumber] /\ l = Len(sent) + 1
    OBVIOUS
  <2>2. l \in Nat /\ Len(sent) \in Nat /\ SentInv /\ sent' = Append(sent, e)
    BY <1>1, <2>1, StreamFacts DEF IInv, Send
  <2>3. /\ Len(sent') = l /\ sent'[l] = e /\ \A m \in Messages : sent'[m] = sent[m]
    BY <2>1, <2>2, OneMoreSent
  <2>4. PICK old, new : /\ old = [m \in 1 .. Len(sent) |-> sent[m].kind]
                        /\ new = [m \in 1 .. Len(sent') |-> sent'[m].kind]
    OBVIOUS
  <2>5. old \in Seq(Traffic) /\ Len(old) = Len(sent)
    <3>1. \A m \in 1 .. Len(sent) : sent[m].kind \in Traffic
      BY <2>2, MessageFacts DEF Messages
    <3>2. old \in [1 .. Len(sent) -> Traffic]
      BY <2>4, <3>1
    <3>3. QED
      BY <2>2, <2>4, <3>2
  <2>6. PICK app : app = Append(old, kind)
    OBVIOUS
  <2>7. /\ app \in Seq(Traffic) /\ Len(app) = l /\ app[l] = kind
        /\ \A m \in 1 .. Len(sent) : app[m] = old[m]
    BY <2>1, <2>2, <2>5, <2>6
  <2>8. new \in Seq(Traffic) /\ Len(new) = l /\ \A m \in 1 .. l : new[m] = app[m]
    <3>1. \A m \in 1 .. l : new[m] = app[m] /\ new[m] \in Traffic
      <4>1. ASSUME NEW m \in 1 .. l
            PROVE  new[m] = app[m] /\ new[m] \in Traffic
        <5>1. CASE m = l
          BY <2>1, <2>3, <2>4, <2>7, <5>1
        <5>2. CASE m # l
          <6>1. m \in 1 .. Len(sent) /\ m \in Messages
            BY <2>1, <2>2, <5>2 DEF Messages
          <6>2. new[m] = sent[m].kind
            BY <2>3, <2>4, <6>1
          <6>3. QED
            BY <2>2, <2>4, <2>7, <6>1, <6>2, MessageFacts
        <5>3. QED
          BY <5>1, <5>2
      <4>2. QED
        BY <4>1
    <3>2. new \in [1 .. l -> Traffic]
      BY <2>3, <2>4, <3>1
    <3>3. QED
      BY <2>2, <2>3, <2>4, <3>1, <3>2
  <2>9. new = app
    BY <2>7, <2>8, SeqEqual
  <2>10. output' = output
    BY <1>1 DEF Send, receiverVars, orderVars
  <2>11. QED
    BY <2>4, <2>6, <2>9, <2>10 DEF Promise!Send
<1>2. ASSUME NEW p \in net, ReceiveNew(p)
      PROVE  [Promise!Next]_(Promise!vars)
  <2>1. sent' = sent
    BY <1>2 DEF ReceiveNew, senderVars
  <2>2. CASE output' = output
    BY <2>1, <2>2 DEF Promise!vars
  <2>3. CASE /\ Len(output') > Len(output)
             /\ SubSeq(output', 1, Len(output)) = output
    <3>1. Promise!Promised(output)'
      BY KeepsPromises, PTL
    <3>2. [m \in 1 .. Len(sent') |-> sent'[m].kind] = [m \in 1 .. Len(sent) |-> sent[m].kind]
      BY <2>1
    <3>2a. Promise!AtMostOnce(output')
      BY <3>1, <3>2 DEF Promise!Promised, Promise!AtMostOnce
    <3>2b. Promise!InOrder(output')
      BY <3>1, <3>2 DEF Promise!Promised, Promise!InOrder
    <3>2c. Promise!InSequence(output')
      BY <3>1, <3>2 DEF Promise!Promised, Promise!InSequence
    <3>2d. Promise!Promised(output')
      BY <3>2a, <3>2b, <3>2c DEF Promise!Promised
    <3>3. Promise!Deliver
      BY <2>1, <2>3, <3>2d DEF Promise!Deliver
    <3>4. QED
      BY <3>3 DEF Promise!Next
  <2>4. QED
    BY <1>2, <2>2, <2>3, OutputsGrow
<1>3. ASSUME sent' = sent, UNCHANGED orderVars
      PROVE  [Promise!Next]_(Promise!vars)
  BY <1>3 DEF Promise!vars, orderVars
<1>4. QED
  BY <1>1, <1>2, <1>3, StepsForUser DEF Promise!Next

(* The library keeps the promises of PacketReliability                     *)
(* (sdk/raknet/PacketPriority.h): whatever is lost, duplicated, reordered  *)
(* and given up, and wherever the numbers wrap, nothing is handed over     *)
(* twice, an ordered message comes after all the earlier ones of its       *)
(* channel and a sequenced one after earlier ones only.  The conversation  *)
(* must be one packet shorter than ReliabilityAssumption asks: beyond,     *)
(* IsOlderOrderedPacket takes an old index for a new one.                  *)
THEOREM TheLibraryKeepsItsPromises ==
    ASSUME 2 * MaxPackets + 2 < OrderRange
    PROVE  Spec => ImplementsMessageChannel
<1>1. IInv /\ PromiseInv /\ [Next]_vars => IInv' /\ PromiseInv'
  BY NextInv, NextPromise
<1>2. IInv /\ IInv' /\ PromiseInv' /\ [Next]_vars => [Promise!Next]_(Promise!vars)
  BY PromisedStep
<1>3. QED
  BY InitInv, InitPromise, PromisedInit, <1>1, <1>2, PTL
     DEF Spec, ImplementsMessageChannel, Promise!Spec
=============================================================================
