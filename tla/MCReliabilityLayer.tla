------------------------- MODULE MCReliabilityLayer -------------------------
(* Instance of ReliabilityLayer for TLC. *)
EXTENDS ReliabilityLayer

KindOf(rel, parts) == [rel |-> rel, ch |-> 0, parts |-> parts]

Mixed == {KindOf("RELIABLE", 2), KindOf("RELIABLE_ORDERED", 1),
          KindOf("RELIABLE_SEQUENCED", 1), KindOf("UNRELIABLE_SEQUENCED", 2)}
=============================================================================
