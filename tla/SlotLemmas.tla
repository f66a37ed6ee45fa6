----------------------------- MODULE SlotLemmas -----------------------------
(***************************************************************************)
(* Lemmas about sets of slots, for the pools that keep the greatest slot   *)
(* in use beside the slots themselves (server/playerpool.cpp,              *)
(* server/vehiclepool.cpp).                                                *)
(***************************************************************************)
EXTENDS Integers, FiniteSets, FiniteSetTheorems, WellFoundedInduction, TLAPS

\* A finite set of integers that is not empty has a greatest element: of the
\* sets {q \in S : q > p}, which are finite, one contains no other.
LEMMA FiniteMaximum ==
    ASSUME NEW S \in SUBSET Int, IsFiniteSet(S), S # {}
    PROVE  \E p \in S : \A q \in S : q =< p
<1> DEFINE After(p) == {q \in S : q > p}
           T == {After(p) : p \in S}
<1>0. S \subseteq Int
  OBVIOUS
<1>1. IsFiniteSet(S)
  OBVIOUS
<1>2. T \subseteq FiniteSubsetsOf(S)
  <2>1. \A p \in S : After(p) \subseteq S
    OBVIOUS
  <2>2. \A U \in SUBSET S : IsFiniteSet(U)
    BY <1>1, FS_Subset
  <2>3. QED
    BY <2>1, <2>2 DEF FiniteSubsetsOf
<1>3. PICK U \in T : \A V \in T : <<V, U>> \notin StrictSubsetOrdering(S)
  <2>1. IsWellFoundedOn(StrictSubsetOrdering(S), FiniteSubsetsOf(S))
    BY FS_StrictSubsetOrderingWellFounded
  <2>2. T # {}
    OBVIOUS
  <2>3. QED
    BY <1>2, <2>1, <2>2, WFMin
<1>4. PICK p \in S : U = After(p)
  OBVIOUS
<1>5. \A q \in S : q =< p
  <2>1. SUFFICES ASSUME NEW q \in S, q > p
                 PROVE  FALSE
    BY <1>0
  <2>2. After(q) \in T
    OBVIOUS
  <2>3. After(q) \in SUBSET S /\ After(p) \in SUBSET S
    OBVIOUS
  <2>4. After(q) \subseteq After(p) /\ q \in After(p) /\ q \notin After(q)
    <3>1. p \in Int /\ q \in Int /\ q > p /\ ~(q > q)
      BY <1>0, <2>1
    <3>2. \A r \in S : r > q => r > p
      BY <1>0, <3>1
    <3>3. QED
      BY <3>1, <3>2
  <2>5. <<After(q), After(p)>> \in StrictSubsetOrdering(S)
    BY <2>3, <2>4 DEF StrictSubsetOrdering
  <2>6. QED
    BY <1>3, <1>4, <2>2, <2>5
<1>6. QED
  BY <1>5

\* A finite set of integers that is not empty has a least element: the greatest of the
\* opposites.
LEMMA FiniteMinimum ==
    ASSUME NEW S \in SUBSET Int, IsFiniteSet(S), S # {}
    PROVE  \E p \in S : \A q \in S : p =< q
<1> DEFINE T == {-p : p \in S}
           f == [t \in T |-> -t]
<1>1. T \subseteq Int /\ T # {} /\ \A t \in T : -t \in S
  <2>1. \A p \in S : p \in Int /\ -p \in Int /\ -(-p) = p
    OBVIOUS
  <2>2. \A t \in T : t \in Int /\ -t \in S
    <3>1. ASSUME NEW t \in T
          PROVE  t \in Int /\ -t \in S
      <4>1. PICK p \in S : t = -p
        OBVIOUS
      <4>2. QED
        BY <2>1, <4>1
    <3>2. QED
      BY <3>1
  <2>3. QED
    BY <2>2
<1>2. f \in Injection(T, S)
  BY <1>1 DEF Injection, IsInjective
<1>3. IsFiniteSet(T)
  BY <1>2, FS_Injection
<1>4. PICK t \in T : \A u \in T : u =< t
  BY <1>1, <1>3, FiniteMaximum
<1>5. \A q \in S : -t =< q
  BY <1>1, <1>4
<1>6. QED
  BY <1>1, <1>5
=============================================================================
