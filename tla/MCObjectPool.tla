---------------------------- MODULE MCObjectPool ----------------------------
(* Instance of ObjectPool for TLC: two players, ids 1..4, bound 4. *)
EXTENDS ObjectPool, TLC

PlayerSymmetry == Permutations(Players)
=============================================================================
