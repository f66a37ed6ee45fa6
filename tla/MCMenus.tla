------------------------------ MODULE MCMenus ------------------------------
(* Instances of Menus for TLC. *)
EXTENDS Menus, TLC

PlayerSymmetry == Permutations(Players)
=============================================================================
