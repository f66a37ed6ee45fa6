----------------------------- MODULE MCVehicles -----------------------------
(* Instances of Vehicles for TLC. *)
EXTENDS Vehicles
=============================================================================
