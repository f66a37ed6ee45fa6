----------------------------- MODULE PlayerIds -----------------------------
(***************************************************************************)
(* The ids of players.  ObjectPool and Menus keep something for each of    *)
(* them and are proved about in one module, so they share the declaration. *)
(***************************************************************************)
CONSTANT Players         \* the player slots (MAX_PLAYERS of them in the code)
=============================================================================
